------------------------- MODULE TransactionTracker -------------------------
(***************************************************************************)
(* The transaction tracker (crates/solana-core/src/tracker.rs) with what   *)
(* it works on: the blockhash cache, submit_transaction, the RPC pool and  *)
(* the table transaction_tracking.                                         *)
(*                                                                         *)
(* The worker's steps are its awaits: the height, each batch of statuses,  *)
(* each rebroadcast.  Transactions are submitted and the chain moves       *)
(* between any two of them.  A node may lag: a height it reports is up to  *)
(* Lag blocks old, and it may not know a signature that has landed.  The   *)
(* process that feeds the table from the channel, and reads it back after  *)
(* a crash, is outside the repository.                                     *)
(***************************************************************************)
EXTENDS TxLifecycle, RpcPool, FiniteSets

CONSTANTS
    Sigs,
    MAX_BATCH_SIZE,
    MaxRetries,         \* RetryPolicy::max_retries
    Validity,           \* blocks a blockhash is good for
    MaxAge,             \* blocks a cached blockhash is handed out for
    Lag,                \* blocks an RPC node may be behind
    MaxHeight,          \* bound on the height of the chain
    MaxForks,           \* bound on blocks dropped before they are final
    MaxCrashes          \* bound on crashes of the process

ASSUME BatchAssumption == MAX_BATCH_SIZE \in Nat \ {0}
ASSUME RetriesAssumption == MaxRetries \in Nat
ASSUME HeightAssumption ==
    {Validity, MaxAge, Lag, MaxHeight, MaxForks, MaxCrashes} \subseteq Nat

VARIABLES
    tip,        \* the height of the chain
    txs,        \* the chain: signature -> transaction
    forks,
    submits,    \* signature -> where its submission stands
    tracking,   \* signature -> record, the tracker's map
    worker,     \* the polling loop
    changes,    \* the channel of state changes, by signature
    rows,       \* signature -> row of transaction_tracking
    persister,  \* the signature whose events are being emitted
    restoring,  \* rows a restarted process has loaded and not yet handled
    crashes

chainVars == <<tip, txs, forks>>
tableVars == <<rows, persister, restoring, crashes>>
trackerVars == <<chainVars, endpoints, submits, tracking, worker,
                 changes, tableVars>>

Heights == 0 .. MaxHeight
Fetched == 0 .. (MaxHeight + Validity)

Tx == [status    : {"unbuilt", "signed", "pending", "processed", "confirmed",
                    "finalized"},
       lastValid : Fetched, ok : BOOLEAN, slot : Heights \cup {NULL}]

NoTx == [status |-> "unbuilt", lastValid |-> 0, ok |-> FALSE, slot |-> NULL]

Record == [state : TxState, slot : Heights \cup {NULL}, lastValid : Fetched,
           submission : Heights, bytes : BOOLEAN, retries : 0 .. MaxRetries]

TrackingRow == [state : TxState, slot : Heights \cup {NULL}, lastValid : Fetched,
                submission : Heights, emitted : SUBSET TxState]

ASSUME AbsentAssumption ==
    NULL \notin Heights /\ NULL \notin Record /\ NULL \notin TrackingRow

Idle == [pc |-> "idle", height |-> 0, todo |-> {}]

\* The records and rows keep their shape; in particular no record is sent
\* again more often than the retry policy allows, and the loop is idle when
\* and only when it has nothing left to do (run).
TrackerTypeOK ==
    /\ PoolTypeOK
    /\ tip \in Heights
    /\ txs \in [Sigs -> Tx]
    /\ submits \in [Sigs -> {"new", "built", "sent", "recorded", "ended"}]
    /\ tracking \in [Sigs -> Record \cup {NULL}]
    /\ worker \in [pc : {"idle", "poll", "rebroadcast"}, height : Heights,
                   todo : SUBSET Sigs]
    /\ (worker.pc = "idle") = (worker.todo = {})
    /\ changes \in [Sigs -> Seq([state : TxState, slot : Heights \cup {NULL}])]
    /\ rows \in [Sigs -> TrackingRow \cup {NULL}]
    /\ persister \in Sigs \cup {NULL}
    /\ restoring \subseteq Sigs
    /\ forks \in 0 .. MaxForks /\ crashes \in 0 .. MaxCrashes

TrackerInit ==
    /\ PoolInit
    /\ tip = 0 /\ forks = 0 /\ crashes = 0
    /\ txs = [s \in Sigs |-> NoTx]
    /\ submits = [s \in Sigs |-> "new"]
    /\ tracking = [s \in Sigs |-> NULL]
    /\ worker = Idle
    /\ changes = [s \in Sigs |-> << >>]
    /\ rows = [s \in Sigs |-> NULL]
    /\ persister = NULL
    /\ restoring = {}

-----------------------------------------------------------------------------
(* The chain, external. *)

NextBlock == tip < MaxHeight /\ tip' = tip + 1 /\ UNCHANGED <<txs, forks>>

\* A transaction is included only while its blockhash is valid.
Land(s) ==
    /\ txs[s].status = "pending" /\ tip <= txs[s].lastValid
    /\ \E ok \in BOOLEAN :
          txs' = [txs EXCEPT ![s].status = "processed", ![s].ok = ok, ![s].slot = tip]
    /\ UNCHANGED <<tip, forks>>

Vote(s) ==
    /\ txs[s].status \in {"processed", "confirmed"}
    /\ txs' = [txs EXCEPT ![s].status =
                  IF @ = "processed" THEN "confirmed" ELSE "finalized"]
    /\ UNCHANGED <<tip, forks>>

Fork(s) ==
    /\ txs[s].status \in {"processed", "confirmed"} /\ forks < MaxForks
    /\ forks' = forks + 1
    /\ txs' = [txs EXCEPT ![s].status = "pending", ![s].ok = FALSE, ![s].slot = NULL]
    /\ UNCHANGED tip

ChainStep ==
    /\ NextBlock \/ \E s \in Sigs : Land(s) \/ Vote(s) \/ Fork(s)
    /\ UNCHANGED <<endpoints, submits, tracking, worker, changes, tableVars>>

\* A height an RPC node reports, and what it may say of a signature.
Reported == {h \in Heights : h <= tip /\ tip <= h + Lag}

Observations(s) ==
    {NullObservation} \cup
    (IF txs[s].status \in {"processed", "confirmed", "finalized"}
     THEN {[status |-> txs[s].status, err |-> ~txs[s].ok, slot |-> txs[s].slot]}
     ELSE {})

-----------------------------------------------------------------------------
(* Blockhash cache and submission. *)

\* The hash a transaction is built with: one the refresh loop or an earlier
\* call cached less than MaxAge blocks ago, or one of now.  No breaker hears
\* of it.  The bound keeps the whole life of a transaction within MaxHeight.
get_fresh(s) ==
    /\ submits[s] = "new" /\ restoring = {}
    /\ \E h \in 0 .. tip :
          /\ tip < h + MaxAge
          /\ h + Validity + EXPIRY_TRACKING_BUFFER + Lag < MaxHeight
          /\ txs' = [txs EXCEPT ![s].status = "signed", ![s].lastValid = h + Validity]
    /\ submits' = [submits EXCEPT ![s] = "built"]
    /\ UNCHANGED <<tip, forks, endpoints, tracking, worker, changes, tableVars>>

\* sendTransaction; an error does not tell whether the network has it.
Submit(s) ==
    /\ submits[s] = "built"
    /\ \E answered \in BOOLEAN, accepted \in BOOLEAN :
          /\ answered => accepted
          /\ submits' = [submits EXCEPT ![s] = IF answered THEN "sent" ELSE "ended"]
          /\ txs' = [txs EXCEPT ![s].status = IF accepted THEN "pending" ELSE @]
    /\ UNCHANGED <<tip, forks, endpoints, tracking, worker, changes, tableVars>>

\* INSERT OR IGNORE, with no event emitted.
insert(s, height) ==
    rows' = [rows EXCEPT ![s] =
        IF @ # NULL THEN @
        ELSE [state |-> "submitted", slot |-> NULL, submission |-> height,
              lastValid |-> txs[s].lastValid, emitted |-> {}]]

\* The height the grace period starts from, and the row; HeightFetchError
\* leaves a transaction that was sent and is not tracked.
Anchor(s) ==
    /\ submits[s] = "sent"
    /\ \/ /\ submits' = [submits EXCEPT ![s] = "ended"]
          /\ rows' = rows
       \/ \E h \in Reported :
             /\ submits' = [submits EXCEPT ![s] = "recorded"]
             /\ insert(s, h)
    /\ UNCHANGED <<chainVars, endpoints, tracking, worker, changes,
                   persister, restoring, crashes>>

\* track: a signature that is tracked is left alone.
TrackAs(s, record) ==
    tracking' = [tracking EXCEPT ![s] = IF @ = NULL THEN record ELSE @]

track(s) ==
    /\ submits[s] = "recorded"
    /\ submits' = [submits EXCEPT ![s] = "ended"]
    /\ TrackAs(s, NewRecord(rows[s].lastValid, rows[s].submission, TRUE))
    /\ UNCHANGED <<chainVars, endpoints, worker, changes, tableVars>>

-----------------------------------------------------------------------------
(* The polling loop. *)

Tracked(map) == {s \in Sigs : map[s] # NULL}

\* A call through the pool: exhausted, failed or answered.
Exhausted == read_client = {} /\ UNCHANGED endpoints
Failed(client) == \E e \in client : record_failure(e)
Answered(client) == \E e \in client : record_success(e)

\* Step 5, without an await: forget what need not be tracked any longer.
Cleaned(map, height) ==
    [s \in Sigs |-> IF map[s] # NULL /\ ~should_continue_tracking(map[s], height)
                    THEN NULL ELSE map[s]]

\* Mutant: the retry policy is not asked.
Rebroadcastable_NoLimit(map, height) ==
    {s \in Tracked(map) : /\ map[s].state = "dropped"
                          /\ map[s].bytes
                          /\ height <= map[s].lastValid}

Rebroadcastable(map, height) ==
    {s \in Tracked(map) : /\ map[s].state = "dropped"
                          /\ map[s].retries < MaxRetries
                          /\ map[s].bytes
                          /\ height <= map[s].lastValid}

\* What follows a batch or a rebroadcast.
Proceed(map, pc, todo) ==
    LET next == IF pc = "poll" /\ todo = {}
                THEN Rebroadcastable(map, worker.height) ELSE todo
    IN  IF next = {}
        THEN tracking' = Cleaned(map, worker.height) /\ worker' = Idle
        ELSE /\ tracking' = map
             /\ worker' = [worker EXCEPT !.todo = next,
                              !.pc = IF todo = {} THEN "rebroadcast" ELSE pc]

\* A tick that ends here polls nothing and removes nothing.
TickFails ==
    /\ worker.pc = "idle" /\ Tracked(tracking) # {}
    /\ Failed(read_client)
    /\ UNCHANGED <<chainVars, submits, tracking, worker, changes, tableVars>>

\* Which records the adaptive tiers select depends on the tick counter.
Tick(h, eligible) ==
    /\ worker.pc = "idle" /\ Tracked(tracking) # {}
    /\ Answered(read_client)
    /\ eligible \subseteq Tracked(tracking)
    /\ worker' = IF eligible = {} THEN Idle
                 ELSE [pc |-> "poll", height |-> h, todo |-> eligible]
    /\ UNCHANGED <<chainVars, submits, tracking, changes, tableVars>>

Change(record) == [state |-> record.state, slot |-> record.slot]

Poll(batch, seen) ==
    LET next(s) == IF tracking[s] = NULL THEN NULL
                   ELSE calculate_next_state(tracking[s], seen[s], worker.height)
        polled  == [s \in Sigs |-> IF s \in batch THEN next(s) ELSE tracking[s]]
    IN  /\ changes' = [s \in Sigs |-> IF polled[s] = tracking[s] THEN changes[s]
                                      ELSE Append(changes[s], Change(polled[s]))]
        /\ Proceed(polled, "poll", worker.todo \ batch)

Batches ==
    {b \in SUBSET worker.todo : Cardinality(b) =
        IF Cardinality(worker.todo) < MAX_BATCH_SIZE
        THEN Cardinality(worker.todo) ELSE MAX_BATCH_SIZE}

PollBatch(batch, seen) ==
    /\ worker.pc = "poll" /\ batch \in Batches
    /\ Answered(read_client)
    /\ \A s \in batch : seen[s] \in Observations(s)
    /\ Poll(batch, seen)
    /\ UNCHANGED <<chainVars, submits, tableVars>>

\* The batch is skipped; rebroadcasts and the cleanup still follow.
BatchFails(batch) ==
    /\ worker.pc = "poll" /\ batch \in Batches
    /\ Exhausted \/ Failed(read_client)
    /\ Proceed(tracking, "poll", worker.todo \ batch)
    /\ UNCHANGED <<chainVars, submits, changes, tableVars>>

\* The same bytes again.  A send that fails may have got through, unless no
\* endpoint was there to take it.
rebroadcast(s, sent) ==
    /\ IF sent THEN Answered(write_client)
       ELSE (write_client = {} /\ UNCHANGED endpoints) \/ Failed(write_client)
    /\ \E through \in IF write_client = {} THEN {FALSE} ELSE {sent, TRUE} :
          txs' = [txs EXCEPT ![s].status =
                     IF through /\ @ = "signed" THEN "pending" ELSE @]

\* A rebroadcast that is answered starts the life of the record again, and
\* sends no change.  One that fails costs a retry too.
Rebroadcast(s) ==
    /\ worker.pc = "rebroadcast" /\ s \in worker.todo
    /\ \E sent \in BOOLEAN :
          /\ rebroadcast(s, sent)
          /\ LET again == [tracking[s] EXCEPT !.retries = @ + 1,
                              !.state = IF sent THEN "submitted" ELSE @,
                              !.submission = IF sent THEN worker.height ELSE @]
             IN  Proceed([tracking EXCEPT ![s] = again], "rebroadcast", worker.todo \ {s})
    /\ UNCHANGED <<tip, forks, submits, changes, tableVars>>

WorkerStep ==
    \/ TickFails
    \/ \E h \in Reported, eligible \in SUBSET Sigs : Tick(h, eligible)
    \/ \E batch \in (SUBSET Sigs) \ {{}} :
          \/ BatchFails(batch)
          \/ \E seen \in [batch -> UNION {Observations(s) : s \in batch}] :
                PollBatch(batch, seen)
    \/ \E s \in Sigs : Rebroadcast(s)

-----------------------------------------------------------------------------
(* The table, and the process around it, external: it stores each change,  *)
(* emits the events that are due and, after a restart, tracks again what    *)
(* the table says is not decided.                                           *)

update_state(s, change) ==
    LET row == rows[s]
    IN  rows' = [rows EXCEPT ![s] =
            IF row = NULL THEN NULL
            ELSE [row EXCEPT !.state = change.state,
                             !.slot = IF change.slot = NULL THEN @ ELSE change.slot]]

Persist(s) ==
    /\ persister = NULL /\ changes[s] # << >>
    /\ update_state(s, Head(changes[s]))
    /\ changes' = [changes EXCEPT ![s] = Tail(@)]
    /\ persister' = s
    /\ UNCHANGED <<chainVars, endpoints, submits, tracking, worker,
                   restoring, crashes>>

mark_event_emitted(s, event) == rows' = [rows EXCEPT ![s].emitted = @ \cup {event}]

\* An event and its flag.
Emit ==
    /\ persister # NULL
    /\ LET due == IF rows[persister] = NULL THEN << >>
                  ELSE pending_events(rows[persister].state, rows[persister].emitted)
       IN  /\ IF due = << >> THEN UNCHANGED rows
              ELSE mark_event_emitted(persister, Head(due))
           /\ persister' = IF Len(due) <= 1 THEN NULL ELSE persister
    /\ UNCHANGED <<chainVars, endpoints, submits, tracking, worker,
                   changes, restoring, crashes>>

\* Mutant: every row is loaded after a restart.
load_active_All == {s \in Sigs : rows[s] # NULL}

load_active ==
    {s \in Sigs : rows[s] # NULL /\ rows[s].state \in {"submitted", "confirmed", "dropped"}}

\* The process dies and starts again: the map, the channel and every call in
\* flight are gone, the table and the chain are not.
Crash ==
    /\ crashes < MaxCrashes
    /\ crashes' = crashes + 1
    /\ endpoints' = [e \in Endpoints |-> [failures |-> 0, open |-> NULL]]
    /\ submits' = [s \in Sigs |-> IF submits[s] = "new" THEN "new" ELSE "ended"]
    /\ tracking' = [s \in Sigs |-> NULL]
    /\ worker' = Idle
    /\ changes' = [s \in Sigs |-> << >>]
    /\ persister' = NULL
    /\ restoring' = load_active
    /\ UNCHANGED <<chainVars, rows>>

mark_expired(s) == rows' = [rows EXCEPT ![s].state = "expired"]

\* mark_expired, for a row whose blockhash is over, or track.  The table
\* does not hold the signed bytes.
Restore(s) ==
    /\ s \in restoring
    /\ restoring' = restoring \ {s}
    /\ \/ /\ \E h \in Reported : h > rows[s].lastValid /\ rows[s].state # "confirmed"
          /\ mark_expired(s)
          /\ UNCHANGED tracking
       \/ /\ TrackAs(s, NewRecord(rows[s].lastValid, rows[s].submission, FALSE))
          /\ UNCHANGED rows
    /\ UNCHANGED <<chainVars, endpoints, submits, worker, changes,
                   persister, crashes>>

TimePasses ==
    /\ Elapse
    /\ UNCHANGED <<chainVars, submits, tracking, worker, changes, tableVars>>

Next ==
    \/ ChainStep
    \/ WorkerStep
    \/ Emit
    \/ Crash
    \/ TimePasses
    \/ \E s \in Sigs : get_fresh(s) \/ Submit(s) \/ Anchor(s) \/ track(s)
                       \/ Persist(s) \/ Restore(s)

TrackerSafety == TrackerInit /\ [][Next]_trackerVars

-----------------------------------------------------------------------------
(* Properties. *)

\* What the tracker and the table call finalized is final on the chain, went
\* well, and is in the slot they name: neither a fork that moved the
\* transaction to another slot nor a restart makes them say otherwise
\* (calculate_next_state, update_state).
FinalizedIsTrue ==
    \A s \in Sigs :
        \A entry \in {tracking[s], rows[s]} \ {NULL} :
            entry.state = "finalized" =>
                /\ txs[s].status = "finalized" /\ txs[s].ok
                /\ entry.slot = txs[s].slot

\* An outcome, once in the table, is never replaced, whatever is still in the
\* channel, however often the process restarts: update_state itself has no
\* guard.
OutcomeIsKept ==
    [][\A s \in Sigs :
          (rows[s] # NULL /\ rows[s].state \in {"finalized", "failed"}) =>
              rows'[s] # NULL /\ rows'[s].state = rows[s].state]_trackerVars

\* Whoever hears that a transaction is final has heard that it was confirmed,
\* and never hears that it failed (pending_events).
EventsAgree ==
    \A s \in Sigs : rows[s] # NULL =>
        LET heard == rows[s].emitted
        IN  "finalized" \in heard => "confirmed" \in heard /\ "failed" \notin heard

\* A transaction that is confirmed and then forked away for good.
Orphaned(s) ==
    /\ tracking[s] # NULL /\ tracking[s].state = "confirmed"
    /\ txs[s].status = "pending" /\ tip > txs[s].lastValid

\* Every transaction that is tracked is given up in the end, decided or
\* expired, unless it was seen confirmed and a fork took it away.
TrackingEnds ==
    \A s \in Sigs : (tracking[s] # NULL) ~> (tracking[s] = NULL \/ Orphaned(s))

\* The worker runs; blocks come; votes decide.  A record is selected by its
\* tier again and again, and the RPC answers again and again.
PolledTruly(s) ==
    \E batch \in SUBSET Sigs :
        /\ s \in batch
        /\ \E seen \in [batch -> UNION {Observations(t) : t \in batch}] :
              /\ Observations(s) # {NullObservation} => seen[s] # NullObservation
              /\ PollBatch(batch, seen)

Selected(s) ==
    \E eligible \in SUBSET Sigs : s \in eligible /\ Tick(tip, eligible)

TrackerSpec ==
    /\ TrackerSafety
    /\ WF_trackerVars(WorkerStep)
    /\ WF_trackerVars(NextBlock /\ ChainStep)
    /\ WF_trackerVars(TimePasses)
    /\ \A s \in Sigs : /\ WF_trackerVars(Vote(s) /\ ChainStep)
                       /\ SF_trackerVars(Selected(s))
                       /\ SF_trackerVars(PolledTruly(s))

=============================================================================
