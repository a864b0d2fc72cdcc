# TLA+ models of the SolFrontier MCP server

The server turns an English sentence into a conditional deposit: when a Solend
rate passes a threshold, a fixed amount of the user's USDC, which the user has
transferred to a wallet the service controls, is deposited.  A user *proposes*
an intent, *finalizes* it (rule and funding row are written), *pays* with a
transaction from the signing page, *confirms* the payment, and a separate
process, `watch --execute`, *executes* it.  State is kept in two SQLite files
and on the Solana chain.

The modules here model that rail: where the money of an intent is, who may move
it, and what the tables say about it while tool calls, watchers, crashes and the
chain interleave; and what stands behind single steps of it: the checks of a
candidate over its chain reads, the wallet's review pipeline with policy and human
approval, and the tracking of a submitted transaction.  TLC checks small instances, TLAPS proves the central results
for every instance.

All source paths below are relative to `src/`.

## 1. Inventory

### Components on the money rail

| Component | State | Operations | Hard part | What makes it correct |
|---|---|---|---|---|
| **Funding intent table** `crates/state-store/src/stage2_w5h_funding.rs`, migration 0012 | one row per intent: status (10 values), wallet, rule hash, deadline, funding signature and slot, execution and refund signature | insert; guarded UPDATEs (submit, reserve, invalid, lease, release, complete, expire, lease refund, refunded, failed) | callers in several processes, each with its own clock sample; execution and refund compete for one row | custody of the budget is exclusive; terminal is final; evidence of payment and settlement is present and never replaced |
| **Watch rule table** `crates/state-store/src/stage2_watch_rules.rs` | one row per rule: status, `completed` and `revoked` flags, creation and expiry slot | insert; each transition once unguarded and once guarded by status | unguarded statements next to guarded ones; a flag and a status say the same thing | leased once; a retired rule does not come back |
| **Finalize sidecar** `bins/solfrontier-mcp/src/sidecar.rs` | a second SQLite file: consumed drafts, hash index; per process: unopened, ready or unavailable | lazy open or create, claim a draft, index a hash, look up a hash | creation races between processes and can be cut short; no transaction spans both files | a draft is consumed once; rows are append-only; nobody uses a half-made file |
| **`finalize_intent`** `bins/solfrontier-mcp/src/finalize.rs` | handler locals | claim, read market, write rule, index hash, write funding row, read back, answer | six writes and reads that can fail or be cut off one by one; ids are deterministic, so different calls meet in one row | instructions to pay are only given for a row and a rule that belong together and to the caller, before the deadline |
| **`confirm_funding`** `bins/solfrontier-mcp/src/funding.rs` | handler locals | load and gate, read transaction, two UPDATEs, resolve a lost race | concurrent confirmations with other signatures; crash between the UPDATEs; forks | a reserved budget was paid in full, once, whatever else the transaction does; a success answer is true; retrying finishes |
| **`watch --execute`** `bins/solfrontier-mcp/src/watch.rs`, `watch_execute.rs`, `watch_execution_state.rs`, `watch_submission.rs` | candidates of the cycle, lease, signature, poll counters | scan, revalidate, validate against the chain, lease, sign, send once, poll, write outcome | several watchers; lost send answers; poll timeouts; forks; crash at any await | at most one deposit per intent is ever broadcast; the outcome written is the outcome on the chain |

They interact through the two tables and the sidecar only: there is no call or
message between `finalize`, `confirm` and the watcher.  The intent id (amount and
threshold) is the key of both tables, and the rule's canonical hash, stored in
the funding row, binds them together.

### Behind the steps of the rail

| Component | State | Operations | Hard part | What makes it correct |
|---|---|---|---|---|
| **Candidate checks** `crates/executor/src`, `watch.rs`, `finalize_market.rs` | facts read so far, findings | preflight, four account reads, second slot, `validate_chain`, plan | the reads are no snapshot and the node lags; the rate is fixed-point arithmetic in two words | what is called ready is funded, in time, fresh, and its true rate meets the threshold |
| **Review pipeline** `crates/wallet-engine/src/pipeline.rs`, `watch_wallet.rs`, `crates/solana-core/src/compute.rs` | the transaction with its simulation, verdict and digest | simulate (two passes), evaluate policy, sign or park; `review_and_sign` | a second pass that fails half way; a blockhash newer than the simulation | only what was simulated, judged and shown is signed |
| **Risk engine** `crates/risk-engine/src/policy.rs` | none | `evaluate_at` over 12 conditions, session rules first | precedence, amounts at their limit | first match decides, no match asks a human |
| **Approval workflow, pending tables** `crates/types/src/approval.rs`, `crates/state-store/src/{approval_workflow,pending_state,pending_jupiter}.rs` | workflow stages; rows for approvals, signatures, completion metadata, swaps | decide, mark terminal, insert atomically, expire, purge | concurrent handlers, an unguarded UPDATE of the workflow, crashes between statements | one request is signed once, with all its approvals in the copy that was decided on, and not if its row was rejected or expired; nothing half persisted is recovered |
| **Submitted transactions** `crates/solana-core/src/{tx_lifecycle,tracker,submission,blockhash}.rs`, `crates/state-store/src/tracking.rs` | record per signature; row with emitted events | submit, track, poll, rebroadcast, clean up, persist, restore | forks, lagging nodes, restarts, an unguarded UPDATE | what is recorded as final is final; events agree; tracking ends |
| **RPC pool** `crates/solana-core/src/rpc/mod.rs` | failures and opening time per endpoint | choose an endpoint, record success or failure | an open circuit is probed, and the probe may fail | an endpoint is tried again |
| **`get_intent_status`** `status.rs` | the rows read so far | resolve, read row, read rule, answer | two reads while a watcher writes; an index that may be out of date | an answer does not contradict itself and terminal is true |
| **`propose_intent`** `propose.rs` | none | validate, parse the amount, hash | amounts at their limits | one id, one meaning |

### Components that are not modelled

| Component | Why |
|---|---|
| Sessions, bindings, challenges, spend, session policy | tables that no tool of this server calls; the caller is not in the repository |
| Audit, traces, transactions, wallets | plain inserts, no protocol |
| Quotes, positions, Jupiter client | reads and HTTP, no state |
| Solend instruction builders, byte layouts, canonical encoding | pure functions on bytes; what depends on them is whether an account decodes and whether two values are equal |
| Signing page | browser code; its transaction is what `ConfirmFunding` is paid with |
| Server assembly, dev seed, observability, migrations runner, key loading | wiring |

`PROJECT.json` lists all of them with their sources, and under `hazards` the
places, line by line, where an order of events that a test hardly reaches could
do harm, with the properties that would notice.

## 2. Modules

    Null
    |-- Identifiers
    |     |-- FundingIntents ---- implements ---> BudgetCustody
    |     |     `-- FundingIntentsProofs
    |     |-- WatchRules
    |     |     `-- WatchRuleLifecycle
    |     |           `-- WatchRuleLifecycleProofs
    |     |-- Sidecar
    |     |-- FinalizeIntent   = FundingIntents + WatchRules + Sidecar + Proposal + requests
    |     |     `-- FinalizeIntentProofs
    |     |-- ConfirmFunding   = FundingIntents + WatchRules + FundingProof + chain + calls
    |     |     `-- ConfirmFundingProofs
    |     `-- WatchExecutor    = FundingIntents + WatchRules + chain + watchers
    |           `-- IntentStatus = WatchExecutor + a query
    |                 `-- WatchExecutorProofs
    |-- Proposal, FundingProof
    |-- SupplyApr -- CandidateCheck -- CandidateInspection
    |                                    `-- CandidateInspectionProofs
    |-- Policy -- ReviewPipeline --.
    |-- ApprovalWorkflow ----------+-- TransactionReview
    |-- PendingState --------------'     `-- TransactionReviewProofs
    |-- TxLifecycle --.
    `-- RpcPool ------+-- TransactionTracker
                            `-- TransactionTrackerProofs

The proofs of the three processes of the rail also extend FundingIntentsProofs.

* **Null**: the absent value.  **Identifiers**: ids and slots, shared by the two
  tables of the rail.
* **BudgetCustody**: the abstract promise of the funding layer, from the
  race-safety contract at the head of migration 0012: the budget of an intent is
  in one pair of hands, goes to the executor or to the refund route only out of
  "held", and never moves again once spent, returned or written off.
* **FundingIntents**: the table.  Each method of the repository is an operator
  with the method's name, its WHERE clause the guard and its SET list the primed
  row; a call that affects no row changes nothing.  `FundingSpec` lets anybody
  call anything at any time with any clock sample of the past.
* **WatchRules**: the statements of the rule table, prefixed `rule_` where both
  repositories use a name.  **WatchRuleLifecycle** drives them by the contracts in
  the repository's comments: a ticking watcher with the TOCTOU-safe statements, whose
  scan may be out of date, executors that lease, a user who revokes, and the executor
  of the rail, which completes rules that it never leased (`RailCompletes`).
* **Sidecar**: the file (`absent`, `empty`, `valid`), each process's
  `SidecarState`, and the two tables.  Creating it is three steps: finding no
  file, creating it, committing the schema.
* **FinalizeIntent**: `finalize_intent_json`, one action per await.  `pc` names
  the await a request is at.  Every store call may fail, with or without having
  taken effect; a crash loses the requests of its server and closes its pool.
* **ConfirmFunding**: `confirm_funding_json`, one action per await, against a
  chain that confirms, finalizes, drops and re-lands transactions.  `landed` is
  a history variable: the slots in which a payment was ever confirmed.
* **WatchExecutor**: the watcher, one action per await that another process can
  get between.  `Holding` are the positions from the won lease to the last write.
* **Proposal**: `propose_intent` and the mapping of a draft to a rule, as operators.
* **FundingProof**: the parser of `getTransaction` and `verify_funding_transaction`,
  with its checks in the code's order.  `ConfirmFunding` applies it to payments that
  are exact, short, or carry a plain transfer besides the checked one.
* **IntentStatus**: `get_intent_status`, its two SELECTs as separate steps between
  those of the watchers.
* **SupplyApr**: the rate arithmetic, with 128-bit words shortened to
  `2 * HalfBits`, and the same rate as a fraction of unbounded integers.  Powers of
  two (`pow2`) and the rounds of the division are recursive functions.
  **CandidateCheck**: the findings of preflight and chain validation.
  **CandidateInspection**: one inspection, a step per read, while the chain moves.
* **Policy**, **ReviewPipeline**, **ApprovalWorkflow**: the risk engine, what the
  pipeline does to a transaction, the workflow's decisions; pure operators.
  **PendingState**: the statements of the approval tables.  **TransactionReview**:
  pipeline tasks of the executor and of the gateway over these tables, with crashes
  and the startup sequence.  The gateway is not part of the repository; its actions
  are marked external in `PROJECT.json` and follow what the repositories' comments
  require of their caller.
* **TxLifecycle**: the state machine of a submitted transaction, pure.  **RpcPool**:
  endpoints and their breakers.  **TransactionTracker**: blockhash cache, submission,
  polling loop, table and restart, against a chain with forks and lagging nodes.  The
  task between the tracker's channel and the table is external too.
* **MC...** modules define symmetry sets and the data of an instance (payments,
  policies, candidates, accounts).  Some also evaluate a pure operator over a range
  as an ASSUME: `AmountsAreExact` and `RuleIdIdentifies` for proposals,
  `MulDivAssumption` for the two-word arithmetic.

Definitions marked "Mutant" are plausible bugs of the definition after them; each
property of a passing run is known to be violated by one of them, so none holds
by the shape of the model.

## 3. Abstractions

* *The canonical hash.*  For one intent id everything in the canonical rule but
  `created_at_slot` is fixed, so on the rail the hash is represented by that slot.
  Rules of another shape under the same id are the flag `canonical = FALSE`.  In
  `CandidateCheck`, where rules of any shape occur, a rule is its own hash.
* *Digests and signatures* stand for what they are made of: equal digests, equal
  contents.
* *The payment.*  What `getTransaction` answers is a record of keys, instructions
  and balances; the chain adds slot and success.  A payment may carry memos of
  several intents: the checks ask only that the right one is among them.  An answer
  that does not decode (`Decodable`) is an RPC error, to be tried again.
* *Numbers.*  Amounts, compute units, slots and rates are small; the constants that
  bound them (`U64Max`, `HalfBits`, `MAX_STALENESS`, `APR_BPS_SANITY_MAX`) are set so
  that sums and products reach and pass them.
* *The scan.*  `scan_cycle` reads both tables in one step.  Its result is only a
  hint: everything it found is checked again by `Revalidate`, so a scan over
  several snapshots offers nothing that the subsets chosen here do not.
* *Revalidation.*  `revalidate_one` reads the slot, the funding row and the rule one
  after the other; `Revalidate` is one step, at the moment of the last read.  Of the
  funding row the checks use only columns that never change, and both clocks are
  sampled again by `ValidateChain` and before the lease, so an older slot or row
  lets nothing through that a later step would not stop.
* *Expiry in slots and in milliseconds* are independent clocks (`slot`, `now`).
* *Polling by the watcher.*  `TOTAL_POLL_TIMEOUT` is a number of polls, `MaxPolls`; a node may
  be behind the chain, so "not final yet" is a possible answer at any time.
* *Left out*: malformed parameters and missing RPC configuration in
  `confirm_funding`, wording of answers and reports, logging, health columns.
  A report of the watcher that cannot be written is kept, since it ends the
  cycle (`EndAttempt`).
* *Initial states.*  `ConfirmInit` is what `finalize` can leave behind, its
  partial failures included; `ExecutorInit` is what `confirm` leaves before its
  last UPDATE; `StatusInit` adds an intent without a rule and a rule without an
  intent.
* *The executor's choice.*  `WatchExecutor` decides by the tables and the clocks and
  leaves the rest of a candidate to a nondeterministic choice; `CandidateInspection`
  and `TransactionReview` are what that choice and the step `Sign` consist of.  The
  three are not composed in one run: a choice includes every result the detailed
  modules can produce, so what is shown of the executor does not depend on them.

## 4. What TLC checks

| Run | Instance | Properties |
|---|---|---|
| `funding_table` | 2 intents, 2 signatures, clock 0..3 | `FundingTypeOK`, `FundedHasEvidence`, `SettledOnce`, `RefundOnlyAfterDeadline`, `TerminalIsFinal`, `EvidenceIsFrozen`, and `CustodyContract`: the table implements `BudgetCustody` |
| `watch_rule_lifecycle` | 2 rules, 2 executors, 3 slots | `LeasedAtMostOnce`, `RetirementIsPermanent` |
| `finalize` | 2 servers, 2 requests, 2 drafts, 3 wishes (one for a legacy rule, one too small), 2 wallets, 1 crash | `FinalizeTypeOK`, `DraftConsumedOnce`, `OfferIsBacked`, `SidecarIsAppendOnly`, `OfferIsTimely` |
| `finalize_orphan` | 1 server, 2 requests, 2 slots, 1 crash | `OfferIsExecutable` is **violated**: finding 1 |
| `confirm` | 2 intents, 2 payments (exact for one intent or both, or with an extra transfer), 2 calls, 1 rollback | `ConfirmTypeOK`, `ReservedIsPaid`, `SuccessIsRecorded`, `RaceIsDecided` |
| `confirm_retry` | 1 intent, 2 payments (exact or short), 2 retrying clients, 2 faults, fair | `FinalPaymentIsReserved` |
| `confirm_rollback` | 1 intent, 1 payment, 1 rollback | `ReservedIsFinal` is **violated**: finding 2 |
| `executor` | 2 watchers, 2 intents, 2 deposits, 1 fault, 1 rollback, 2 polls | `ExecutorTypeOK`, `AtMostOneBroadcast`, `ReservedIsUnspent`, `LeaseIsExclusive`, `OutcomeIsTrue`, `SplitStateIsOneSided` |
| `executor_liveness` | 2 watchers, 1 intent, 1 fault, 1 asker, fair | `StatusIsCoherent`, `RevocationIsHonoured`, `AttemptEnds` |
| `inspection` | 30 candidates, most of them wrong in one way; 20 reserves; 1 account wrong at first, 1 change | `ReadyIsRight`, `RateIsSound` |
| `review` | 1 request, 2 tasks, 2 operators, 4 proposals, 11 rules, 1 crash | `ReviewTypeOK`, `SignedAsReviewed`, `SignedAsApproved`, `SignedOnce`, `RecoveryIsWhole` |
| `tracker` | 1 transaction, 1 endpoint, 1 retry, 1 fork, 1 crash, fair | `TrackerTypeOK`, `FinalizedIsTrue`, `EventsAgree`, `OutcomeIsKept`, `TrackingEnds` |

The comment above each property says which behaviour of the code it is about.

**Bounds.**  `MaxNow`, `Slots`: the code compares one deadline with a sampled
clock, so a time before, at and after the deadline, and one more for a stale
sample, are all that can be told apart; `Lifetime` and `RuleSlots` are 1.
`MaxCrashes`, `MaxFaults`, `MaxRollbacks`: one fault between any two steps
reaches every torn state, since each torn state is left by one interruption and
the next call starts from it; `confirm_retry` has two so that the retry can fail
too.  `MaxPolls`, `Tolerance`: enough for a transient error, a recovery and a
timeout.  `BatchLimit` is 2 with 2 intents in `executor` and 1 with 1 intent in
`executor_liveness`: a truncated scan only disables the action.  Two requests,
calls, tasks or watchers are the smallest numbers that race.  Signatures, intents,
watchers and so on are interchangeable, and symmetry is used only in runs without
liveness properties.  `inspection`: words have 8 bits (`HalfBits` 4) and a unit is
20, so that products take two words; reserves lie on and between the corners of the
rate curve; `Lag` and `MAX_STALENESS` are 1 and `MaxSlot` 4, one past the rule's
deadline 3; one account is wrong at first and one changes under way, since each
check looks at one fact or at one fact and a row.  `review`: one request with two tasks, as two requests share no row;
`Lease`, `MaxAge` 1 and `Retention` 2 with a clock of 0..2 put each age before, at
and after its limit.  `tracker`: records are independent of each other but for the
batch they are polled in, so one signature is tracked; `MaxHeight` 4 leaves room for
the validity, the grace and the buffer of one block each and for the lag of a node,
and `get_fresh` only builds what fits.  Deadlock is checked in `tracker`, whose
clock never stops; elsewhere it is not: the bounds stop clocks and chain, and with
no request, payment or reserved intent left the system may rest.

**Fairness.**  `FairConfirmSpec`: a running call takes its steps (tokio polls it)
and a client that was told to retry does; nothing is asked of the chain, of
payers or of first calls.  `StatusSpec`: weak fairness of `Attempt` of each
watcher, that is, a running process goes on; nothing is asked of the chain, the
clocks, confirmations, queries or the start of a scan.  `TrackerSpec`: the polling
loop runs, blocks come, time passes and votes decide (weak); a record is selected
again and again, since every tier has its tick, and a node that is up now and then
answers truthfully (strong).  Nothing is asked of forks, of crashes or of the
submission.

### Findings

1. `finalize_orphan`.  If a call wrote the rule and died before the funding row,
   a later call for the same amount and threshold takes over the stored rule, even
   an expired one, and gives it a funding row with a fresh deadline and
   actionable instructions.  `README.md:151-153` says finalize never manufactures
   a fresh deadline for an expired intent.  The watcher's preflight can never pass
   for such an intent, so the payment would be stuck.
2. `confirm_rollback`.  Migration 0012 says a budget is reserved when the payment
   is *finalized*; the code reserves it at *confirmed*, and such a payment can be
   dropped.  The code keeps this as a compatibility boundary.  `ReservedIsPaid`
   is what does hold: the payment was confirmed in the recorded slot.

Five more observations, without a run of their own.  `update_state`
(`crates/state-store/src/tracking.rs:92`) is called monotonic in its comment and has
no guard: in `TransactionTracker` a row goes from confirmed back to dropped, because
`track` starts a restored record as submitted; `OutcomeIsKept` is what holds
nevertheless.  A transaction seen confirmed on a fork that is dropped is tracked for
ever (`Orphaned`, excluded from `TrackingEnds`).  A breaker whose probe fails keeps
its old opening time, so after the first interval it holds nobody back any more.
`verify_funding_transaction` asks that the memo of the intent is *among* the memos
of the transaction and the table has no unique signature, so a payment built by hand
with the memos of two intents of one amount reserves both budgets; the one that
`finalize` prescribes has a single memo.  `ReservedIsPaid` says that the payment names
the intent, not that it names no other.
A rejection is terminal for the workflow it is applied to (`approval.rs:232`), but
each handler applies its decision to a copy it loaded before: when one handler approves
and the other rejects, the one that turns the pending row first wins, and
`approval_workflows` may end up with either decision, a rejection next to a signature
included.  `SignedAsApproved` says what does hold: nothing is signed of a row that
waits, was rejected or expired, and the winner's own workflow had every approval and
no rejection.

## 5. What TLAPS proves

For every set of intents, wallets, signatures, slots, deposits, processes, requests,
calls, tasks and operators, every policy, and every value of the bounds.

**FundingIntentsProofs.**  `FundingInv` is the conjunction of `FundingTypeOK`,
`FundedHasEvidence`, `SettledOnce` and `RefundOnlyAfterDeadline`; together they
are inductive (a completed row keeps its evidence because the lease it came from
had it; a refund is late because the row is unsettled and the sample is not later
than the clock).  From it: `FundingTypes`, `FundedHasEvidenceAlways`,
`SettledOnceAlways`, `RefundOnlyAfterDeadlineAlways`, `TerminalIsFinalAlways`,
`EvidenceIsFrozenAlways` (with the further invariant that a row has no signature
before it is submitted and no slot before it is reserved), and the refinement
`FundingImplementsCustody`: initial states map to initial states and each statement
to one move of custody or to none.

These are results about `FundingSpec`, in which nobody in particular calls the
methods.  `CallersKeepPromises` carries them over: a process whose behaviours start
on rows that nobody has paid for yet, and whose steps are `FundingNext` steps or leave
the table alone, satisfies `TablePromises`, the conjunction of all six.  The three
processes of the rail are shown to be such callers in their own proof modules.

**WatchExecutorProofs.**  `ExecutorInv` is `Typed` and `LeaseInv`, which says what
a holder knows at each position (`HolderInv`), that there is one holder
(`OneHolder`), and what a row says with or without a holder (`IntentInv`).
Neither half is inductive alone: releasing a lease preserves "a reserved row has
nothing sent" only because the releasing holder has sent nothing, and the holder
knows that only because the row it leased had nothing sent.  From it:
`ExecutorTypes`, `AtMostOneBroadcastAlways`, `ReservedIsUnspentAlways`,
`LeaseIsExclusiveAlways`, `OutcomeIsTrueAlways`, `SplitStateIsOneSidedAlways`.
There are no bounds on crashes, lost store answers, watchers or attempts in these
results other than as arbitrary constants.  `ExecutorKeepsPromises` adds that the
executor is a caller of the table (`ExecutorCallsTable`); the invariant for it
(`SampledInv`) is that the clock sample of a lease is never later than the clock and
that a submitted row names its payment.

The same module has the status queries.  A query reads the funding row and the rule
row in two steps, so a coherent answer needs that what it read first is still true
when it reads second.  `StatusInv` is `ExecutorInv` with what a query knows between
its reads (`QueryOK`); `TablesMove` shows that every step of the executor takes both
tables forward only.  From it: `StatusIsCoherentAlways`.  `RevocationIsHonoured`
is a nested temporal property without fairness: it follows from the stability of
"revoked, no attempt in flight, nothing sent" (`StoppedStays`), which gives
`RevocationIsHonouredAlways`.

**WatchRuleLifecycleProofs.**  `LeasedAtMostOnce` counts leases, and the count is
only kept down by the status column, so `Inv` adds that a row that can still be
leased never was (`LeaseIsSpent`), that an executor still holding a rule took the
one lease of it (`HolderLeased`) and that `completed` and `revoked` are only set
with a terminal status (`FlagsAreTerminal`).  A completed rule need not have been
leased: the rail leases the funding row and completes the rule.  From it: `LifecycleInv`,
`LeasedAtMostOnceAlways`, `RetirementIsPermanentAlways`.

**FinalizeIntentProofs.**  `FinalizeInv` says per request what it knows at its
await (`ReqOK`): a claim is in the sidecar, `persisted` means that the rule is
stored as this request knows it, the row it answers from is the stored one.  What
a request learnt before an await is still true after it because the three tables
only grow (`Grows`): a row that exists keeps its wallet, hash and deadline.  Each
action is shown to move one request to a record that satisfies `ReqOK` (`Moves`),
and one lemma turns that into the invariant.  From it: `FinalizeTypes`,
`DraftConsumedOnceAlways`, `OfferIsBackedAlways`, `OfferIsTimelyAlways`,
`SidecarIsAppendOnlyAlways`.  `FinalizeImplementsFunding` shows that finalize
refines the table's own specification, from the empty table on, and
`FinalizeImplementsCustody` follows.  It needs that at the funding write the request
has a slot for the rule, its own or that of the stored rule, and a deadline that is
the funding window after some moment of the past (`CallerInv`).

**ConfirmFundingProofs.**  `ConfirmInv` says per row that a reserved, executing or
failed one has a payment that proves itself, in a slot in which it landed, against
the hash of the stored rule (`RowOK`), and per call what it has established before
each write (`CallOK`).  It needs that a row, once bound to a signature, keeps it
(`RowMoves`).  `ProvenPays` derives from the checks of `verify_funding_transaction`
what `ReservedIsPaid` promises: payer, recipient and amount of the payment, and that
the memo of the intent and its rule is among its memos.
From it: `ConfirmTypes`, `ReservedIsPaidAlways`, `SuccessIsRecordedAlways`,
`RaceIsDecidedAlways`, and `ConfirmKeepsPromises`: a call writes only with the
signature it was given and a slot in which the payment landed, so it is a caller of
the table.

**TransactionTrackerProofs.**  `TrackerInv` is the type, what is left of a batch of
rebroadcasts (`WorkerOK`) and, per signature, five facts about transaction, record,
channel and row: what cannot be there yet (`TxOK`, `StageOK`), that nothing follows
an outcome in the channel or from the record (`DecidedOK`), that each copy of
"finalized" is true (`TruthOK`), that events agree with the row (`EventsOK`).
`OutcomeIsKept` rests on `DecidedOK`, since `update_state` itself has no guard.
From it: `TrackerTypes`, `FinalizedIsTrueAlways`, `EventsAgreeAlways`,
`OutcomeIsKeptAlways`.

**TransactionReviewProofs.**  The right to sign a request is in one place at a
time: with one live task (`OneLive`), in a pending approval, in a pending
signature, or used; `LiveOK` and `RowOK` say that each place excludes the others.
`TaskOK` says what a task knows of its transaction at each position of the
pipeline, and `WorkflowOK` that the votes of a stage are by different operators of
its roles, so that the count of votes the code compares with the quorum is a count
of operators (`QuorumOfOperators`).  `BootOK` is what recovery needs: at startup
there are no tasks, and signatures expire before their metadata, by one cutoff and
with equal creation times.  From it: `ReviewTypes`, `SignedAsReviewedAlways`,
`SignedOnceAlways`, `RecoveryIsWholeAlways`.  That the pending row decides is a second
invariant on top, `GrantInv`: a task on its way to a signature (`Entitled`), a waiting
signature and a signature made each have an approval row that was consumed, purged
since, or never was.  It is kept because only the handler that turns a waiting row gets
on that way, and nobody else is on it then (`NobodyElse`).  Both give
`SignedAsApprovedAlways`.

**CandidateInspectionProofs.**  `MulDivIsExact`: for words of any width,
`mul_div_floor_u128` is the floor of the product over the divisor, and it fails only
for the divisor 0 or a quotient that is no word.  The product by halves is exact, with
its carries, and its high word is a word, so the checked additions that build it in
the code never fail.  The division is an induction over the bits that came down:
after each round, quotient and remainder are those of the leading bits, and the
overflow flag says whether the quotient has outgrown the word.  The library's
induction theorems cannot be used for it; instead `Least`, a form of the least number
principle about a set, refutes the least round that fails.  That the recursive
functions exist is shown by constructing them (`DoublingExists` and its like).  Then
each operation of the rate rounds down, the roundings compose (every operation is
monotone in what was rounded), and `NativeSupplyAprIsSound` compares the result with
the true fraction.  `InspectionInv` says what an inspection knows at each read: the
rows passed preflight, each fact is an account as it once was and the rate is the one
of the reserve that was read, and a verdict is that of `validate_chain` over these
facts with the clocks of the end.  `ReadyIsRight` is not inductive, since it speaks
of a finished inspection only.  Since the computed rate is never above the true one,
a computed rate above the threshold (`Gt`) or at least it (`Gte`) makes the true one so
too; for `Lt` and `Lte`, which the server never builds, nothing follows.  From it: `InspectionInvariant`, `RateIsSoundAlways`,
`ReadyIsRightAlways`.

**Assumptions.**  All are evaluated by TLC for the constants of each run.

* *Kinds of values*: slots are naturals and NULL is none of the ids, answers or
  names (`SlotsAssumption`, `NullAssumption`, `FundingNullAssumption`,
  `HashNullAssumption`, `FinalizeNullAssumption`, `AnswersAssumption`,
  `StatusNullAssumption`, `CommitmentAssumption`, `AbsentAssumption`,
  `ReviewNullAssumption`); the codes of the proof of payment are told apart from
  its success (`CodesAssumption`).
* *Numbers*: durations, amounts, thresholds and bounds are naturals
  (`LifetimeAssumption`, `MaxNowAssumption`, `RuleSlotsAssumption`,
  `ExecutorBoundsAssumption`, `AmountAssumption`, `UnitsAssumption`,
  `ReviewBoundsAssumption`, `AmountsAssumption` and the bounds of the tracker and
  the pool).
* *Somewhere to start*: a slot 0 and a wallet (`ExecutorStartAssumption`,
  `ConfirmStartAssumption`, `FinalizeStartAssumption`); deposits are signatures
  (`DepositsAssumption`); the drafts that `finalize` is called with are proposals
  (`ProposalsAssumption`).
* *Payments* (`PaymentsAssumption`): balances and amounts are naturals.
* *Words* (`WadAssumption`, `WidthAssumption`, `ErrorAssumption`): the unit is a
  multiple of a percent and of a basis point, it is a word, and a percent of it fits
  half a word, as 10^18 and 10^16 do in a `u128` and a `u64`; an error is no number.
* *Rows and accounts* (`ConditionsAssumption`, `CandidatesAssumption`,
  `AccountsAssumption`, `StalenessAssumption`, `InspectionAssumption`,
  `StatusAssumption`): what the Rust types say of decoded rows and accounts.  A
  candidate has a funding row; amounts and deadlines are naturals, conditions are a
  sequence of the enum's variants, and the numbers of a reserve fit the fields of
  `ReserveRateSnapshot`.
* *Policies* (`RolesAssumption`, `RulesAssumption`): an operator has a role, the
  policy is a sequence of rules with the conditions and actions of `policy.rs`, and
  its stages ask for a natural number of approvals.

**Only model-checked.**  Liveness under fairness (`FinalPaymentIsReserved`,
`AttemptEnds`, `TrackingEnds`), which the provers cannot handle.  The properties of
the two runs that end in a violation are false and have no theorem.  The ASSUMEs of
the MC modules about proposals (`AmountsAreExact`, `RuleIdIdentifies`) are evaluated
over bounded ranges only; `MulDivAssumption` is one instance of `MulDivIsExact`.

## 6. Plan

Done: the funding table and its contract, the rule table, the sidecar, `finalize`,
`confirm` with its proof of payment, the executor, status queries, proposals,
candidate checks with the rate arithmetic, the wallet pipeline with policy and
approval tables, submitted transactions with the RPC pool; proofs of every safety
property of the runs, and of each process of the rail as an implementation of the
custody contract (section 5).

Left, in order of importance:

1. *Rail*: finalize, confirm and the executor in one specification over one
   database.  Each is shown to keep the table's promises with the others reduced to
   the steps of theirs that it can see; the composition would check that reduction.
2. *Sessions, challenges, spend windows*: only if a caller of these tables enters
   the repository.
