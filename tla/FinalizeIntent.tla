--------------------------- MODULE FinalizeIntent ---------------------------
(***************************************************************************)
(* finalize_intent_json (bins/solfrontier-mcp/src/finalize.rs): turn an    *)
(* approved draft into a watch rule and a funding intent, and answer with  *)
(* funding instructions.                                                   *)
(*                                                                         *)
(* A request is a process.  Its steps are the awaits of the handler: claim *)
(* the draft in the sidecar, read the market, write the rule, index its    *)
(* hash, write the funding row, read it back, answer.  Requests of one or  *)
(* of several servers interleave between any two of them, any store call   *)
(* may fail, and a server may die anywhere and lose its requests.          *)
(***************************************************************************)
EXTENDS FundingIntents, WatchRules, Sidecar, Proposal

CONSTANTS
    Requests,       \* calls of the finalize_intent tool
    Proposals,      \* what callers propose: name -> ProposeIntentParams
    LegacyRules,    \* ids under which a predecessor stored another rule shape
    MaxCrashes      \* bound on server crashes

ASSUME LegacyAssumption == LegacyRules \subseteq Intents
ASSUME MaxCrashesAssumption == MaxCrashes \in Nat

\* The drafts of the proposals, NULL for one that does not validate.
DraftIntents == [p \in DOMAIN Proposals |-> validate_draft(Proposals[p])]

DraftHashes == [p \in DOMAIN Proposals |-> validate_and_hash_draft(Proposals[p])]

ASSUME ProposalsAssumption ==
    \A p \in DOMAIN Proposals : DraftIntents[p] # NULL =>
        derive_rule_id(DraftIntents[p]) \in Intents /\ DraftHashes[p] \in Hashes
ASSUME FinalizeStartAssumption == 0 \in Slots

VARIABLES
    reqs,           \* request -> its local state
    crashes

finalizeVars == <<intents, now, rules, slot, file, conn, consumed, hashIndex,
                  reqs, crashes>>
mainDb == <<intents, rules>>
clocks == <<now, slot>>

Steps == {"pool", "claim", "market", "rule_insert", "rule_read", "index_pool",
          "index", "funding_insert", "funding_read", "respond"}

Answers == {"rejected", "sidecar_unavailable", "already_consumed", "conflict",
            "market_data_error", "existing_rule_conflict", "internal_error",
            "rule_unconfirmed", "existing_intent_conflict", "not_actionable",
            "actionable"}

ASSUME FinalizeNullAssumption == NULL \notin Answers

Request ==
    [pc       : Steps \cup {"idle", "done", "lost"},
     server   : Servers \cup {NULL},
     draft    : Drafts \cup {NULL},
     hash     : Hashes \cup {NULL},
     intent   : Intents \cup {NULL},
     wallet   : Wallets \cup {NULL},
     fresh    : Slots \cup {NULL},   \* snapshot.last_checked_slot
     claimed  : BOOLEAN,
     created  : Slots \cup {NULL},   \* created_at_slot of rule_for_identity
     persisted: BOOLEAN,             \* rule_persisted
     deadline : Nat,                 \* persisted_expires_at_ms
     reused   : BOOLEAN,             \* reused_existing_intent
     row      : Row,                 \* the funding row as read back
     answer   : Answers \cup {NULL}]

Idle == [pc |-> "idle", server |-> NULL, draft |-> NULL, hash |-> NULL, intent |-> NULL,
         wallet |-> NULL, fresh |-> NULL, claimed |-> FALSE, created |-> NULL,
         persisted |-> FALSE, deadline |-> 0, reused |-> FALSE, row |-> NoRow,
         answer |-> NULL]

LegacyRule == [status |-> "active", created |-> 0, canonical |-> FALSE,
               completed |-> FALSE, revoked |-> FALSE]

FinalizeInit ==
    /\ FundingInit
    /\ SidecarInit
    /\ rules = [i \in Intents |-> IF i \in LegacyRules THEN LegacyRule ELSE NoRule]
    /\ slot = 0
    /\ reqs = [r \in Requests |-> Idle]
    /\ crashes = 0

-----------------------------------------------------------------------------
(* Local state *)

At(r, pc) == reqs[r].pc = pc

Goto(r, pc) == reqs' = [reqs EXCEPT ![r].pc = pc]

\* The handler's locals go with it.  What stays is which draft it claimed and
\* what it offered, from which row.
Ended(q, pc, answer) ==
    LET ended == [Idle EXCEPT !.pc = pc, !.answer = answer, !.claimed = q.claimed,
                              !.draft = IF q.claimed THEN q.draft ELSE NULL]
    IN  IF answer = "actionable"
        THEN [ended EXCEPT !.intent = q.intent, !.wallet = q.wallet, !.row = q.row]
        ELSE ended

Answer(r, answer) ==
    reqs' = [reqs EXCEPT ![r] = Ended(reqs[r], "done", answer)]

\* The clock is sampled on the way to the funding write.
GotoFunding(r, persisted) ==
    reqs' = [reqs EXCEPT ![r].pc = "funding_insert",
                         ![r].persisted = persisted,
                         ![r].deadline = now + Lifetime]

-----------------------------------------------------------------------------
(* The handler *)

\* The proposal is sent again in full, with an id and a hash; each may be
\* from another draft.  Nothing has been touched when they do not agree.
Call(r) ==
    /\ At(r, "idle")
    /\ \E v \in Servers, d \in Drafts, w \in Wallets, p, given \in DOMAIN Proposals :
          LET draft == DraftIntents[p]
          IN  reqs' = [reqs EXCEPT ![r] =
                 IF draft = NULL \/ DraftHashes[p] # DraftHashes[given]
                 THEN Ended(Idle, "done", "rejected")
                 ELSE [Idle EXCEPT !.pc = "pool", !.server = v, !.draft = d,
                                   !.hash = DraftHashes[p],
                                   !.intent = derive_rule_id(draft), !.wallet = w]]
    /\ UNCHANGED <<mainDb, clocks, sidecarVars, crashes>>

\* A draft id that propose never gave out, no market source or a malformed
\* wallet: still nothing has been touched.
Reject(r) ==
    /\ At(r, "pool")
    /\ Answer(r, "rejected")
    /\ UNCHANGED <<mainDb, clocks, sidecarVars, crashes>>

\* claim_draft: pool_for_claim, then the transaction on the pool it returned.
Open(r) ==
    /\ At(r, "pool")
    /\ SidecarOpening(reqs[r].server)
    /\ UNCHANGED <<mainDb, clocks, sidecarRows, reqs, crashes>>

TakePool(r) ==
    /\ At(r, "pool")
    /\ conn[reqs[r].server] = "ready"
    /\ Goto(r, "claim")
    /\ UNCHANGED <<mainDb, clocks, sidecarVars, crashes>>

\* The sidecar is closed to this process, or the file cannot be looked for.
NoPool(r) ==
    /\ At(r, "pool")
    /\ conn[reqs[r].server] \in {"unopened", "unavailable"}
    /\ Answer(r, "sidecar_unavailable")
    /\ UNCHANGED <<mainDb, clocks, sidecarVars, crashes>>

Claim(r) ==
    LET q == reqs[r]
        outcome == ClaimOutcome(q.draft, q.hash)
    IN  /\ At(r, "claim")
        /\ claim_draft(q.draft, q.hash)
        /\ reqs' = IF outcome = "claimed"
                   THEN [reqs EXCEPT ![r].pc = "market", ![r].claimed = TRUE]
                   ELSE [reqs EXCEPT ![r] = Ended(q, "done", outcome)]
        /\ UNCHANGED <<mainDb, clocks, crashes>>

ClaimFails(r) ==
    /\ At(r, "claim")
    /\ ClaimError(reqs[r].server, reqs[r].draft, reqs[r].hash)
    /\ Answer(r, "sidecar_unavailable")
    /\ UNCHANGED <<mainDb, clocks, crashes>>

\* The confirmed slot, then the reserve: NULL when a read of either fails.
fetch_confirmed_reserve_observation == {slot, NULL}

\* Whether the rate on display could be read, and is of the pinned reserve.
fetch_save_display_apy_bps == BOOLEAN

\* Without the rate on display there is no snapshot.  Its slot was read first
\* and may have passed by the time the others answer.
fetch_snapshot ==
    {IF displayed THEN observed ELSE NULL :
        observed \in fetch_confirmed_reserve_observation,
        displayed \in fetch_save_display_apy_bps}

\* The rule is built for the slot of the snapshot (module Proposal).
FetchMarket(r) ==
    /\ At(r, "market")
    /\ \E snapshot \in fetch_snapshot :
          IF snapshot = NULL THEN Answer(r, "market_data_error")
          ELSE reqs' = [reqs EXCEPT ![r].pc = "rule_insert", ![r].fresh = snapshot,
                                    ![r].created = snapshot]
    /\ UNCHANGED <<mainDb, clocks, sidecarVars, crashes>>

\* persist_rule_with_legacy_recovery: any failed insert leads to the read back,
\* of a row that exists, of the store, or one that did take effect.
InsertRule(r) ==
    /\ At(r, "rule_insert")
    /\ \/ /\ rule_insert(reqs[r].intent, reqs[r].created)
          /\ reqs' = [reqs EXCEPT ![r].pc = "index_pool", ![r].persisted = TRUE]
       \/ /\ rule_insert(reqs[r].intent, reqs[r].created) \/ UNCHANGED rules
          /\ Goto(r, "rule_read")
    /\ UNCHANGED <<intents, clocks, sidecarVars, crashes>>

ReadRule(r) ==
    LET stored == rules[reqs[r].intent]
    IN  /\ At(r, "rule_read")
        /\ \/ /\ HasRule(reqs[r].intent)
              /\ IF stored.canonical
                 THEN reqs' = [reqs EXCEPT ![r].pc = "index_pool",
                                           ![r].persisted = TRUE,
                                           ![r].created = stored.created]
                 ELSE Answer(r, "existing_rule_conflict")
           \/ GotoFunding(r, FALSE)       \* missing, or the read failed
        /\ UNCHANGED <<mainDb, clocks, sidecarVars, crashes>>

\* index_hash: ready_pool, then the transaction.  Every outcome is only logged.
ReadyPool(r) ==
    /\ At(r, "index_pool")
    /\ \/ conn[reqs[r].server] = "ready" /\ Goto(r, "index")
       \/ conn[reqs[r].server] = "unavailable" /\ GotoFunding(r, TRUE)
    /\ UNCHANGED <<mainDb, clocks, sidecarVars, crashes>>

IndexHash(r) ==
    LET q == reqs[r]
    IN  /\ At(r, "index")
        /\ \/ index_hash(q.server, q.draft, q.hash, q.intent, q.created)
           \/ IndexError(q.server, q.draft, q.hash, q.intent, q.created)
        /\ GotoFunding(r, TRUE)
        /\ UNCHANGED <<mainDb, clocks, crashes>>

\* persist_funding_with_legacy_recovery: again a failed insert may have taken
\* effect, and the row that is read back then counts as an existing one.
InsertFunding(r) ==
    LET q == reqs[r]
        Inserted == insert(q.intent, q.wallet, q.created, q.deadline)
        Read(reused) == reqs' = [reqs EXCEPT ![r].pc = "funding_read",
                                             ![r].deadline = 0,
                                             ![r].reused = reused]
    IN  /\ At(r, "funding_insert")
        /\ \/ Inserted /\ Read(FALSE)
           \/ (Inserted \/ UNCHANGED intents) /\ Read(TRUE)
        /\ UNCHANGED <<rules, clocks, sidecarVars, crashes>>

ReadFunding(r) ==
    LET stored == intents[reqs[r].intent]
    IN  /\ At(r, "funding_read")
        /\ \/ /\ stored.status # "absent"
              /\ reqs' = [reqs EXCEPT ![r].pc = "respond", ![r].row = stored]
           \/ Answer(r, "internal_error")   \* missing, or the read failed
        /\ UNCHANGED <<mainDb, clocks, sidecarVars, crashes>>

\* Mutant: the wallet of a reused row is not compared.
FinalAnswer_any_wallet(q, t) ==
    IF ~q.persisted THEN "rule_unconfirmed"
    ELSE IF q.row.hash # q.created THEN "existing_intent_conflict"
    ELSE IF q.row.status # "funding_required" \/ q.row.expires <= t
    THEN "not_actionable" ELSE "actionable"

\* Mutant: the deadline itself still counts as in time.
FinalAnswer_late(q, t) ==
    IF ~q.persisted THEN "rule_unconfirmed"
    ELSE IF q.row.hash # q.created \/ (q.reused /\ q.row.wallet # q.wallet)
    THEN "existing_intent_conflict"
    ELSE IF q.row.status # "funding_required" \/ q.row.expires < t
    THEN "not_actionable" ELSE "actionable"

\* Mutant: an answer of its own for an expired row.
FinalAnswer_expired(q, t) ==
    IF ~q.persisted THEN "rule_unconfirmed"
    ELSE IF q.row.expires <= t THEN "expired" ELSE "actionable"

\* Funding a rule that nobody could confirm would strand the money.
unconfirmed_rule_guard(q) == ~q.persisted

\* The id fixes threshold and amount; the hash adds the slot of the rule.
funding_row_matches_identity(q) == q.row.hash = q.created

\* The guards on the row that was read, in the order of the code.
FinalAnswer(q, t) ==
    IF unconfirmed_rule_guard(q) THEN "rule_unconfirmed"
    ELSE IF \/ ~funding_row_matches_identity(q)
            \/ q.reused /\ q.row.wallet # q.wallet
    THEN "existing_intent_conflict"
    ELSE IF q.row.status # "funding_required" \/ q.row.expires <= t
    THEN "not_actionable" ELSE "actionable"

Respond(r) ==
    /\ At(r, "respond")
    /\ Answer(r, FinalAnswer(reqs[r], now))
    /\ UNCHANGED <<mainDb, clocks, sidecarVars, crashes>>

HandlerStep(r) ==
    \/ Reject(r) \/ Open(r) \/ TakePool(r) \/ NoPool(r) \/ Claim(r) \/ ClaimFails(r)
    \/ FetchMarket(r) \/ InsertRule(r) \/ ReadRule(r) \/ ReadyPool(r) \/ IndexHash(r)
    \/ InsertFunding(r) \/ ReadFunding(r) \/ Respond(r)

\* A server dies with the requests it was serving and is started again.
Crash(v) ==
    /\ crashes < MaxCrashes
    /\ crashes' = crashes + 1
    /\ SidecarCrash(v)
    /\ reqs' = [r \in Requests |->
          IF reqs[r].server = v /\ reqs[r].pc \in Steps
          THEN Ended(reqs[r], "lost", NULL) ELSE reqs[r]]
    /\ UNCHANGED <<mainDb, clocks, sidecarRows>>

-----------------------------------------------------------------------------
(* The rest of the system, as far as finalize can see it. *)

ClockTicks ==
    /\ Tick
    /\ UNCHANGED <<rules, slot, sidecarVars, reqs, crashes>>

SlotPasses ==
    /\ NextSlot
    /\ UNCHANGED <<mainDb, now, sidecarVars, reqs, crashes>>

\* Someone confirms a funding transaction for an intent.
IntentAdvances(i) ==
    /\ \E sig \in Sigs : mark_funding_submitted_if_required(i, sig)
    /\ UNCHANGED <<rules, clocks, sidecarVars, reqs, crashes>>

\* A status query by hash may be what opens the sidecar, or closes it.
StatusLookup(v) ==
    /\ open_existing(v) \/ LookupFails(v)
    /\ UNCHANGED <<mainDb, clocks, sidecarRows, reqs, crashes>>

FinalizeNext ==
    \/ ClockTicks
    \/ SlotPasses
    \/ \E i \in Intents : IntentAdvances(i)
    \/ \E v \in Servers : Crash(v) \/ StatusLookup(v)
    \/ \E r \in Requests : Call(r) \/ HandlerStep(r)

FinalizeSpec == FinalizeInit /\ [][FinalizeNext]_finalizeVars

-----------------------------------------------------------------------------
(* Properties *)

FinalizeTypeOK ==
    /\ FundingTypeOK
    /\ SidecarTypeOK
    /\ rules \in [Intents -> RuleRow]
    /\ slot \in Slots
    /\ reqs \in [Requests -> Request]
    /\ crashes \in 0 .. MaxCrashes

\* A draft is finalized once: no two calls get past its claim, on whichever
\* servers, and whatever crashed or was restarted between them.
DraftConsumedOnce ==
    \A r1, r2 \in Requests :
        reqs[r1].claimed /\ reqs[r2].claimed /\ r1 # r2
            => reqs[r1].draft # reqs[r2].draft

Offered(r) == reqs[r].answer = "actionable"

\* Funding instructions are only ever issued for money the system can account
\* for: the caller's own wallet, a stored rule of the approved shape, a funding
\* row committed to that very rule, and the deadline of that row.  In
\* particular racing calls for the same amount and threshold never hand out
\* two wallets or two deadlines.
OfferIsBacked ==
    \A r \in Requests : Offered(r) =>
        LET q == reqs[r]
        IN  /\ rules[q.intent].status # "absent"
            /\ rules[q.intent].canonical
            /\ intents[q.intent].wallet = q.wallet
            /\ intents[q.intent].hash = rules[q.intent].created
            /\ intents[q.intent].expires = q.row.expires

\* A deadline that has passed is never handed out, and neither is an intent
\* whose funding was already recorded when the row was read, although the row
\* is read before the clock and other calls run in between.
OfferIsTimely ==
    [][\A r \in Requests : ~Offered(r) /\ Offered(r)' =>
          /\ now < intents[reqs[r].intent].expires
          /\ reqs[r].row.fsig = NULL]_finalizeVars

\* "An expired or already-advanced existing intent is also non-actionable;
\* finalize never manufactures a fresh deadline for it" (README): when funding
\* instructions go out, the rule that would spend the money had not already
\* expired at the slot that the same call had read.
OfferIsExecutable ==
    [][\A r \in Requests : ~Offered(r) /\ Offered(r)' =>
          NotYetExpired(reqs[r].intent, reqs[r].fresh)]_finalizeVars

=============================================================================
