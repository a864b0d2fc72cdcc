--------------------------- MODULE ConfirmFunding ---------------------------
(***************************************************************************)
(* confirm_funding_json (bins/solfrontier-mcp/src/funding.rs): check a     *)
(* funding transaction the user has signed and sent, and move its intent   *)
(* from funding_required over funding_submitted to budget_reserved.        *)
(*                                                                         *)
(* A call is a process whose steps are the awaits of the handler.  Calls   *)
(* race each other and the watcher; a store or RPC call may fail and a     *)
(* server may die between the two UPDATEs.  The chain confirms, finalizes  *)
(* and, as long as a transaction is not final, may drop it again and       *)
(* include it in another slot.                                             *)
(***************************************************************************)
EXTENDS FundingIntents, WatchRules, FundingProof

CONSTANTS
    Calls,          \* clients of the confirm_funding tool
    Payments,       \* transactions users may send: name -> what getTransaction
                    \* shows of it, but for slot and success
    MaxFaults,      \* bound on failed store and RPC calls and crashes
    MaxRollbacks    \* bound on transactions dropped after confirmation

ASSUME MaxFaultsAssumption == MaxFaults \in Nat
ASSUME MaxRollbacksAssumption == MaxRollbacks \in Nat
ASSUME ConfirmStartAssumption == 0 \in Slots /\ Wallets # {}

\* Balances are amounts.
ASSUME PaymentsAssumption ==
    \A pay \in DOMAIN Payments : \A balances \in {Payments[pay].pre, Payments[pay].post} :
        \A b \in DOMAIN balances : b \in Nat /\ balances[b].amount \in Nat

VARIABLES
    txs,        \* the chain: signature -> funding transaction
    landed,     \* signature -> slots it was ever confirmed in, successfully
    calls,      \* client -> the state of its current call
    faults,
    rollbacks

confirmVars == <<intents, now, rules, slot, txs, landed, calls, faults, rollbacks>>
chainVars == <<slot, txs, landed, rollbacks>>

-----------------------------------------------------------------------------
(* The chain, external.  A funding transaction is one the signing page      *)
(* built, with one memo that names one intent, or one like it that was      *)
(* built by hand, with memos for several intents or of another amount.      *)

Tx == [status : {"sent", "confirmed", "finalized"},
       pay    : DOMAIN Payments,
       ok     : BOOLEAN,
       slot   : Slots \cup {NULL}]

\* Sent, or about to be: nobody can tell before it lands.
Sent(pay) == [status |-> "sent", pay |-> pay, ok |-> FALSE, slot |-> NULL]

Land(s) ==
    /\ txs[s].status = "sent"
    /\ \E ok \in BOOLEAN :
          /\ txs' = [txs EXCEPT ![s].status = "confirmed", ![s].ok = ok,
                                ![s].slot = slot]
          /\ landed' = IF ok THEN [landed EXCEPT ![s] = @ \cup {slot}]
                             ELSE landed
    /\ UNCHANGED <<slot, rollbacks>>

Finalize(s) ==
    /\ txs[s].status = "confirmed"
    /\ txs' = [txs EXCEPT ![s].status = "finalized"]
    /\ UNCHANGED <<slot, landed, rollbacks>>

RollBack(s) ==
    /\ txs[s].status = "confirmed"
    /\ rollbacks < MaxRollbacks
    /\ rollbacks' = rollbacks + 1
    /\ txs' = [txs EXCEPT ![s] = Sent(@.pay)]
    /\ UNCHANGED <<slot, landed>>

SlotPasses == NextSlot /\ UNCHANGED <<txs, landed, rollbacks>>

ChainStep ==
    /\ SlotPasses \/ \E s \in Sigs : Land(s) \/ Finalize(s) \/ RollBack(s)
    /\ UNCHANGED <<intents, now, rules, calls, faults>>

-----------------------------------------------------------------------------
(* Calls *)

Steps == {"load", "status", "read", "submit", "reserve", "race", "reread"}

Answers == {"not_found", "rule_unavailable", "intent_integrity_error",
            "signature_conflict", "state_conflict", "pending_confirmation",
            "verification_failed", "error", "funding_submitted", "budget_reserved"}

ASSUME AnswersAssumption == NULL \notin Answers

Retryable == {"pending_confirmation", "error", "funding_submitted"}

Call == [pc     : Steps \cup {"idle", "done"},
         intent : Intents \cup {NULL},
         sig    : Sigs \cup {NULL},
         row    : Row,                      \* the intent as first read
         slot   : Slots \cup {NULL},        \* slot of the observation
         answer : Answers \cup {NULL}]

NoCall == [pc |-> "idle", intent |-> NULL, sig |-> NULL, row |-> NoRow,
           slot |-> NULL, answer |-> NULL]

FundingRow == [NoRow EXCEPT !.status = "funding_required", !.hash = 0,
                            !.wallet = CHOOSE w \in Wallets : TRUE,
                            !.expires = Lifetime]

RuleOf(t) == [NoRule EXCEPT !.status = "active", !.created = t]

\* finalize has run, or not.  It may have left the funding row without a rule
\* or, after a lost rule write, next to the rule of a later call.
ConfirmInit ==
    /\ now = 0
    /\ slot = 0
    /\ \E left \in [Intents -> {<<NoRow, NoRule>>, <<FundingRow, NoRule>>}
                  \cup {<<FundingRow, RuleOf(t)>> : t \in Slots}] :
          /\ intents = [i \in Intents |-> left[i][1]]
          /\ rules = [i \in Intents |-> left[i][2]]
    /\ \E pays \in [Sigs -> DOMAIN Payments] :
          txs = [s \in Sigs |-> Sent(pays[s])]
    /\ landed = [s \in Sigs |-> {}]
    /\ calls = [c \in Calls |-> NoCall]
    /\ faults = 0
    /\ rollbacks = 0

At(c, pc) == calls[c].pc = pc

Goto(c, pc) == calls' = [calls EXCEPT ![c].pc = pc]

\* An answer keeps what it said: the intent, the signature and the slot.
AnswerWith(c, answer, s) ==
    calls' = [calls EXCEPT ![c] =
        [pc |-> "done", intent |-> calls[c].intent, sig |-> calls[c].sig,
         row |-> NoRow, slot |-> s, answer |-> answer]]

Answer(c, answer) == AnswerWith(c, answer, NULL)

Begin(c) ==
    /\ At(c, "idle")
    /\ \E i \in Intents, s \in Sigs :
          calls' = [calls EXCEPT ![c].pc = "load", ![c].intent = i, ![c].sig = s]
    /\ UNCHANGED <<intents, now, rules, chainVars, faults>>

\* A client whose call did not settle the matter calls again with the same
\* signature.
Retry(c) ==
    /\ At(c, "done")
    /\ calls[c].answer \in Retryable
    /\ calls' = [calls EXCEPT ![c].pc = "load", ![c].answer = NULL]
    /\ UNCHANGED <<intents, now, rules, chainVars, faults>>

-----------------------------------------------------------------------------
(* The handler *)

RuleMatches(i) == rules[i].created = intents[i].hash

\* Mutant: the loaded status is passed through as the answer.
Gate_status_as_answer(i, sig) ==
    LET row == intents[i]
    IN  IF row.status = "funding_required" THEN NULL ELSE row.status

\* The answers given on the loaded rows alone; NULL lets the call go on.
Gate(i, sig) ==
    LET row == intents[i]
    IN  CASE row.status = "absent" -> "not_found"
          [] row.status # "absent" /\ ~HasRule(i) -> "rule_unavailable"
          [] row.status # "absent" /\ HasRule(i) /\ ~RuleMatches(i)
                -> "intent_integrity_error"
          [] OTHER ->
                IF row.status = "funding_required" THEN NULL
                ELSE IF row.status \in {"funding_submitted", "budget_reserved"}
                     THEN IF row.fsig = sig THEN NULL ELSE "signature_conflict"
                     ELSE "state_conflict"

Load(c) ==
    LET q == calls[c]
        refusal == Gate(q.intent, q.sig)
    IN  /\ At(c, "load")
        /\ IF refusal = NULL
           THEN calls' = [calls EXCEPT ![c].pc = "status",
                                       ![c].row = intents[q.intent]]
           ELSE Answer(c, refusal)
        /\ UNCHANGED <<intents, now, rules, chainVars, faults>>

\* The answer of getTransaction for a transaction that landed.
Answered(pay, ok, t) ==
    [slot |-> t, ok |-> ok, keys |-> Payments[pay].keys,
     instructions |-> Payments[pay].instructions, pre |-> Payments[pay].pre,
     post |-> Payments[pay].post]

\* The funding row as the verifier reads it, with the token accounts that
\* finalize wrote into it.
Stored(i, hash, wallet) ==
    [id |-> i, hash |-> hash, wallet |-> wallet, amount |-> Amount,
     user_ata       |-> get_associated_token_address(wallet),
     controlled_ata |-> get_associated_token_address(Controlled)]

\* The payments that can be decoded and prove themselves, by the row.
Proofs ==
    [i \in Intents |-> [hash \in Slots |-> [wallet \in Wallets |->
        {pay \in DOMAIN Payments :
            LET observed == parse_json_parsed_transaction(Answered(pay, TRUE, 0))
            IN  /\ observed # NULL
                /\ verify_funding_transaction(observed, Stored(i, hash, wallet)) = NULL}]]]

\* The payments of which the answer of getTransaction can be read at all.
Decodable ==
    {pay \in DOMAIN Payments :
        parse_json_parsed_transaction(Answered(pay, TRUE, 0)) # NULL}

\* Mutant: the memo's intent id is not compared.
Verified_any_memo(s, i) ==
    \E j \in Intents : txs[s].ok /\ txs[s].pay \in Proofs[j][intents[i].hash][intents[i].wallet]

\* Neither the slot nor the commitment plays a part.
Verified(s, i) ==
    /\ txs[s].ok
    /\ txs[s].pay \in Proofs[i][intents[i].hash][intents[i].wallet]

\* read_funding_transaction first asks for the status.  Processed is not enough.
ReadStatus(c) ==
    /\ At(c, "status")
    /\ IF txs[calls[c].sig].status \in {"confirmed", "finalized"}
       THEN Goto(c, "read") ELSE Answer(c, "pending_confirmation")
    /\ UNCHANGED <<intents, now, rules, chainVars, faults>>

\* Then it asks for the transaction, at commitment "confirmed".  It may be
\* gone by now, or be in another slot.  A row that was already reserved when
\* loaded is verified again and compared.
ReadTransaction(c) ==
    LET q == calls[c]
        tx == txs[q.sig]
    IN  /\ At(c, "read")
        /\ IF tx.status \notin {"confirmed", "finalized"}
           THEN Answer(c, "pending_confirmation")
           ELSE IF tx.pay \notin Decodable
           THEN Answer(c, "error")
           ELSE IF ~Verified(q.sig, q.intent)
           THEN Answer(c, "verification_failed")
           ELSE IF q.row.status # "budget_reserved"
           THEN calls' = [calls EXCEPT ![c].pc = "submit", ![c].row = NoRow,
                                       ![c].slot = tx.slot]
           ELSE IF q.row.fslot # tx.slot
           THEN Answer(c, "intent_integrity_error")
           ELSE AnswerWith(c, "budget_reserved", q.row.fslot)
        /\ UNCHANGED <<intents, now, rules, chainVars, faults>>

Submit(c) ==
    LET q == calls[c]
    IN  /\ At(c, "submit")
        /\ \/ /\ mark_funding_submitted_if_required(q.intent, q.sig)
              /\ Goto(c, "reserve")
           \/ /\ ~CanSubmitFunding(q.intent, q.sig)
              /\ Goto(c, "race")
              /\ UNCHANGED intents
        /\ UNCHANGED <<now, rules, chainVars, faults>>

Reserve(c) ==
    LET q == calls[c]
    IN  /\ At(c, "reserve")
        /\ \/ /\ mark_budget_reserved_if_submitted(q.intent, q.sig, q.slot)
              /\ Goto(c, "reread")
           \/ /\ ~SubmittedWith(q.intent, q.sig)
              /\ Goto(c, "race")
              /\ UNCHANGED intents
        /\ UNCHANGED <<now, rules, chainVars, faults>>

Reread(c) ==
    /\ At(c, "reread")
    /\ AnswerWith(c, "budget_reserved", calls[c].slot)
    /\ UNCHANGED <<intents, now, rules, chainVars, faults>>

\* Mutant: the winner's signature is not compared with this call's.
resolve_transition_race_any_winner(c) ==
    LET q == calls[c]
        current == intents[q.intent]
    IN  /\ At(c, "race")
        /\ IF current.status = "budget_reserved"
           THEN AnswerWith(c, "budget_reserved", current.fslot)
           ELSE Answer(c, "state_conflict")
        /\ UNCHANGED <<intents, now, rules, chainVars, faults>>

resolve_transition_race(c) ==
    LET q == calls[c]
        current == intents[q.intent]
    IN  /\ At(c, "race")
        /\ IF current.status = "budget_reserved" /\ current.fsig = q.sig
           THEN AnswerWith(c, "budget_reserved", current.fslot)
           ELSE IF SubmittedWith(q.intent, q.sig)
           THEN Answer(c, "funding_submitted")
           ELSE Answer(c, "state_conflict")
        /\ UNCHANGED <<intents, now, rules, chainVars, faults>>

HandlerStep(c) ==
    \/ Load(c) \/ ReadStatus(c) \/ ReadTransaction(c) \/ Submit(c) \/ Reserve(c) \/ Reread(c)
    \/ resolve_transition_race(c)

\* A store call or the RPC fails, or the server dies under the call.
Fault(c) ==
    /\ calls[c].pc \in Steps
    /\ faults < MaxFaults
    /\ faults' = faults + 1
    /\ Answer(c, "error")
    /\ UNCHANGED <<intents, now, rules, chainVars>>

\* The watcher leases a reserved intent, and gives it back or ends it.
Watcher(i) ==
    /\ \/ lease_execution_if_budget_reserved(i, now)
       \/ release_execution_lease_to_budget_reserved(i)
       \/ IsExecuting(i) /\ mark_failed(i)
    /\ UNCHANGED <<now, rules, chainVars, calls, faults>>

ConfirmNext ==
    \/ ChainStep
    \/ \E i \in Intents : Watcher(i)
    \/ \E c \in Calls : Begin(c) \/ Retry(c) \/ HandlerStep(c) \/ Fault(c)

ConfirmSpec == ConfirmInit /\ [][ConfirmNext]_confirmVars

\* A running call takes its steps, and a client that was told to retry does.
FairConfirmSpec ==
    /\ ConfirmSpec
    /\ \A c \in Calls : WF_confirmVars(HandlerStep(c)) /\ WF_confirmVars(Retry(c))

-----------------------------------------------------------------------------
(* Properties *)

ConfirmTypeOK ==
    /\ FundingTypeOK
    /\ rules \in [Intents -> RuleRow]
    /\ slot \in Slots
    /\ txs \in [Sigs -> Tx]
    /\ landed \in [Sigs -> SUBSET Slots]
    /\ calls \in [Calls -> Call]
    /\ faults \in 0 .. MaxFaults
    /\ rollbacks \in 0 .. MaxRollbacks

\* By how much a payment changed a token account, whichever instructions did it.
Change(pay, account) ==
    LET answer == Payments[pay]
        Held(balances) ==
            AmountOf(find_balance(parse_token_balances(answer, balances), account))
    IN  Held(answer.post) - Held(answer.pre)

\* A reserved budget was paid: the recorded signature is of a transaction
\* that names this intent by its rule, that took exactly the amount from the
\* user and gave it to the controlled wallet, and that did land in the
\* recorded slot; calls that race with different signatures or observations
\* never mix them.  A transaction that names two intents does so for both: the
\* check asks that the memo is among the memos, and the table has no unique
\* index on the signature.
ReservedIsPaid ==
    \A i \in Intents : intents[i].status \in Funded =>
        LET s   == intents[i].fsig
            pay == txs[s].pay
            row == Stored(i, intents[i].hash, intents[i].wallet)
        IN  /\ <<i, row.hash>> \in parse_outer_instructions(Payments[pay]).memos
            /\ Change(pay, row.controlled_ata) = Amount
            /\ Change(pay, row.user_ata) = -Amount
            /\ intents[i].fslot \in landed[s]
            /\ RuleMatches(i)

\* A call that answers budget_reserved tells the truth for good: its signature
\* and its slot are the recorded ones, whichever call won the race.
SuccessIsRecorded ==
    \A c \in Calls : calls[c].answer = "budget_reserved" =>
        /\ intents[calls[c].intent].fsig = calls[c].sig
        /\ intents[calls[c].intent].fslot = calls[c].slot

\* The retry answer of resolve_transition_race is never given: a lost race
\* means the row has moved past funding_submitted or is bound elsewhere.
RaceIsDecided == \A c \in Calls : calls[c].answer # "funding_submitted"

Insisting(c, i, s) ==
    /\ calls[c].intent = i
    /\ calls[c].sig = s
    /\ calls[c].pc \in Steps \/ calls[c].answer \in Retryable

\* A client that keeps retrying a final, exact payment gets it reserved, even
\* if the server died between the two UPDATEs, unless another signature took
\* the intent first.
FinalPaymentIsReserved ==
    \A c \in Calls, i \in Intents, s \in Sigs :
        /\ Insisting(c, i, s)
        /\ intents[i].status # "absent"
        /\ txs[s].status = "finalized" /\ Verified(s, i)
        /\ HasRule(i) /\ RuleMatches(i)
        ~> \/ intents[i].status \in Funded \cup is_terminal
           \/ intents[i].fsig \notin {NULL, s}

\* "funding_submitted -> budget_reserved (tx finalized + 250 000 delta)"
\* (migration 0012): a reserved budget rests on a final transaction.
ReservedIsFinal ==
    \A i \in Intents : intents[i].status = "budget_reserved" =>
        txs[intents[i].fsig].status = "finalized"

=============================================================================
