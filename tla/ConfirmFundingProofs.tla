------------------------ MODULE ConfirmFundingProofs ------------------------
(***************************************************************************)
(* confirm_funding reserves only what was paid, and what it answers is     *)
(* what the table says, for every number of clients, intents, signatures   *)
(* and slots, and whatever the transactions are.                           *)
(*                                                                         *)
(* The invariant has three parts: what is known of a row (RowOK), of a     *)
(* transaction on the chain (TxOK) and of a call at each of its awaits     *)
(* (CallOK).  Rules do not change, the payment behind a signature does     *)
(* not change, landed only grows and a row only moves forward (RowMoves),  *)
(* so what a call knows stays true while others take steps.                *)
(*                                                                         *)
(* Last, confirm_funding as a caller of the funding table.                 *)
(***************************************************************************)
EXTENDS ConfirmFunding, FundingIntentsProofs, WellFoundedInduction, TLAPS

\* The statuses a row can have here once its budget is reserved.
Past == {"budget_reserved", "executing", "failed"}

\* The payment behind a signature proves itself against a row.
Proven(pay, i, row) == pay \in Proofs[i][row.hash][row.wallet]

RowOK(i, row, rs, pays, lan) ==
    /\ row.status \in {"absent", "funding_required", "funding_submitted"} \cup Past
    /\ row.status # "absent" => row.hash \in Slots /\ row.wallet \in Wallets
    /\ row.status = "funding_submitted" => row.fsig # NULL
    /\ row.status \in Past =>
          /\ row.fsig \in Sigs
          /\ Proven(pays[row.fsig].pay, i, row)
          /\ row.fslot \in lan[row.fsig]
          /\ rs[i].created = row.hash

\* A transaction that is confirmed and went well has landed in its slot.
TxOK(tx, slots) == tx.status \in {"confirmed", "finalized"} /\ tx.ok => tx.slot \in slots

\* What a call has established of its payment.
Established(q, row, rs, pay, slots) ==
    /\ row.status # "absent"
    /\ Proven(pay, q.intent, row)
    /\ q.slot \in slots
    /\ rs[q.intent].created = row.hash

Recorded(q, row) == row.status \in Past /\ row.fsig = q.sig /\ row.fslot = q.slot

AnswerOK(q, row) ==
    /\ q.pc = "done" => q.answer # "funding_submitted"
    /\ q.pc # "done" => q.answer = NULL
    /\ q.answer = "budget_reserved" => Recorded(q, row)

ReadOK(q, row, rs) ==
    q.pc \in {"status", "read"} =>
        /\ row.status # "absent" /\ rs[q.intent].created = row.hash
        /\ q.row.status = "budget_reserved" =>
              row.status \in Past /\ row.fsig = q.sig /\ row.fslot = q.row.fslot

WriteOK(q, row) ==
    /\ q.pc = "reserve" => row.fsig = q.sig /\ row.status # "funding_required"
    /\ q.pc = "reread" => Recorded(q, row)
    /\ q.pc = "race" =>
          /\ row.status \notin {"absent", "funding_required"}
          /\ row.status = "funding_submitted" => row.fsig # q.sig

CallOK(q, rows, rs, pays, lan) ==
    q.pc # "idle" =>
        /\ q.intent \in Intents /\ q.sig \in Sigs
        /\ AnswerOK(q, rows[q.intent])
        /\ ReadOK(q, rows[q.intent], rs)
        /\ q.pc \in {"submit", "reserve", "reread", "race"} =>
              Established(q, rows[q.intent], rs, pays[q.sig].pay, lan[q.sig])
        /\ WriteOK(q, rows[q.intent])

EachOK ==
    /\ \A i \in Intents : RowOK(i, intents[i], rules, txs, landed)
    /\ \A s \in Sigs : TxOK(txs[s], landed[s])
    /\ \A c \in Calls : CallOK(calls[c], intents, rules, txs, landed)
    /\ \A c \in Calls : calls[c].pc = "idle" => calls[c].answer = NULL

ConfirmInv == ConfirmTypeOK /\ EachOK

-----------------------------------------------------------------------------
(* What a proof is worth. *)

\* Some of a set of indices comes first.
LEMMA FirstIndex ==
    ASSUME NEW some, some \subseteq Nat, some # {}
    PROVE  \E k \in some : \A j \in some : k <= j
<1>1. PICK k \in some : \A j \in some : <<j, k>> \notin OpToRel(<, Nat)
    BY NatLessThanWellFounded, WFMin
<1>2. ASSUME NEW j \in some PROVE ~(j < k)
    BY <1>1, Zenon DEF OpToRel
<1>3. ASSUME NEW j \in some PROVE k <= j
    BY <1>2
<1> QED  BY <1>3

LEMMA FirstIsOne ==
    ASSUME NEW seq, NEW some, some \subseteq Nat, some # {}
    PROVE  \E k \in some : First(seq, some) = seq[k]
BY FirstIndex DEF First

\* No error means that no check failed.
LEMMA NoError ==
    ASSUME NEW checks, DOMAIN checks \subseteq Nat, FirstError(checks) = NULL
    PROVE  \A k \in DOMAIN checks : checks[k] = NULL
<1> SUFFICES ASSUME NEW k \in DOMAIN checks, checks[k] # NULL PROVE FALSE
    OBVIOUS
<1> DEFINE errors == {j \in DOMAIN checks : checks[j] # NULL}
<1>1. PICK j \in errors : First(checks, errors) = checks[j]
    BY FirstIsOne
<1> QED  BY <1>1 DEF FirstError

\* The same for the thirteen checks of a payment.
LEMMA NoErrorOfAll ==
    ASSUME NEW c1, NEW c2, NEW c3, NEW c4, NEW c5, NEW c6, NEW c7, NEW c8, NEW c9,
           NEW c10, NEW c11, NEW c12, NEW c13,
           FirstError(<<c1, c2, c3, c4, c5, c6, c7, c8, c9, c10, c11, c12, c13>>) = NULL
    PROVE  c2 = NULL /\ c9 = NULL /\ c13 = NULL
<1> DEFINE checks == <<c1, c2, c3, c4, c5, c6, c7, c8, c9, c10, c11, c12, c13>>
<1>1. DOMAIN checks = 1 .. 13 /\ checks[2] = c2 /\ checks[9] = c9 /\ checks[13] = c13
    OBVIOUS
<1>2. FirstError(checks) = NULL
    OBVIOUS
<1> HIDE DEF checks
<1>3. \A k \in 1 .. 13 : checks[k] = NULL
    BY <1>1, <1>2, NoError
<1> QED  BY <1>1, <1>3

\* The amount of an account among balances is an integer.
LEMMA AmountIsInt ==
    ASSUME NEW balances, NEW account,
           \A b \in DOMAIN balances : b \in Nat /\ balances[b].amount \in Nat
    PROVE  AmountOf(find_balance(balances, account)) \in Int
<1> DEFINE found == {b \in DOMAIN balances : balances[b].account = account}
<1>1. CASE found = {}
    BY <1>1 DEF AmountOf, find_balance, First
<1>2. CASE found # {}
    <2>1. PICK b \in found : First(balances, found) = balances[b]
        BY <1>2, FirstIsOne
    <2> QED  BY <2>1 DEF AmountOf, find_balance
<1> QED  BY <1>1, <1>2

LEMMA ParsedAmounts ==
    ASSUME NEW answer, NEW balances
    PROVE  LET parsed == parse_token_balances(answer, balances)
           IN  /\ DOMAIN parsed = DOMAIN balances
               /\ \A b \in DOMAIN balances : parsed[b].amount = balances[b].amount
<1> DEFINE entry(b) == [account  |-> answer.keys[balances[b].index].key,
                        mint     |-> balances[b].mint,
                        owner    |-> balances[b].owner,
                        amount   |-> balances[b].amount,
                        decimals |-> balances[b].decimals]
<1>1. parse_token_balances(answer, balances) = [b \in DOMAIN balances |-> entry(b)]
    BY DEF parse_token_balances
<1>2. \A b : entry(b).amount = balances[b].amount
    OBVIOUS
<1> HIDE DEF entry
<1> QED  BY <1>1, <1>2

\* What a payment that proves itself against a row has done.
LEMMA ProvenPays ==
    ASSUME NEW i \in Intents, NEW row, row.hash \in Slots, row.wallet \in Wallets,
           NEW pay, Proven(pay, i, row)
    PROVE  LET stored == Stored(i, row.hash, row.wallet)
           IN  /\ pay \in DOMAIN Payments
               /\ <<i, row.hash>> \in parse_outer_instructions(Payments[pay]).memos
               /\ Change(pay, stored.controlled_ata) = Amount
               /\ Change(pay, stored.user_ata) = -Amount
<1> DEFINE stored == Stored(i, row.hash, row.wallet)
           answer == Payments[pay]
           tx == parse_json_parsed_transaction(Answered(pay, TRUE, 0))
<1>1. /\ pay \in DOMAIN Payments /\ tx # NULL
      /\ verify_funding_transaction(tx, stored) = NULL
    BY DEF Proven, Proofs
<1>2. /\ tx.memos = parse_outer_instructions(Answered(pay, TRUE, 0)).memos
      /\ tx.pre = parse_token_balances(Answered(pay, TRUE, 0), Answered(pay, TRUE, 0).pre)
      /\ tx.post = parse_token_balances(Answered(pay, TRUE, 0), Answered(pay, TRUE, 0).post)
    BY <1>1 DEF parse_json_parsed_transaction
<1>3. /\ tx.memos = parse_outer_instructions(answer).memos
      /\ tx.pre = parse_token_balances(answer, answer.pre)
      /\ tx.post = parse_token_balances(answer, answer.post)
    BY <1>2 DEF Answered, parse_outer_instructions, parse_token_balances
<1> DEFINE pre(account) == AmountOf(find_balance(tx.pre, account))
           post(account) == AmountOf(find_balance(tx.post, account))
<1> HIDE DEF tx, stored
<1>4. /\ Unless(<<stored.id, stored.hash>> \in tx.memos, "memo_mismatch") = NULL
      /\ Unless(pre(stored.user_ata) - post(stored.user_ata) = stored.amount,
                "source_delta_mismatch") = NULL
      /\ Unless(post(stored.controlled_ata) - pre(stored.controlled_ata) = stored.amount,
                "receiving_delta_mismatch") = NULL
    BY <1>1, NoErrorOfAll DEF verify_funding_transaction
<1>5. /\ <<stored.id, stored.hash>> \in tx.memos
      /\ pre(stored.user_ata) - post(stored.user_ata) = stored.amount
      /\ post(stored.controlled_ata) - pre(stored.controlled_ata) = stored.amount
    BY <1>4, CodesAssumption DEF Unless
<1>6. stored.id = i /\ stored.hash = row.hash /\ stored.amount = Amount
    BY DEF stored, Stored
<1>7. ASSUME NEW account
      PROVE  /\ pre(account) \in Int /\ post(account) \in Int
             /\ Change(pay, account) = post(account) - pre(account)
    <2>0. \A balances \in {answer.pre, answer.post} : \A b \in DOMAIN balances :
             b \in Nat /\ balances[b].amount \in Nat
        BY <1>1, PaymentsAssumption
    <2>1. \A b \in DOMAIN answer.pre : b \in Nat /\ answer.pre[b].amount \in Nat
        BY <2>0
    <2>2. \A b \in DOMAIN answer.post : b \in Nat /\ answer.post[b].amount \in Nat
        BY <2>0
    <2>3. /\ DOMAIN tx.pre = DOMAIN answer.pre
          /\ \A b \in DOMAIN answer.pre : tx.pre[b].amount = answer.pre[b].amount
        BY <1>3, ParsedAmounts
    <2>4. /\ DOMAIN tx.post = DOMAIN answer.post
          /\ \A b \in DOMAIN answer.post : tx.post[b].amount = answer.post[b].amount
        BY <1>3, ParsedAmounts
    <2>5. \A b \in DOMAIN tx.pre : b \in Nat /\ tx.pre[b].amount \in Nat
        BY <2>1, <2>3
    <2>6. \A b \in DOMAIN tx.post : b \in Nat /\ tx.post[b].amount \in Nat
        BY <2>2, <2>4
    <2>7. pre(account) \in Int /\ post(account) \in Int
        BY <2>5, <2>6, AmountIsInt
    <2>8. Change(pay, account) = post(account) - pre(account)
        BY <1>3 DEF Change
    <2> QED  BY <2>7, <2>8
<1> HIDE DEF pre, post
<1>8. Change(pay, stored.controlled_ata) = Amount
    BY <1>5, <1>6, <1>7
<1>9. Change(pay, stored.user_ata) = -Amount
    BY <1>5, <1>6, <1>7, AmountAssumption
<1>10. <<i, row.hash>> \in parse_outer_instructions(Payments[pay]).memos
    BY <1>3, <1>5, <1>6
<1> QED  BY <1>1, <1>8, <1>9, <1>10 DEF stored

-----------------------------------------------------------------------------
(* What others may do while a call waits. *)

RowMoves(row, row2) ==
    /\ row2.hash = row.hash /\ row2.wallet = row.wallet
    /\ row.status # "absent" => row2.status # "absent"
    /\ row.status \notin {"absent", "funding_required"} =>
          /\ row2.status \notin {"absent", "funding_required"}
          /\ row.fsig # NULL => row2.fsig = row.fsig
    /\ row.status \in Past =>
          row2.status \in Past /\ row2.fsig = row.fsig /\ row2.fslot = row.fslot

\* What a call knows stays true.
LEMMA CallStays ==
    ASSUME NEW q, NEW rows, NEW rows2, NEW rs, NEW pays, NEW pays2, NEW lan, NEW lan2,
           CallOK(q, rows, rs, pays, lan),
           \A i \in Intents : RowOK(i, rows[i], rs, pays, lan),
           \A i \in Intents : RowMoves(rows[i], rows2[i]),
           \A s \in Sigs : pays2[s].pay = pays[s].pay /\ lan[s] \subseteq lan2[s]
    PROVE  CallOK(q, rows2, rs, pays2, lan2)
<1> SUFFICES ASSUME q.pc # "idle" PROVE CallOK(q, rows2, rs, pays2, lan2)
    BY DEF CallOK
<1> DEFINE row == rows[q.intent]
           row2 == rows2[q.intent]
<1>1. /\ q.intent \in Intents /\ q.sig \in Sigs /\ q.sig # NULL
      /\ AnswerOK(q, row) /\ ReadOK(q, row, rs) /\ WriteOK(q, row)
      /\ q.pc \in {"submit", "reserve", "reread", "race"} =>
            Established(q, row, rs, pays[q.sig].pay, lan[q.sig])
    BY FundingNullAssumption DEF CallOK
<1>2. RowMoves(row, row2) /\ RowOK(q.intent, row, rs, pays, lan)
    BY <1>1
<1>3. pays2[q.sig].pay = pays[q.sig].pay /\ lan[q.sig] \subseteq lan2[q.sig]
    BY <1>1
<1> HIDE DEF row, row2
<1>4. AnswerOK(q, row2)
    BY <1>1, <1>2 DEF AnswerOK, Recorded, RowMoves
<1>5. ReadOK(q, row2, rs)
    BY <1>1, <1>2 DEF ReadOK, RowMoves
<1>6. Established(q, row, rs, pays[q.sig].pay, lan[q.sig]) =>
        Established(q, row2, rs, pays2[q.sig].pay, lan2[q.sig])
    BY <1>2, <1>3 DEF Established, RowMoves, Proven
<1>7. WriteOK(q, row2)
    <2>1. q.pc = "reserve" => row2.fsig = q.sig /\ row2.status # "funding_required"
        <3> SUFFICES ASSUME q.pc = "reserve"
                     PROVE  row2.fsig = q.sig /\ row2.status # "funding_required"
            OBVIOUS
        <3>1. row.status \notin {"absent", "funding_required"} /\ row.fsig = q.sig
            BY <1>1 DEF WriteOK, Established
        <3> QED  BY <1>1, <1>2, <3>1 DEF RowMoves
    <2>2. q.pc = "reread" => Recorded(q, row2)
        BY <1>1, <1>2 DEF WriteOK, Recorded, RowMoves
    <2>3. q.pc = "race" => /\ row2.status \notin {"absent", "funding_required"}
                           /\ row2.status = "funding_submitted" => row2.fsig # q.sig
        BY <1>1, <1>2 DEF WriteOK, RowMoves, RowOK, Past
    <2> QED  BY <2>1, <2>2, <2>3 DEF WriteOK
<1> QED  BY <1>1, <1>4, <1>5, <1>6, <1>7 DEF CallOK, row2

LEMMA RowStays ==
    ASSUME NEW i \in Intents, NEW row, NEW rs, NEW pays, NEW pays2, NEW lan, NEW lan2,
           RowOK(i, row, rs, pays, lan),
           \A s \in Sigs : pays2[s].pay = pays[s].pay /\ lan[s] \subseteq lan2[s]
    PROVE  RowOK(i, row, rs, pays2, lan2)
BY DEF RowOK

LEMMA RowIsStill ==
    ASSUME NEW row
    PROVE  RowMoves(row, row)
BY DEF RowMoves

\* A step on the call of one client.
LEMMA CallStep ==
    ASSUME ConfirmInv, NEW c \in Calls, NEW q \in Call, calls' = [calls EXCEPT ![c] = q],
           UNCHANGED <<intents, now, rules, chainVars>>, faults' \in 0 .. MaxFaults,
           CallOK(q, intents, rules, txs, landed), q.pc # "idle"
    PROVE  ConfirmInv'
<1>1. UNCHANGED <<slot, txs, landed, rollbacks>>
    BY DEF chainVars
<1>2. ConfirmTypeOK'
    BY <1>1 DEF ConfirmInv, ConfirmTypeOK, FundingTypeOK
<1>3. \A d \in Calls : calls'[d] = q \/ calls'[d] = calls[d]
    BY DEF ConfirmInv, ConfirmTypeOK
<1>4. \A d \in Calls : CallOK(calls'[d], intents, rules, txs, landed)
    BY <1>3 DEF ConfirmInv, EachOK
<1>5. \A d \in Calls : calls'[d].pc = "idle" => calls'[d].answer = NULL
    BY <1>3 DEF ConfirmInv, EachOK
<1> QED  BY <1>1, <1>2, <1>4, <1>5 DEF ConfirmInv, EachOK

\* A call that is answered, from an await.
LEMMA Answering ==
    ASSUME ConfirmInv, NEW c \in Calls, calls[c].pc # "idle",
           NEW a \in Answers, NEW t \in Slots \cup {NULL}, AnswerWith(c, a, t),
           a # "funding_submitted",
           a = "budget_reserved" =>
               /\ intents[calls[c].intent].status \in Past
               /\ intents[calls[c].intent].fsig = calls[c].sig
               /\ intents[calls[c].intent].fslot = t,
           UNCHANGED <<intents, now, rules, chainVars>>, faults' \in 0 .. MaxFaults
    PROVE  ConfirmInv'
<1> DEFINE q == [pc |-> "done", intent |-> calls[c].intent, sig |-> calls[c].sig,
                 row |-> NoRow, slot |-> t, answer |-> a]
<1>1. calls' = [calls EXCEPT ![c] = q]
    BY DEF AnswerWith
<1>3. CallOK(calls[c], intents, rules, txs, landed)
    BY DEF ConfirmInv, EachOK
<1>4. calls[c].intent \in Intents /\ calls[c].sig \in Sigs
    BY <1>3 DEF CallOK
<1>5. NoRow \in Row
    BY DEF NoRow, Row
<1>6. q \in Call
    BY <1>4, <1>5 DEF Call
<1>7. q.pc = "done" /\ q.intent = calls[c].intent /\ q.sig = calls[c].sig
      /\ q.slot = t /\ q.answer = a
    OBVIOUS
<1> HIDE DEF q
<1>8. AnswerOK(q, intents[q.intent])
    BY <1>7 DEF AnswerOK, Recorded
<1>9. CallOK(q, intents, rules, txs, landed)
    BY <1>4, <1>7, <1>8 DEF CallOK, ReadOK, WriteOK
<1> QED  BY <1>1, <1>6, <1>7, <1>9, CallStep

\* The call of a client, at hand.
LEMMA OneCall ==
    ASSUME ConfirmInv, NEW c \in Calls
    PROVE  /\ calls \in [Calls -> Call] /\ calls[c] \in Call
           /\ CallOK(calls[c], intents, rules, txs, landed)
           /\ faults \in 0 .. MaxFaults
           /\ calls[c].pc # "idle" => calls[c].intent \in Intents /\ calls[c].sig \in Sigs
BY DEF ConfirmInv, ConfirmTypeOK, EachOK, CallOK

-----------------------------------------------------------------------------
(* The chain. *)

LEMMA ChainKeeps ==
    ASSUME ConfirmInv, ChainStep
    PROVE  ConfirmInv'
<1>1. UNCHANGED <<intents, now, rules, calls, faults>>
    BY DEF ChainStep
<1>2. CASE SlotPasses
    BY <1>1, <1>2 DEF SlotPasses, NextSlot, ConfirmInv, ConfirmTypeOK, FundingTypeOK, EachOK
<1>3. ASSUME NEW s \in Sigs, Land(s) \/ Finalize(s) \/ RollBack(s)
      PROVE  ConfirmInv'
    <2> DEFINE tx == txs[s]
    <2>1. /\ txs \in [Sigs -> Tx] /\ landed \in [Sigs -> SUBSET Slots] /\ slot \in Slots
          /\ tx \in Tx /\ TxOK(tx, landed[s])
        BY DEF ConfirmInv, ConfirmTypeOK, EachOK
    <2>2. \E u \in Tx, l \in SUBSET Slots :
             /\ txs' = [txs EXCEPT ![s] = u] /\ landed' = [landed EXCEPT ![s] = l]
             /\ u.pay = tx.pay /\ landed[s] \subseteq l /\ TxOK(u, l)
        <3>1. CASE Land(s)
            <4>1. PICK ok \in BOOLEAN :
                    /\ txs' = [txs EXCEPT ![s].status = "confirmed", ![s].ok = ok,
                                          ![s].slot = slot]
                    /\ landed' = IF ok THEN [landed EXCEPT ![s] = @ \cup {slot}] ELSE landed
                BY <3>1 DEF Land
            <4> DEFINE u == [tx EXCEPT !.status = "confirmed", !.ok = ok, !.slot = slot]
                       l == IF ok THEN landed[s] \cup {slot} ELSE landed[s]
            <4>2. txs' = [txs EXCEPT ![s] = u]
                BY <2>1, <4>1
            <4>3. landed' = [landed EXCEPT ![s] = l]
                BY <2>1, <4>1
            <4>4. u \in Tx /\ u.pay = tx.pay /\ u.slot = slot /\ u.ok = ok
                BY <2>1 DEF Tx
            <4>5. l \in SUBSET Slots /\ landed[s] \subseteq l /\ (ok => slot \in l)
                BY <2>1
            <4> HIDE DEF u, l
            <4> QED  BY <4>2, <4>3, <4>4, <4>5 DEF TxOK
        <3>2. CASE Finalize(s)
            <4> DEFINE u == [tx EXCEPT !.status = "finalized"]
            <4>1. txs' = [txs EXCEPT ![s] = u] /\ landed' = landed /\ tx.status = "confirmed"
                BY <2>1, <3>2 DEF Finalize
            <4>2. u \in Tx /\ u.pay = tx.pay /\ u.slot = tx.slot /\ u.ok = tx.ok
                BY <2>1 DEF Tx
            <4>3. landed' = [landed EXCEPT ![s] = landed[s]] /\ landed[s] \in SUBSET Slots
                BY <2>1, <4>1
            <4> HIDE DEF u
            <4> QED  BY <2>1, <4>1, <4>2, <4>3 DEF TxOK
        <3>3. CASE RollBack(s)
            <4> DEFINE u == Sent(tx.pay)
            <4>1. txs' = [txs EXCEPT ![s] = u] /\ landed' = landed
                BY <2>1, <3>3 DEF RollBack
            <4>2. u \in Tx /\ u.pay = tx.pay /\ u.status = "sent"
                BY <2>1 DEF Tx, Sent
            <4>3. landed' = [landed EXCEPT ![s] = landed[s]] /\ landed[s] \in SUBSET Slots
                BY <2>1, <4>1
            <4> HIDE DEF u
            <4> QED  BY <4>1, <4>2, <4>3 DEF TxOK
        <3> QED  BY <1>3, <3>1, <3>2, <3>3
    <2>3. PICK u \in Tx, l \in SUBSET Slots :
             /\ txs' = [txs EXCEPT ![s] = u] /\ landed' = [landed EXCEPT ![s] = l]
             /\ u.pay = tx.pay /\ landed[s] \subseteq l /\ TxOK(u, l)
        BY <2>2
    <2>4. \A r \in Sigs : /\ txs'[r].pay = txs[r].pay /\ landed[r] \subseteq landed'[r]
                          /\ TxOK(txs'[r], landed'[r])
        BY <2>1, <2>3 DEF ConfirmInv, EachOK
    <2>5. slot' = slot /\ rollbacks' \in 0 .. MaxRollbacks
        <3>1. rollbacks \in 0 .. MaxRollbacks
            BY DEF ConfirmInv, ConfirmTypeOK
        <3>2. /\ slot' = slot
              /\ rollbacks' = rollbacks
                 \/ (rollbacks < MaxRollbacks /\ rollbacks' = rollbacks + 1)
            BY <1>3 DEF Land, Finalize, RollBack
        <3> QED  BY <3>1, <3>2, MaxRollbacksAssumption
    <2>6. ConfirmTypeOK'
        BY <1>1, <2>3, <2>5 DEF ConfirmInv, ConfirmTypeOK, FundingTypeOK
    <2>7. \A i \in Intents : RowOK(i, intents[i], rules, txs', landed')
        BY <2>4, RowStays DEF ConfirmInv, EachOK
    <2>8. \A c \in Calls : CallOK(calls[c], intents, rules, txs', landed')
        BY <2>4, CallStays, RowIsStill DEF ConfirmInv, EachOK
    <2> QED  BY <1>1, <2>4, <2>6, <2>7, <2>8 DEF ConfirmInv, EachOK
<1> QED  BY <1>2, <1>3 DEF ChainStep

-----------------------------------------------------------------------------
(* The handler, await by await. *)

LEMMA BeginKeeps ==
    ASSUME ConfirmInv, NEW c \in Calls, Begin(c)
    PROVE  ConfirmInv'
<1>1. PICK i \in Intents, s \in Sigs :
        calls' = [calls EXCEPT ![c].pc = "load", ![c].intent = i, ![c].sig = s]
    BY DEF Begin
<1>2. calls[c].pc = "idle" /\ UNCHANGED <<intents, now, rules, chainVars, faults>>
    BY DEF Begin, At
<1> DEFINE q == [calls[c] EXCEPT !.pc = "load", !.intent = i, !.sig = s]
<1>3. calls' = [calls EXCEPT ![c] = q]
    BY <1>1, OneCall
<1>4. q \in Call /\ q.pc = "load" /\ q.intent = i /\ q.sig = s /\ q.answer = calls[c].answer
    BY OneCall DEF Call, Steps
<1> HIDE DEF q
<1>5. q.answer = NULL
    BY <1>2, <1>4 DEF ConfirmInv, EachOK
<1>6. CallOK(q, intents, rules, txs, landed)
    BY <1>4, <1>5, AnswersAssumption DEF CallOK, AnswerOK, ReadOK, WriteOK, Answers
<1> QED  BY <1>2, <1>3, <1>4, <1>6, OneCall, CallStep

LEMMA RetryKeeps ==
    ASSUME ConfirmInv, NEW c \in Calls, Retry(c)
    PROVE  ConfirmInv'
<1>1. /\ calls[c].pc = "done" /\ UNCHANGED <<intents, now, rules, chainVars, faults>>
      /\ calls' = [calls EXCEPT ![c].pc = "load", ![c].answer = NULL]
    BY DEF Retry, At
<1> DEFINE q == [calls[c] EXCEPT !.pc = "load", !.answer = NULL]
<1>2. calls' = [calls EXCEPT ![c] = q]
    BY <1>1, OneCall
<1>3. /\ q \in Call /\ q.pc = "load" /\ q.answer = NULL
      /\ q.intent = calls[c].intent /\ q.sig = calls[c].sig
    BY OneCall DEF Call, Steps
<1> HIDE DEF q
<1>4. CallOK(q, intents, rules, txs, landed)
    BY <1>1, <1>3, OneCall, AnswersAssumption
    DEF CallOK, AnswerOK, ReadOK, WriteOK, Answers
<1> QED  BY <1>1, <1>2, <1>3, <1>4, OneCall, CallStep

\* A call that passes the gate has a row with its rule, and a row that is
\* already reserved is so by this call's signature.
LEMMA GateLetsPass ==
    ASSUME NEW i \in Intents, NEW sig, Gate(i, sig) = NULL
    PROVE  /\ intents[i].status # "absent" /\ RuleMatches(i)
           /\ intents[i].status = "budget_reserved" => intents[i].fsig = sig
BY AnswersAssumption DEF Gate, Answers

LEMMA GateAnswers ==
    ASSUME NEW i \in Intents, NEW sig, Gate(i, sig) # NULL
    PROVE  Gate(i, sig) \in Answers \ {"funding_submitted", "budget_reserved"}
BY DEF Gate, Answers

LEMMA LoadKeeps ==
    ASSUME ConfirmInv, NEW c \in Calls, Load(c)
    PROVE  ConfirmInv'
<1> DEFINE i == calls[c].intent
           sig == calls[c].sig
<1>1. /\ calls[c].pc = "load" /\ UNCHANGED <<intents, now, rules, chainVars, faults>>
      /\ i \in Intents /\ sig \in Sigs
    BY OneCall DEF Load, At
<1>2. CASE Gate(i, sig) = NULL
    <2> DEFINE q == [calls[c] EXCEPT !.pc = "status", !.row = intents[i]]
    <2>1. calls' = [calls EXCEPT ![c] = q]
        BY <1>2, OneCall DEF Load
    <2>2. intents[i] \in Row
        BY <1>1 DEF ConfirmInv, ConfirmTypeOK, FundingTypeOK
    <2>3. /\ q \in Call /\ q.pc = "status" /\ q.row = intents[i] /\ q.answer = calls[c].answer
          /\ q.intent = i /\ q.sig = sig
        BY <2>2, OneCall DEF Call, Steps
    <2>4. calls[c].answer = NULL
        BY <1>1, OneCall DEF CallOK, AnswerOK
    <2> HIDE DEF q
    <2>5. AnswerOK(q, intents[i])
        BY <2>3, <2>4, AnswersAssumption DEF AnswerOK, Answers
    <2>6. ReadOK(q, intents[i], rules)
        BY <1>1, <1>2, <2>3, GateLetsPass DEF ReadOK, RuleMatches, Past
    <2>7. CallOK(q, intents, rules, txs, landed)
        BY <1>1, <2>3, <2>5, <2>6 DEF CallOK, WriteOK
    <2> QED  BY <1>1, <2>1, <2>3, <2>7, OneCall, CallStep
<1>3. CASE Gate(i, sig) # NULL
    <2> DEFINE a == Gate(i, sig)
    <2>1. a \in Answers \ {"funding_submitted", "budget_reserved"}
        BY <1>1, <1>3, GateAnswers
    <2>2. AnswerWith(c, a, NULL)
        BY <1>3 DEF Load, Answer
    <2> HIDE DEF a
    <2> QED  BY <1>1, <2>1, <2>2, OneCall, Answering
<1> QED  BY <1>2, <1>3

LEMMA ReadStatusKeeps ==
    ASSUME ConfirmInv, NEW c \in Calls, ReadStatus(c)
    PROVE  ConfirmInv'
<1>1. calls[c].pc = "status" /\ UNCHANGED <<intents, now, rules, chainVars, faults>>
    BY DEF ReadStatus, At
<1>2. CASE Goto(c, "read")
    <2> DEFINE q == [calls[c] EXCEPT !.pc = "read"]
    <2>1. calls' = [calls EXCEPT ![c] = q]
        BY <1>2, OneCall DEF Goto
    <2>2. /\ q \in Call /\ q.pc = "read" /\ q.row = calls[c].row /\ q.slot = calls[c].slot
          /\ q.answer = calls[c].answer /\ q.intent = calls[c].intent /\ q.sig = calls[c].sig
        BY OneCall DEF Call, Steps
    <2> HIDE DEF q
    <2>3. CallOK(q, intents, rules, txs, landed)
        BY <1>1, <2>2, OneCall DEF CallOK, AnswerOK, ReadOK, WriteOK, Recorded
    <2> QED  BY <1>1, <2>1, <2>2, <2>3, OneCall, CallStep
<1>3. CASE Answer(c, "pending_confirmation")
    BY <1>1, <1>3, OneCall, Answering DEF Answer, Answers
<1> QED  BY <1>2, <1>3 DEF ReadStatus

LEMMA ReadTransactionKeeps ==
    ASSUME ConfirmInv, NEW c \in Calls, ReadTransaction(c)
    PROVE  ConfirmInv'
<1> DEFINE i == calls[c].intent
           s == calls[c].sig
           tx == txs[s]
<1>1. /\ calls[c].pc = "read" /\ UNCHANGED <<intents, now, rules, chainVars, faults>>
      /\ i \in Intents /\ s \in Sigs
    BY OneCall DEF ReadTransaction, At
<1>2. /\ ReadOK(calls[c], intents[i], rules) /\ AnswerOK(calls[c], intents[i])
    BY <1>1, OneCall DEF CallOK
<1>3. CASE \E a \in {"pending_confirmation", "error", "verification_failed",
                     "intent_integrity_error"} : Answer(c, a)
    BY <1>1, <1>3, OneCall, Answering DEF Answer, Answers
<1>4. CASE /\ tx.status \in {"confirmed", "finalized"} /\ Verified(s, i)
           /\ calls' = [calls EXCEPT ![c].pc = "submit", ![c].row = NoRow,
                                     ![c].slot = tx.slot]
    <2> DEFINE q == [calls[c] EXCEPT !.pc = "submit", !.row = NoRow, !.slot = tx.slot]
    <2>1. calls' = [calls EXCEPT ![c] = q]
        BY <1>4, OneCall
    <2>2. tx \in Tx /\ TxOK(tx, landed[s])
        BY <1>1 DEF ConfirmInv, ConfirmTypeOK, EachOK
    <2>3. tx.slot \in Slots \cup {NULL} /\ tx.ok
        BY <1>4, <2>2 DEF Tx, Verified
    <2>4. NoRow \in Row
        BY DEF NoRow, Row
    <2>5. /\ q \in Call /\ q.pc = "submit" /\ q.slot = tx.slot
          /\ q.answer = calls[c].answer /\ q.intent = i /\ q.sig = s
        BY <2>3, <2>4, OneCall DEF Call, Steps
    <2> HIDE DEF q
    <2>6. tx.slot \in landed[s]
        BY <1>4, <2>2, <2>3 DEF TxOK
    <2>7. intents[i].status # "absent" /\ rules[i].created = intents[i].hash
        BY <1>1, <1>2 DEF ReadOK
    <2>8. Established(q, intents[i], rules, tx.pay, landed[s])
        BY <1>4, <2>5, <2>6, <2>7 DEF Established, Proven, Verified
    <2>9. AnswerOK(q, intents[i])
        BY <1>1, <1>2, <2>5, AnswersAssumption DEF AnswerOK, Answers
    <2>10. CallOK(q, intents, rules, txs, landed)
        BY <1>1, <2>5, <2>8, <2>9 DEF CallOK, ReadOK, WriteOK
    <2> QED  BY <1>1, <2>1, <2>5, <2>10, OneCall, CallStep
<1>5. CASE /\ calls[c].row.status = "budget_reserved"
           /\ AnswerWith(c, "budget_reserved", calls[c].row.fslot)
    <2>1. /\ intents[i].status \in Past /\ intents[i].fsig = s
          /\ intents[i].fslot = calls[c].row.fslot
        BY <1>1, <1>2, <1>5 DEF ReadOK
    <2>2. calls[c].row.fslot \in Slots \cup {NULL}
        BY OneCall DEF Call, Row
    <2> QED  BY <1>1, <1>5, <2>1, <2>2, OneCall, Answering DEF Answers
<1> QED  BY <1>3, <1>4, <1>5 DEF ReadTransaction

LEMMA RereadKeeps ==
    ASSUME ConfirmInv, NEW c \in Calls, Reread(c)
    PROVE  ConfirmInv'
<1>1. /\ calls[c].pc = "reread" /\ UNCHANGED <<intents, now, rules, chainVars, faults>>
      /\ AnswerWith(c, "budget_reserved", calls[c].slot)
    BY DEF Reread, At
<1>2. Recorded(calls[c], intents[calls[c].intent])
    BY <1>1, OneCall DEF CallOK, WriteOK
<1>3. calls[c].slot \in Slots \cup {NULL}
    BY OneCall DEF Call
<1> QED  BY <1>1, <1>2, <1>3, OneCall, Answering DEF Recorded, Answers

LEMMA RaceKeeps ==
    ASSUME ConfirmInv, NEW c \in Calls, resolve_transition_race(c)
    PROVE  ConfirmInv'
<1> DEFINE row == intents[calls[c].intent]
<1>1. /\ calls[c].pc = "race" /\ UNCHANGED <<intents, now, rules, chainVars, faults>>
      /\ calls[c].intent \in Intents
    BY OneCall DEF resolve_transition_race, At
<1>2. ~SubmittedWith(calls[c].intent, calls[c].sig)
    BY <1>1, OneCall DEF CallOK, WriteOK, SubmittedWith
<1>3. CASE /\ row.status = "budget_reserved" /\ row.fsig = calls[c].sig
           /\ AnswerWith(c, "budget_reserved", row.fslot)
    <2>1. row.fslot \in Slots \cup {NULL}
        BY <1>1 DEF ConfirmInv, ConfirmTypeOK, FundingTypeOK, Row
    <2> QED  BY <1>1, <1>3, <2>1, OneCall, Answering DEF Answers, Past
<1>4. CASE Answer(c, "state_conflict")
    BY <1>1, <1>4, OneCall, Answering DEF Answer, Answers
<1> QED  BY <1>2, <1>3, <1>4 DEF resolve_transition_race

LEMMA FaultKeeps ==
    ASSUME ConfirmInv, NEW c \in Calls, Fault(c)
    PROVE  ConfirmInv'
<1>1. /\ calls[c].pc # "idle" /\ UNCHANGED <<intents, now, rules, chainVars>>
      /\ AnswerWith(c, "error", NULL)
    BY DEF Fault, Answer, Steps
<1>2. faults' \in 0 .. MaxFaults
    BY OneCall, MaxFaultsAssumption DEF Fault
<1> QED  BY <1>1, <1>2, Answering DEF Answers

\* A step that moves a row, and at most one call with it.
LEMMA RowStep ==
    ASSUME ConfirmInv, NEW i \in Intents, NEW row \in Row,
           intents' = [intents EXCEPT ![i] = row],
           RowMoves(intents[i], row), RowOK(i, row, rules, txs, landed),
           UNCHANGED <<now, rules, chainVars, faults>>,
           calls' \in [Calls -> Call],
           \A d \in Calls : calls'[d] # calls[d] =>
              calls'[d].pc # "idle" /\ CallOK(calls'[d], intents', rules, txs, landed)
    PROVE  ConfirmInv'
<1>1. UNCHANGED <<slot, txs, landed, rollbacks>>
    BY DEF chainVars
<1>2. ConfirmTypeOK'
    BY <1>1 DEF ConfirmInv, ConfirmTypeOK, FundingTypeOK
<1>3. intents'[i] = row /\ \A j \in Intents \ {i} : intents'[j] = intents[j]
    BY DEF ConfirmInv, ConfirmTypeOK, FundingTypeOK
<1>4. \A j \in Intents : /\ RowMoves(intents[j], intents'[j])
                         /\ RowOK(j, intents'[j], rules, txs, landed)
    <2> SUFFICES ASSUME NEW j \in Intents
                 PROVE  /\ RowMoves(intents[j], intents'[j])
                        /\ RowOK(j, intents'[j], rules, txs, landed)
        OBVIOUS
    <2>1. CASE j = i
        BY <1>3, <2>1
    <2>2. CASE j # i
        BY <1>3, <2>2, RowIsStill DEF ConfirmInv, EachOK
    <2> QED  BY <2>1, <2>2
<1>5. ASSUME NEW d \in Calls
      PROVE  /\ CallOK(calls'[d], intents', rules, txs, landed)
             /\ calls'[d].pc = "idle" => calls'[d].answer = NULL
    <2>1. CASE calls'[d] # calls[d]
        BY <2>1
    <2>2. CASE calls'[d] = calls[d]
        <3>1. CallOK(calls[d], intents', rules, txs, landed)
            BY <1>4, OneCall, CallStays DEF ConfirmInv, EachOK
        <3> QED  BY <2>2, <3>1 DEF ConfirmInv, EachOK
    <2> QED  BY <2>1, <2>2
<1>6. \A s \in Sigs : TxOK(txs[s], landed[s])
    BY DEF ConfirmInv, EachOK
<1> QED  BY <1>1, <1>2, <1>4, <1>5, <1>6 DEF ConfirmInv, EachOK

\* A call that goes on from a write with what it has established.
LEMMA GoesOn ==
    ASSUME NEW q \in Call, NEW pc \in {"reserve", "reread", "race"}, NEW rows,
           NEW q2, q2 = [q EXCEPT !.pc = pc],
           q.pc \in {"submit", "reserve"},
           CallOK(q, rows, rules, txs, landed), WriteOK(q2, rows[q.intent])
    PROVE  q2 \in Call /\ q2.pc = pc /\ CallOK(q2, rows, rules, txs, landed)
<1>1. /\ q2 \in Call /\ q2.pc = pc /\ q2.intent = q.intent /\ q2.sig = q.sig
      /\ q2.slot = q.slot /\ q2.answer = q.answer
    BY DEF Call, Steps
<1>2. /\ q.intent \in Intents /\ q.sig \in Sigs /\ q.answer = NULL
      /\ Established(q, rows[q.intent], rules, txs[q.sig].pay, landed[q.sig])
    BY DEF CallOK, AnswerOK
<1>3. WriteOK(q2, rows[q.intent])
    OBVIOUS
<1>4. AnswerOK(q2, rows[q.intent])
    BY <1>1, <1>2, AnswersAssumption DEF AnswerOK, Answers
<1>5. CallOK(q2, rows, rules, txs, landed)
    BY <1>1, <1>2, <1>3, <1>4 DEF CallOK, ReadOK, Established
<1> QED  BY <1>1, <1>5

LEMMA SubmitKeeps ==
    ASSUME ConfirmInv, NEW c \in Calls, Submit(c)
    PROVE  ConfirmInv'
<1> DEFINE q == calls[c]
           i == q.intent
           row == intents[i]
<1>1. /\ q.pc = "submit" /\ UNCHANGED <<now, rules, chainVars, faults>>
      /\ i \in Intents /\ q.sig \in Sigs /\ q.sig # NULL /\ q \in Call
      /\ calls \in [Calls -> Call]
      /\ CallOK(q, intents, rules, txs, landed)
    BY OneCall, FundingNullAssumption DEF Submit, At
<1>2. /\ row.status # "absent" /\ row \in Row
      /\ RowOK(i, row, rules, txs, landed)
    BY <1>1 DEF CallOK, Established, ConfirmInv, ConfirmTypeOK, FundingTypeOK, EachOK
<1>3. CASE mark_funding_submitted_if_required(i, q.sig) /\ Goto(c, "reserve")
    <2> DEFINE row2 == [row EXCEPT !.status = "funding_submitted", !.fsig = q.sig]
               q2 == [q EXCEPT !.pc = "reserve"]
    <2>1. /\ CanSubmitFunding(i, q.sig) /\ intents' = [intents EXCEPT ![i] = row2]
          /\ calls' = [calls EXCEPT ![c] = q2]
        BY <1>1, <1>3 DEF mark_funding_submitted_if_required, Goto, ConfirmInv,
                          ConfirmTypeOK, FundingTypeOK
    <2>2. /\ row2 \in Row /\ row2.status = "funding_submitted" /\ row2.fsig = q.sig
          /\ row2.hash = row.hash /\ row2.wallet = row.wallet
        BY <1>1, <1>2 DEF Row, Status
    <2> HIDE DEF row2
    <2>3. RowMoves(row, row2)
        BY <1>1, <1>2, <2>1, <2>2 DEF RowMoves, CanSubmitFunding, RowOK, Past
    <2>4. RowOK(i, row2, rules, txs, landed)
        BY <1>1, <1>2, <2>2 DEF RowOK, Past
    <2>5. intents'[i] = row2 /\ \A j \in Intents : RowMoves(intents[j], intents'[j])
        BY <1>1, <2>1, <2>3, RowIsStill DEF ConfirmInv, ConfirmTypeOK, FundingTypeOK
    <2>6. CallOK(q, intents', rules, txs, landed)
        BY <1>1, <2>5, CallStays DEF ConfirmInv, EachOK
    <2>7. WriteOK(q2, intents'[i])
        BY <1>1, <2>2, <2>5 DEF WriteOK, Call
    <2>0. q2 = [q EXCEPT !.pc = "reserve"]
        OBVIOUS
    <2> HIDE DEF q2
    <2>8. q2 \in Call /\ q2.pc = "reserve" /\ CallOK(q2, intents', rules, txs, landed)
        BY <1>1, <2>0, <2>6, <2>7, GoesOn
    <2>9. calls' \in [Calls -> Call] /\ \A d \in Calls : calls'[d] # calls[d] => calls'[d] = q2
        BY <1>1, <2>1, <2>8
    <2> QED  BY <1>1, <2>1, <2>2, <2>3, <2>4, <2>8, <2>9, RowStep
<1>4. CASE ~CanSubmitFunding(i, q.sig) /\ Goto(c, "race") /\ UNCHANGED intents
    <2> DEFINE q2 == [q EXCEPT !.pc = "race"]
    <2>1. calls' = [calls EXCEPT ![c] = q2]
        BY <1>4 DEF Goto
    <2>2. q2.pc = "race" /\ q2.sig = q.sig
        BY <1>1 DEF Call
    <2>3. WriteOK(q2, row)
        BY <1>2, <1>4, <2>2 DEF WriteOK, CanSubmitFunding
    <2>0. q2 = [q EXCEPT !.pc = "race"]
        OBVIOUS
    <2> HIDE DEF q2
    <2>4. q2 \in Call /\ q2.pc = "race" /\ CallOK(q2, intents, rules, txs, landed)
        BY <1>1, <2>0, <2>3, GoesOn
    <2> QED  BY <1>1, <1>4, <2>1, <2>4, OneCall, CallStep
<1> QED  BY <1>3, <1>4 DEF Submit

LEMMA ReserveKeeps ==
    ASSUME ConfirmInv, NEW c \in Calls, Reserve(c)
    PROVE  ConfirmInv'
<1> DEFINE q == calls[c]
           i == q.intent
           row == intents[i]
<1>1. /\ q.pc = "reserve" /\ UNCHANGED <<now, rules, chainVars, faults>>
      /\ i \in Intents /\ q.sig \in Sigs /\ q.sig # NULL /\ q \in Call
      /\ calls \in [Calls -> Call]
      /\ CallOK(q, intents, rules, txs, landed)
    BY OneCall, FundingNullAssumption DEF Reserve, At
<1>2. /\ Established(q, row, rules, txs[q.sig].pay, landed[q.sig])
      /\ row.fsig = q.sig /\ row.status \notin {"absent", "funding_required"}
      /\ row \in Row /\ RowOK(i, row, rules, txs, landed)
    BY <1>1 DEF CallOK, WriteOK, Established, ConfirmInv, ConfirmTypeOK, FundingTypeOK, EachOK
<1>3. CASE mark_budget_reserved_if_submitted(i, q.sig, q.slot) /\ Goto(c, "reread")
    <2> DEFINE row2 == [row EXCEPT !.status = "budget_reserved", !.fslot = q.slot]
               q2 == [q EXCEPT !.pc = "reread"]
    <2>1. /\ row.status = "funding_submitted" /\ intents' = [intents EXCEPT ![i] = row2]
          /\ calls' = [calls EXCEPT ![c] = q2]
        BY <1>1, <1>3 DEF mark_budget_reserved_if_submitted, SubmittedWith, Goto,
                          ConfirmInv, ConfirmTypeOK, FundingTypeOK
    <2>2. q.slot \in Slots \cup {NULL}
        BY <1>1 DEF Call
    <2>3. /\ row2 \in Row /\ row2.status = "budget_reserved" /\ row2.fsig = row.fsig
          /\ row2.hash = row.hash /\ row2.wallet = row.wallet /\ row2.fslot = q.slot
        BY <1>2, <2>2 DEF Row, Status
    <2> HIDE DEF row2
    <2>4. RowMoves(row, row2)
        BY <2>1, <2>3 DEF RowMoves, Past
    <2>5. RowOK(i, row2, rules, txs, landed)
        BY <1>1, <1>2, <2>3 DEF RowOK, Past, Established, Proven
    <2>6. intents'[i] = row2 /\ \A j \in Intents : RowMoves(intents[j], intents'[j])
        BY <1>1, <2>1, <2>4, RowIsStill DEF ConfirmInv, ConfirmTypeOK, FundingTypeOK
    <2>7. CallOK(q, intents', rules, txs, landed)
        BY <1>1, <2>6, CallStays DEF ConfirmInv, EachOK
    <2>8. q2.pc = "reread" /\ q2.sig = q.sig /\ q2.slot = q.slot
        BY <1>1 DEF Call
    <2>9. WriteOK(q2, intents'[i])
        BY <1>2, <2>3, <2>6, <2>8 DEF WriteOK, Recorded, Past
    <2>0. q2 = [q EXCEPT !.pc = "reread"]
        OBVIOUS
    <2> HIDE DEF q2
    <2>10. q2 \in Call /\ q2.pc = "reread" /\ CallOK(q2, intents', rules, txs, landed)
        BY <1>1, <2>0, <2>7, <2>9, GoesOn
    <2>11. calls' \in [Calls -> Call] /\ \A d \in Calls : calls'[d] # calls[d] => calls'[d] = q2
        BY <1>1, <2>1, <2>10
    <2> QED  BY <1>1, <2>1, <2>3, <2>4, <2>5, <2>10, <2>11, RowStep
<1>4. CASE ~SubmittedWith(i, q.sig) /\ Goto(c, "race") /\ UNCHANGED intents
    <2> DEFINE q2 == [q EXCEPT !.pc = "race"]
    <2>1. calls' = [calls EXCEPT ![c] = q2]
        BY <1>4 DEF Goto
    <2>2. q2.pc = "race" /\ q2.sig = q.sig
        BY <1>1 DEF Call
    <2>3. WriteOK(q2, row)
        BY <1>2, <1>4, <2>2 DEF WriteOK, SubmittedWith
    <2>0. q2 = [q EXCEPT !.pc = "race"]
        OBVIOUS
    <2> HIDE DEF q2
    <2>4. q2 \in Call /\ q2.pc = "race" /\ CallOK(q2, intents, rules, txs, landed)
        BY <1>1, <2>0, <2>3, GoesOn
    <2> QED  BY <1>1, <1>4, <2>1, <2>4, OneCall, CallStep
<1> QED  BY <1>3, <1>4 DEF Reserve

LEMMA WatcherKeeps ==
    ASSUME ConfirmInv, NEW i \in Intents, Watcher(i)
    PROVE  ConfirmInv'
<1> DEFINE row == intents[i]
<1>1. /\ UNCHANGED <<now, rules, chainVars, calls, faults>>
      /\ row \in Row /\ RowOK(i, row, rules, txs, landed) /\ calls \in [Calls -> Call]
    BY DEF Watcher, ConfirmInv, ConfirmTypeOK, FundingTypeOK, EachOK
<1>2. \E st \in Past : /\ row.status \in Past
                       /\ intents' = [intents EXCEPT ![i] = [row EXCEPT !.status = st]]
    BY DEF Watcher, lease_execution_if_budget_reserved, CanLeaseExecution,
           release_execution_lease_to_budget_reserved, IsExecuting, mark_failed, Past,
           ConfirmInv, ConfirmTypeOK, FundingTypeOK
<1>3. PICK st \in Past : /\ row.status \in Past
                         /\ intents' = [intents EXCEPT ![i] = [row EXCEPT !.status = st]]
    BY <1>2
<1> DEFINE row2 == [row EXCEPT !.status = st]
<1>4. /\ row2 \in Row /\ row2.status = st /\ row2.fsig = row.fsig /\ row2.fslot = row.fslot
      /\ row2.hash = row.hash /\ row2.wallet = row.wallet
    BY <1>1 DEF Row, Status, Past
<1>5. intents' = [intents EXCEPT ![i] = row2]
    BY <1>3
<1> HIDE DEF row2
<1>6. RowMoves(row, row2) /\ RowOK(i, row2, rules, txs, landed)
    BY <1>1, <1>3, <1>4 DEF RowMoves, RowOK, Past, Proven
<1> QED  BY <1>1, <1>4, <1>5, <1>6, RowStep

-----------------------------------------------------------------------------
(* The theorems. *)

LEMMA ConfirmInitially ==
    ASSUME ConfirmInit
    PROVE  ConfirmInv
<1>1. PICK left \in [Intents -> {<<NoRow, NoRule>>, <<FundingRow, NoRule>>}
                  \cup {<<FundingRow, RuleOf(t)>> : t \in Slots}] :
          /\ intents = [i \in Intents |-> left[i][1]]
          /\ rules = [i \in Intents |-> left[i][2]]
    BY DEF ConfirmInit
<1>2. PICK pays \in [Sigs -> DOMAIN Payments] : txs = [s \in Sigs |-> Sent(pays[s])]
    BY DEF ConfirmInit
<1>3. /\ now = 0 /\ slot = 0 /\ landed = [s \in Sigs |-> {}]
      /\ calls = [c \in Calls |-> NoCall] /\ faults = 0 /\ rollbacks = 0
    BY DEF ConfirmInit
<1>4. /\ NoRow \in Row /\ NoRow.status = "absent"
      /\ FundingRow \in Row /\ FundingRow.status = "funding_required"
      /\ FundingRow.hash \in Slots /\ FundingRow.wallet \in Wallets
    <2>1. (CHOOSE w \in Wallets : TRUE) \in Wallets
        BY ConfirmStartAssumption
    <2> QED  BY <2>1, ConfirmStartAssumption, LifetimeAssumption
             DEF NoRow, FundingRow, Row, Status
<1>5. NoRule \in RuleRow /\ \A t \in Slots : RuleOf(t) \in RuleRow
    BY DEF NoRule, RuleOf, RuleRow, RuleStatus
<1>6. ASSUME NEW i \in Intents
      PROVE  /\ intents[i] \in Row /\ rules[i] \in RuleRow
             /\ RowOK(i, intents[i], rules, txs, landed)
    <2>1. intents[i] \in {NoRow, FundingRow} /\ rules[i] \in RuleRow
        BY <1>1, <1>5
    <2> QED  BY <1>4, <2>1 DEF RowOK, Past
<1>7. ASSUME NEW s \in Sigs
      PROVE  txs[s] \in Tx /\ TxOK(txs[s], landed[s])
    BY <1>2 DEF Sent, Tx, TxOK
<1>8. NoCall \in Call /\ NoCall.pc = "idle" /\ NoCall.answer = NULL
    BY <1>4 DEF NoCall, Call
<1>9. ConfirmTypeOK
    BY <1>1, <1>2, <1>3, <1>6, <1>7, <1>8, ConfirmStartAssumption,
       MaxFaultsAssumption, MaxRollbacksAssumption
    DEF ConfirmTypeOK, FundingTypeOK
<1>10. \A c \in Calls : /\ CallOK(calls[c], intents, rules, txs, landed)
                        /\ calls[c].answer = NULL
    BY <1>3, <1>8 DEF CallOK
<1> QED  BY <1>6, <1>7, <1>9, <1>10 DEF ConfirmInv, EachOK

LEMMA ConfirmSteps ==
    ASSUME ConfirmInv, [ConfirmNext]_confirmVars
    PROVE  ConfirmInv'
<1>1. CASE UNCHANGED confirmVars
    BY <1>1 DEF confirmVars, ConfirmInv, ConfirmTypeOK, FundingTypeOK, EachOK
<1>2. ASSUME NEW c \in Calls, Begin(c) \/ Retry(c) \/ HandlerStep(c) \/ Fault(c)
      PROVE  ConfirmInv'
    BY <1>2, BeginKeeps, RetryKeeps, LoadKeeps, ReadStatusKeeps, ReadTransactionKeeps,
       SubmitKeeps, ReserveKeeps, RereadKeeps, RaceKeeps, FaultKeeps DEF HandlerStep
<1> QED  BY <1>1, <1>2, ChainKeeps, WatcherKeeps DEF ConfirmNext

LEMMA ConfirmInvAlways == ConfirmSpec => []ConfirmInv
BY ConfirmInitially, ConfirmSteps, PTL DEF ConfirmSpec

\* The two tables, the chain and the calls keep their types, whatever the
\* gate answers.
THEOREM ConfirmTypes == ConfirmSpec => []ConfirmTypeOK
<1>1. ConfirmInv => ConfirmTypeOK
    BY DEF ConfirmInv
<1> QED  BY <1>1, ConfirmInvAlways, PTL

\* A reserved budget was paid in full, by the transaction and in the slot the
\* row names, and the transaction names the intent (verify_funding_transaction, mark_budget_reserved_if_submitted).
THEOREM ReservedIsPaidAlways == ConfirmSpec => []ReservedIsPaid
<1>1. ASSUME ConfirmInv, NEW i \in Intents, intents[i].status \in Funded
      PROVE  LET s   == intents[i].fsig
                 pay == txs[s].pay
                 row == Stored(i, intents[i].hash, intents[i].wallet)
             IN  /\ <<i, row.hash>> \in parse_outer_instructions(Payments[pay]).memos
                 /\ Change(pay, row.controlled_ata) = Amount
                 /\ Change(pay, row.user_ata) = -Amount
                 /\ intents[i].fslot \in landed[s]
                 /\ RuleMatches(i)
    <2> DEFINE s == intents[i].fsig
               pay == txs[s].pay
               row == Stored(i, intents[i].hash, intents[i].wallet)
               memos == parse_outer_instructions(Payments[pay]).memos
    <2>1. RowOK(i, intents[i], rules, txs, landed)
        BY <1>1 DEF ConfirmInv, EachOK
    <2>2. intents[i].status \in Past /\ intents[i].status # "absent"
        BY <1>1, <2>1 DEF RowOK, Past, Funded
    <2>3. /\ intents[i].hash \in Slots /\ intents[i].wallet \in Wallets
          /\ Proven(pay, i, intents[i]) /\ intents[i].fslot \in landed[s]
          /\ RuleMatches(i)
        BY <2>1, <2>2 DEF RowOK, RuleMatches
    <2>4. /\ pay \in DOMAIN Payments /\ <<i, intents[i].hash>> \in memos
          /\ Change(pay, row.controlled_ata) = Amount
          /\ Change(pay, row.user_ata) = -Amount
        BY <2>3, ProvenPays
    <2>5. row.hash = intents[i].hash
        BY DEF Stored
    <2> HIDE DEF memos
    <2> QED  BY <2>3, <2>4, <2>5 DEF memos
<1>2. ConfirmInv => ReservedIsPaid
    BY <1>1 DEF ReservedIsPaid
<1> QED  BY <1>2, ConfirmInvAlways, PTL

\* A call that answers budget_reserved names the signature and the slot of
\* the row, whichever call won (resolve_transition_race).
THEOREM SuccessIsRecordedAlways == ConfirmSpec => []SuccessIsRecorded
<1>1. ASSUME ConfirmInv, NEW c \in Calls, calls[c].answer = "budget_reserved"
      PROVE  /\ intents[calls[c].intent].fsig = calls[c].sig
             /\ intents[calls[c].intent].fslot = calls[c].slot
    <2>1. calls[c].pc # "idle"
        BY <1>1, AnswersAssumption DEF ConfirmInv, EachOK, Answers
    <2> QED  BY <1>1, <2>1, OneCall DEF CallOK, AnswerOK, Recorded
<1>2. ConfirmInv => SuccessIsRecorded
    BY <1>1 DEF SuccessIsRecorded
<1> QED  BY <1>2, ConfirmInvAlways, PTL

\* A lost race is never answered by funding_submitted.
THEOREM RaceIsDecidedAlways == ConfirmSpec => []RaceIsDecided
<1>1. ASSUME ConfirmInv, NEW c \in Calls
      PROVE  calls[c].answer # "funding_submitted"
    <2>1. CASE calls[c].pc = "idle"
        BY <1>1, <2>1, AnswersAssumption DEF ConfirmInv, EachOK, Answers
    <2>2. CASE calls[c].pc # "idle"
        BY <1>1, <2>2, OneCall, AnswersAssumption DEF CallOK, AnswerOK, Answers
    <2> QED  BY <2>1, <2>2
<1>2. ConfirmInv => RaceIsDecided
    BY <1>1 DEF RaceIsDecided
<1> QED  BY <1>2, ConfirmInvAlways, PTL

-----------------------------------------------------------------------------
(* confirm_funding as a caller of the table. *)

\* Whatever a call or the watcher does to the funding table is one call of a
\* method of the repository, with a signature, a slot of the chain and the
\* present time.
LEMMA ConfirmCallsTable ==
    ASSUME ConfirmInv, [ConfirmNext]_confirmVars
    PROVE  [FundingNext]_fundingVars
<1>1. now \in Nat /\ landed \in [Sigs -> SUBSET Slots]
    BY DEF ConfirmInv, ConfirmTypeOK, FundingTypeOK
<1>2. ASSUME UNCHANGED <<intents, now>>
      PROVE  [FundingNext]_fundingVars
    BY <1>2 DEF fundingVars
<1>3. ASSUME NEW i \in Intents, Update(i), UNCHANGED now
      PROVE  [FundingNext]_fundingVars
    BY <1>3 DEF FundingNext
<1>4. ASSUME NEW c \in Calls, Submit(c)
      PROVE  [FundingNext]_fundingVars
    <2>1. calls[c].intent \in Intents /\ calls[c].sig \in Sigs
        BY <1>4 DEF Submit, At, ConfirmInv, EachOK, CallOK
    <2>2. CASE mark_funding_submitted_if_required(calls[c].intent, calls[c].sig)
        BY <1>3, <1>4, <2>1, <2>2 DEF Submit, Update
    <2> QED  BY <1>2, <1>4, <2>2 DEF Submit
<1>5. ASSUME NEW c \in Calls, Reserve(c)
      PROVE  [FundingNext]_fundingVars
    <2>1. calls[c].intent \in Intents /\ calls[c].sig \in Sigs
        BY <1>5 DEF Reserve, At, ConfirmInv, EachOK, CallOK
    <2>2. calls[c].slot \in Slots
        BY <1>1, <1>5, <2>1 DEF Reserve, At, ConfirmInv, EachOK, CallOK, Established
    <2>3. CASE mark_budget_reserved_if_submitted(calls[c].intent, calls[c].sig, calls[c].slot)
        BY <1>3, <1>5, <2>1, <2>2, <2>3 DEF Reserve, Update
    <2> QED  BY <1>2, <1>5, <2>3 DEF Reserve
<1>6. ASSUME NEW i \in Intents, Watcher(i)
      PROVE  [FundingNext]_fundingVars
    <2>1. now \in Sampled
        BY <1>1 DEF Sampled
    <2>2. Update(i)
        BY <1>6, <2>1 DEF Watcher, Update
    <2> QED  BY <1>3, <1>6, <2>2 DEF Watcher
<1>7. ASSUME NEW c \in Calls,
             \/ Begin(c) \/ Retry(c) \/ Fault(c) \/ Load(c) \/ ReadStatus(c)
             \/ ReadTransaction(c) \/ Reread(c) \/ resolve_transition_race(c)
      PROVE  UNCHANGED <<intents, now>>
    BY <1>7 DEF Begin, Retry, Fault, Load, ReadStatus, ReadTransaction, Reread,
                resolve_transition_race
<1>8. CASE ChainStep \/ UNCHANGED confirmVars
    BY <1>2, <1>8 DEF ChainStep, confirmVars
<1> QED  BY <1>2, <1>4, <1>5, <1>6, <1>7, <1>8 DEF ConfirmNext, HandlerStep

\* finalize leaves rows that nobody has paid for.
LEMMA ConfirmInitUnfunded ==
    ASSUME ConfirmInit
    PROVE  LeftUnfunded
<1>1. PICK left \in [Intents -> {<<NoRow, NoRule>>, <<FundingRow, NoRule>>}
                  \cup {<<FundingRow, RuleOf(t)>> : t \in Slots}] :
          intents = [i \in Intents |-> left[i][1]]
    BY DEF ConfirmInit
<1>2. \A i \in Intents : intents[i] \in {NoRow, FundingRow}
    BY <1>1
<1>3. FundingTypeOK
    BY ConfirmInitially DEF ConfirmInv, ConfirmTypeOK
<1>4. NoRow.status = "absent" /\ FundingRow.status = "funding_required"
    BY DEF NoRow, FundingRow
<1>5. /\ NoRow.fsig = NULL /\ NoRow.fslot = NULL
      /\ NoRow.esig = NULL /\ NoRow.rsig = NULL
    BY DEF NoRow
<1>6. /\ FundingRow.fsig = NULL /\ FundingRow.fslot = NULL
      /\ FundingRow.esig = NULL /\ FundingRow.rsig = NULL
    BY DEF NoRow, FundingRow
<1> QED  BY <1>2, <1>3, <1>4, <1>5, <1>6 DEF LeftUnfunded, Unpaid

\* However calls race, fail and are repeated, confirm_funding and the watcher
\* together keep every promise of the table: no budget is held without its
\* payment on record, no evidence is replaced, nothing leaves a terminal
\* status, and each budget moves as the custody contract says.
THEOREM ConfirmKeepsPromises == ConfirmSpec => TablePromises
<1>1. ConfirmInv /\ [ConfirmNext]_confirmVars => [FundingNext]_fundingVars
    BY ConfirmCallsTable
<1>2. ConfirmInit => LeftUnfunded
    BY ConfirmInitUnfunded
<1> QED  BY <1>1, <1>2, ConfirmInvAlways, CallersKeepPromises, PTL DEF ConfirmSpec

=============================================================================
