------------------------ MODULE FinalizeIntentProofs ------------------------
(***************************************************************************)
(* finalize_intent, for any number of requests, servers, drafts and        *)
(* wallets, with any number of crashes: a draft is claimed once, the       *)
(* sidecar only grows, and what is offered for funding is backed by the    *)
(* stored rows and in time.                                                *)
(*                                                                         *)
(* The argument rests on one fact about the tables, Grows: what a request  *)
(* has read of an existing row stays true.  ReqOK says what each request   *)
(* has seen by the time it gets where it is.                               *)
(*                                                                         *)
(* Last, finalize as a caller of the funding table: its steps are steps of *)
(* the table's own specification.                                          *)
(***************************************************************************)
EXTENDS FinalizeIntent, FundingIntentsProofs, TLAPS

\* The rule of intent i exists in the approved shape, created at slot t.
RuleStored(rls, i, t) ==
    rls[i].status # "absent" /\ rls[i].canonical /\ rls[i].created = t

\* The funding row of intent i exists with what the copy of it says.
RowStored(its, i, row) ==
    /\ its[i].status # "absent"
    /\ its[i].wallet = row.wallet
    /\ its[i].hash = row.hash
    /\ its[i].expires = row.expires

\* A request in progress has its parameters.
ServingOK(q) ==
    q.pc \in Steps =>
        /\ q.server \in Servers /\ q.draft \in Drafts /\ q.hash \in Hashes
        /\ q.intent \in Intents /\ q.wallet \in Wallets
        /\ q.answer = NULL

\* What was claimed is in the sidecar.
ClaimOK(q, cons) == q.claimed => q.draft \in Drafts /\ cons[q.draft] # NULL

\* rule_persisted means that the rule is stored as it is known here.
PersistedOK(q, rls) ==
    /\ q.pc \in {"pool", "claim", "market", "rule_insert", "rule_read"} => ~q.persisted
    /\ q.pc \in {"index_pool", "index"} => q.persisted
    /\ q.pc \in Steps /\ q.persisted => RuleStored(rls, q.intent, q.created)

\* A row this request wrote is for its wallet; the row it read is the stored
\* one, and a row that asks for funding has no signature yet.
FundingOK(q, its) ==
    /\ q.pc \in {"funding_read", "respond"} /\ ~q.reused =>
          its[q.intent].status # "absent" /\ its[q.intent].wallet = q.wallet
    /\ q.pc = "respond" =>
          /\ RowStored(its, q.intent, q.row)
          /\ q.row.status = "funding_required" => q.row.fsig = NULL

\* What has been offered, and keeps its backing.
OfferOK(q, rls, its) ==
    q.answer = "actionable" =>
        /\ q.intent \in Intents
        /\ RuleStored(rls, q.intent, q.row.hash)
        /\ RowStored(its, q.intent, q.row)
        /\ q.row.wallet = q.wallet

ReqOK(q, rls, its, cons) ==
    /\ ServingOK(q)
    /\ ClaimOK(q, cons)
    /\ PersistedOK(q, rls)
    /\ FundingOK(q, its)
    /\ OfferOK(q, rls, its)

\* A row that nobody has submitted a signature for has none.
UnsubmittedOK ==
    \A i \in Intents : intents[i].status \in {"absent", "funding_required"}
                          => intents[i].fsig = NULL

FinalizeInv ==
    /\ FinalizeTypeOK
    /\ UnsubmittedOK
    /\ \A r \in Requests : ReqOK(reqs[r], rules, intents, consumed)
    /\ DraftConsumedOnce

-----------------------------------------------------------------------------
(* The tables only grow. *)

Grows ==
    /\ \A i \in Intents : rules[i].status # "absent" => rules'[i] = rules[i]
    /\ \A i \in Intents : intents[i].status # "absent" => RowStored(intents', i, intents[i])
    /\ \A d \in Drafts : consumed[d] # NULL => consumed'[d] = consumed[d]

LEMMA UnchangedGrows == UNCHANGED <<rules, intents, consumed>> => Grows
BY DEF Grows, RowStored

LEMMA ClaimGrows ==
    ASSUME NEW d, NEW hash,
           claim_draft(d, hash) \/ \E v \in Servers : ClaimError(v, d, hash),
           SidecarTypeOK, d \in Drafts, UNCHANGED mainDb
    PROVE  Grows
BY DEF Grows, RowStored, claim_draft, ClaimError, ClaimOutcome, SidecarTypeOK, mainDb

LEMMA RuleInsertGrows ==
    ASSUME NEW i \in Intents, NEW t, rule_insert(i, t), FinalizeTypeOK,
           UNCHANGED <<intents, consumed>>
    PROVE  Grows
BY DEF Grows, RowStored, rule_insert, HasRule, FinalizeTypeOK

LEMMA FundingInsertGrows ==
    ASSUME NEW i \in Intents, NEW w, NEW h, NEW e, insert(i, w, h, e), FinalizeTypeOK,
           UNCHANGED <<rules, consumed>>
    PROVE  Grows
BY DEF Grows, RowStored, insert, CanInsert, FinalizeTypeOK, FundingTypeOK

\* What a request that does not move knows stays true.
LEMMA Stays ==
    ASSUME Grows, NEW q \in Request, ReqOK(q, rules, intents, consumed)
    PROVE  ReqOK(q, rules', intents', consumed')
<1> USE DEF ReqOK, Grows
<1>1. ServingOK(q) /\ ClaimOK(q, consumed')
  BY DEF ClaimOK
<1>2. PersistedOK(q, rules')
  BY DEF PersistedOK, RuleStored, ServingOK, Steps
<1>3. FundingOK(q, intents')
  BY DEF FundingOK, RowStored, ServingOK, Steps
<1>4. OfferOK(q, rules', intents')
  BY DEF OfferOK, RuleStored, RowStored
<1> QED BY <1>1, <1>2, <1>3, <1>4

-----------------------------------------------------------------------------
(* A move of one request. *)

\* What OfferIsTimely says of the moment of an offer.
Timely(r) ==
    /\ now < intents[reqs[r].intent].expires
    /\ reqs[r].row.fsig = NULL

\* Where the request stands next: what it knows holds, and only a claim of an
\* unclaimed draft makes it a claimant.
MovesTo(r, q) ==
    /\ q \in Request
    /\ ReqOK(q, rules', intents', consumed')
    /\ q.claimed => \/ reqs[r].claimed /\ q.draft = reqs[r].draft
                    \/ consumed[q.draft] = NULL
    /\ q.answer = "actionable" => Timely(r)

Moves(r) == \E q : reqs' = [reqs EXCEPT ![r] = q] /\ MovesTo(r, q)

\* A move of one request keeps what is known of all.
LEMMA MoveKeeps ==
    ASSUME FinalizeInv, Grows, NEW r \in Requests, Moves(r)
    PROVE  /\ reqs' \in [Requests -> Request]
           /\ \A x \in Requests : ReqOK(reqs'[x], rules', intents', consumed')
           /\ DraftConsumedOnce'
           /\ \A x \in Requests : ~Offered(x) /\ Offered(x)' => Timely(x)
<1> PICK q : reqs' = [reqs EXCEPT ![r] = q] /\ MovesTo(r, q)
  BY DEF Moves
<1> USE DEF FinalizeInv, FinalizeTypeOK, MovesTo
<1>1. reqs' \in [Requests -> Request]
  OBVIOUS
<1>2. ASSUME NEW x \in Requests
      PROVE  ReqOK(reqs'[x], rules', intents', consumed')
  BY Stays
<1>3. ASSUME NEW x \in Requests, NEW y \in Requests, x # y,
             reqs'[x].claimed, reqs'[y].claimed
      PROVE  reqs'[x].draft # reqs'[y].draft
  BY <1>3 DEF DraftConsumedOnce, ReqOK, ClaimOK
<1>4. ASSUME NEW x \in Requests, ~Offered(x), Offered(x)'
      PROVE  Timely(x)
  BY <1>4 DEF Offered
<1> QED BY <1>1, <1>2, <1>3, <1>4 DEF DraftConsumedOnce

\* The handler's end, with anything but an offer, forgets all but the claim.
LEMMA EndMoves ==
    ASSUME FinalizeInv, Grows, NEW r \in Requests, NEW pc \in {"done", "lost"},
           NEW answer \in (Answers \ {"actionable"}) \cup {NULL}
    PROVE  MovesTo(r, Ended(reqs[r], pc, answer))
<1> DEFINE q == Ended(reqs[r], pc, answer)
<1>1. answer # "actionable"
  BY FinalizeNullAssumption DEF Answers
<1>2. q = [Idle EXCEPT !.pc = pc, !.answer = answer, !.claimed = reqs[r].claimed,
                       !.draft = IF reqs[r].claimed THEN reqs[r].draft ELSE NULL]
  BY <1>1 DEF Ended
<1>3. reqs[r] \in Request /\ ClaimOK(reqs[r], consumed)
  BY DEF FinalizeInv, FinalizeTypeOK, ReqOK
<1>4. NoRow \in Row
  BY DEF NoRow, Row
<1>5. q \in Request
  <2> DEFINE d == IF reqs[r].claimed THEN reqs[r].draft ELSE NULL
  <2>1. d \in Drafts \cup {NULL}
    BY <1>3 DEF ClaimOK
  <2>2. reqs[r].claimed \in BOOLEAN
    BY <1>3 DEF Request
  <2>3. q = [Idle EXCEPT !.pc = pc, !.answer = answer, !.claimed = reqs[r].claimed,
                         !.draft = d]
    BY <1>2
  <2> HIDE DEF d, q
  <2>4. Idle \in Request
    BY <1>4 DEF Idle, Request
  <2> QED BY <2>1, <2>2, <2>3, <2>4 DEF Request, Steps
<1>6. q.pc = pc /\ q.answer = answer /\ q.claimed = reqs[r].claimed
        /\ (q.claimed => q.draft = reqs[r].draft)
  BY <1>2, <1>3 DEF Request, Idle
<1> HIDE DEF q
<1>7. ReqOK(q, rules', intents', consumed')
  BY <1>1, <1>3, <1>6 DEF ReqOK, ServingOK, ClaimOK, PersistedOK, FundingOK, OfferOK,
                          Steps, Grows
<1>8. MovesTo(r, q)
  BY <1>1, <1>5, <1>6, <1>7 DEF MovesTo
<1> QED BY <1>8 DEF q

LEMMA AnswerMoves ==
    ASSUME FinalizeInv, Grows, NEW r \in Requests,
           NEW answer \in Answers \ {"actionable"}, Answer(r, answer)
    PROVE  Moves(r)
BY EndMoves DEF Moves, Answer

\* A request that goes on, with its parameters as they are.
GoesOn(q, r) ==
    /\ reqs[r].pc \in Steps /\ q.pc \in Steps
    /\ q.server = reqs[r].server /\ q.draft = reqs[r].draft /\ q.hash = reqs[r].hash
    /\ q.intent = reqs[r].intent /\ q.wallet = reqs[r].wallet
    /\ q.answer = reqs[r].answer

LEMMA AdvanceMoves ==
    ASSUME FinalizeInv, Grows, NEW r \in Requests, NEW q \in Request,
           reqs' = [reqs EXCEPT ![r] = q],
           GoesOn(q, r),
           q.claimed => reqs[r].claimed \/ consumed[q.draft] = NULL,
           ClaimOK(q, consumed'), PersistedOK(q, rules'), FundingOK(q, intents')
    PROVE  Moves(r)
<1>1. ServingOK(q) /\ q.answer = NULL
  BY DEF FinalizeInv, ReqOK, ServingOK, GoesOn
<1>2. q.answer # "actionable"
  BY <1>1, FinalizeNullAssumption DEF Answers
<1> QED BY <1>1, <1>2 DEF Moves, MovesTo, ReqOK, OfferOK, GoesOn

LEMMA IdleTyped == Idle \in Request
BY DEF Idle, Request, NoRow, Row

LEMMA CallMoves ==
    ASSUME FinalizeInv, NEW r \in Requests, Call(r)
    PROVE  Grows /\ Moves(r)
<1>1. UNCHANGED <<rules, intents, consumed>>
  BY DEF Call, mainDb, sidecarVars
<1>2. Grows
  BY <1>1, UnchangedGrows
<1>3. PICK v \in Servers, d \in Drafts, w \in Wallets, p \in DOMAIN Proposals,
           given \in DOMAIN Proposals :
         reqs' = [reqs EXCEPT ![r] =
             IF DraftIntents[p] = NULL \/ DraftHashes[p] # DraftHashes[given]
             THEN Ended(Idle, "done", "rejected")
             ELSE [Idle EXCEPT !.pc = "pool", !.server = v, !.draft = d,
                               !.hash = DraftHashes[p],
                               !.intent = derive_rule_id(DraftIntents[p]), !.wallet = w]]
  BY DEF Call
<1>4. CASE DraftIntents[p] = NULL \/ DraftHashes[p] # DraftHashes[given]
  <2> DEFINE q == Ended(Idle, "done", "rejected")
  <2>1. q = [Idle EXCEPT !.pc = "done", !.answer = "rejected", !.claimed = FALSE,
                         !.draft = NULL]
    BY DEF Ended, Idle
  <2>2. q \in Request /\ q.pc = "done" /\ q.answer = "rejected" /\ ~q.claimed
    BY <2>1, IdleTyped DEF Request, Answers
  <2>3. reqs' = [reqs EXCEPT ![r] = q]
    BY <1>3, <1>4
  <2> HIDE DEF q
  <2>4. MovesTo(r, q)
    BY <2>2 DEF MovesTo, ReqOK, ServingOK, ClaimOK, PersistedOK, FundingOK, OfferOK, Steps
  <2> QED BY <2>3, <2>4, <1>2 DEF Moves
<1>5. CASE ~(DraftIntents[p] = NULL \/ DraftHashes[p] # DraftHashes[given])
  <2> DEFINE i == derive_rule_id(DraftIntents[p])
             h == DraftHashes[p]
             q == [Idle EXCEPT !.pc = "pool", !.server = v, !.draft = d, !.hash = h,
                               !.intent = i, !.wallet = w]
  <2>1. i \in Intents /\ h \in Hashes
    BY <1>5, ProposalsAssumption
  <2>2. reqs' = [reqs EXCEPT ![r] = q]
    BY <1>3, <1>5
  <2> HIDE DEF i, h
  <2>3. /\ q \in Request /\ q.pc = "pool" /\ q.answer = NULL /\ ~q.claimed
        /\ ~q.persisted /\ q.server = v /\ q.draft = d /\ q.hash = h /\ q.intent = i
        /\ q.wallet = w
    BY <2>1, IdleTyped DEF Request, Steps, Idle
  <2> HIDE DEF q
  <2>4. MovesTo(r, q)
    BY <2>1, <2>3, FinalizeNullAssumption
    DEF MovesTo, ReqOK, ServingOK, ClaimOK, PersistedOK, FundingOK, OfferOK, Steps, Answers
  <2> QED BY <2>2, <2>4, <1>2 DEF Moves
<1> QED BY <1>4, <1>5

LEMMA ServingFacts ==
    ASSUME FinalizeInv, NEW r \in Requests
    PROVE  /\ reqs[r] \in Request
           /\ ReqOK(reqs[r], rules, intents, consumed)
           /\ FinalizeTypeOK
BY DEF FinalizeInv, FinalizeTypeOK

\* Answers that leave the tables alone.
LEMMA RefusalMoves ==
    ASSUME FinalizeInv, NEW r \in Requests, Reject(r) \/ NoPool(r)
    PROVE  Grows /\ Moves(r)
<1>1. Grows
  BY UnchangedGrows DEF Reject, NoPool, mainDb, sidecarVars
<1> QED BY <1>1, AnswerMoves DEF Reject, NoPool, Answers

LEMMA OpenMoves ==
    ASSUME FinalizeInv, NEW r \in Requests, Open(r)
    PROVE  Grows /\ Moves(r)
<1>1. Grows
  BY UnchangedGrows DEF Open, mainDb, sidecarRows
<1>2. reqs' = [reqs EXCEPT ![r] = reqs[r]]
  BY DEF Open, FinalizeInv, FinalizeTypeOK
<1>3. reqs[r].pc \in Steps
  BY DEF Open, At, Steps
<1>4. UNCHANGED <<rules, intents, consumed>>
  BY DEF Open, mainDb, sidecarRows
<1> QED BY <1>1, <1>2, <1>3, <1>4, ServingFacts, AdvanceMoves DEF ReqOK, GoesOn

LEMMA TakePoolMoves ==
    ASSUME FinalizeInv, NEW r \in Requests, TakePool(r)
    PROVE  Grows /\ Moves(r)
<1>1. UNCHANGED <<rules, intents, consumed>> /\ reqs[r].pc = "pool"
  BY DEF TakePool, mainDb, sidecarVars, At
<1>2. Grows
  BY <1>1, UnchangedGrows
<1> DEFINE q == [reqs[r] EXCEPT !.pc = "claim"]
<1>3. reqs' = [reqs EXCEPT ![r] = q]
  BY DEF TakePool, Goto
<1>4. q \in Request /\ GoesOn(q, r) /\ q.claimed = reqs[r].claimed
  BY <1>1, ServingFacts DEF Request, Steps, GoesOn
<1>5. ClaimOK(q, consumed') /\ PersistedOK(q, rules') /\ FundingOK(q, intents')
  BY <1>1, ServingFacts DEF ReqOK, ClaimOK, PersistedOK, FundingOK, Request, Steps
<1> HIDE DEF q
<1> QED BY <1>2, <1>3, <1>4, <1>5, AdvanceMoves

\* Only a draft that consumed_drafts does not have makes the request go on.
LEMMA ClaimMoves ==
    ASSUME FinalizeInv, NEW r \in Requests, Claim(r)
    PROVE  Grows /\ Moves(r)
<1> DEFINE d == reqs[r].draft
           h == reqs[r].hash
<1>1. reqs[r].pc = "claim" /\ reqs[r].pc \in Steps /\ d \in Drafts /\ h \in Hashes
  BY ServingFacts DEF Claim, At, ReqOK, ServingOK, Steps
<1>2. claim_draft(d, h) /\ UNCHANGED mainDb
  BY DEF Claim
<1>3. Grows
  BY <1>1, <1>2, ClaimGrows, ServingFacts DEF FinalizeTypeOK
<1>4. CASE ClaimOutcome(d, h) = "claimed"
  <2> DEFINE q == [reqs[r] EXCEPT !.pc = "market", !.claimed = TRUE]
  <2>1. reqs' = [reqs EXCEPT ![r] = q]
    BY <1>4 DEF Claim
  <2>2. consumed[d] = NULL /\ consumed'[d] # NULL
    BY <1>1, <1>2, <1>4, HashNullAssumption, ServingFacts
    DEF claim_draft, ClaimOutcome, FinalizeTypeOK, SidecarTypeOK
  <2>3. q \in Request /\ GoesOn(q, r)
    BY <1>1, ServingFacts DEF Request, Steps, GoesOn
  <2>4. ClaimOK(q, consumed') /\ PersistedOK(q, rules') /\ FundingOK(q, intents')
    BY <1>1, <1>2, <2>2, ServingFacts
    DEF ReqOK, ClaimOK, PersistedOK, FundingOK, Request, mainDb
  <2> HIDE DEF q
  <2> QED BY <1>3, <2>1, <2>2, <2>3, <2>4, AdvanceMoves DEF GoesOn
<1>5. CASE ClaimOutcome(d, h) # "claimed"
  <2>1. ClaimOutcome(d, h) \in Answers \ {"actionable"}
    BY <1>5 DEF ClaimOutcome, Answers
  <2> QED BY <1>3, <1>5, <2>1, AnswerMoves DEF Claim, Answer
<1> QED BY <1>4, <1>5

LEMMA ClaimFailsMoves ==
    ASSUME FinalizeInv, NEW r \in Requests, ClaimFails(r)
    PROVE  Grows /\ Moves(r)
<1>1. reqs[r].server \in Servers /\ reqs[r].draft \in Drafts
  BY ServingFacts DEF ClaimFails, At, ReqOK, ServingOK, Steps
<1>2. Grows
  BY <1>1, ClaimGrows, ServingFacts DEF ClaimFails, FinalizeTypeOK
<1> QED BY <1>2, AnswerMoves DEF ClaimFails, Answers

LEMMA FetchMarketMoves ==
    ASSUME FinalizeInv, NEW r \in Requests, FetchMarket(r)
    PROVE  Grows /\ Moves(r)
<1>1. UNCHANGED <<rules, intents, consumed>> /\ reqs[r].pc = "market"
  BY DEF FetchMarket, mainDb, sidecarVars, At
<1>2. Grows
  BY <1>1, UnchangedGrows
<1>3. PICK snapshot \in fetch_snapshot :
          IF snapshot = NULL THEN Answer(r, "market_data_error")
          ELSE reqs' = [reqs EXCEPT ![r].pc = "rule_insert", ![r].fresh = snapshot,
                                    ![r].created = snapshot]
  BY DEF FetchMarket
<1>4. CASE snapshot = NULL
  BY <1>2, <1>3, <1>4, AnswerMoves DEF Answers
<1>5. CASE snapshot # NULL
  <2> DEFINE q == [reqs[r] EXCEPT !.pc = "rule_insert", !.fresh = snapshot,
                                  !.created = snapshot]
  <2>1. snapshot \in Slots
    BY <1>5, ServingFacts
    DEF fetch_snapshot, fetch_confirmed_reserve_observation, FinalizeTypeOK
  <2>2. reqs' = [reqs EXCEPT ![r] = q]
    BY <1>3, <1>5
  <2>3. /\ q \in Request /\ GoesOn(q, r) /\ q.claimed = reqs[r].claimed
        /\ q.pc = "rule_insert" /\ q.persisted = reqs[r].persisted
    BY <1>1, <2>1, ServingFacts DEF Request, Steps, GoesOn
  <2> HIDE DEF q
  <2>4. ~q.persisted
    BY <1>1, <2>3, ServingFacts DEF ReqOK, PersistedOK
  <2>5. ClaimOK(q, consumed') /\ PersistedOK(q, rules') /\ FundingOK(q, intents')
    BY <1>1, <2>3, <2>4, ServingFacts
    DEF ReqOK, ClaimOK, PersistedOK, FundingOK, GoesOn
  <2> QED BY <1>2, <2>2, <2>3, <2>5, AdvanceMoves
<1> QED BY <1>4, <1>5

\* Written by this request or found: the rule it goes on with is stored.
LEMMA InsertRuleMoves ==
    ASSUME FinalizeInv, NEW r \in Requests, InsertRule(r)
    PROVE  Grows /\ Moves(r)
<1> DEFINE i == reqs[r].intent
<1>1. UNCHANGED <<intents, consumed>> /\ reqs[r].pc = "rule_insert" /\ i \in Intents
  BY ServingFacts DEF InsertRule, sidecarVars, At, ReqOK, ServingOK, Steps
<1>2. rule_insert(i, reqs[r].created) \/ UNCHANGED rules
  BY DEF InsertRule
<1>3. Grows
  BY <1>1, <1>2, RuleInsertGrows, UnchangedGrows, ServingFacts
<1>4. CASE /\ rule_insert(i, reqs[r].created)
           /\ reqs' = [reqs EXCEPT ![r].pc = "index_pool", ![r].persisted = TRUE]
  <2> DEFINE q == [reqs[r] EXCEPT !.pc = "index_pool", !.persisted = TRUE]
  <2>1. reqs' = [reqs EXCEPT ![r] = q]
    BY <1>4
  <2>2. /\ q \in Request /\ GoesOn(q, r) /\ q.claimed = reqs[r].claimed
        /\ q.pc = "index_pool" /\ q.persisted /\ q.created = reqs[r].created
    BY <1>1, ServingFacts DEF Request, Steps, GoesOn
  <2> HIDE DEF q
  <2>3. RuleStored(rules', i, q.created)
    BY <1>1, <1>4, <2>2, ServingFacts DEF rule_insert, RuleStored, FinalizeTypeOK
  <2>4. ClaimOK(q, consumed') /\ PersistedOK(q, rules') /\ FundingOK(q, intents')
    BY <1>1, <2>2, <2>3, ServingFacts
    DEF ReqOK, ClaimOK, PersistedOK, FundingOK, GoesOn
  <2> QED BY <1>3, <2>1, <2>2, <2>4, AdvanceMoves
<1>5. CASE Goto(r, "rule_read")
  <2> DEFINE q == [reqs[r] EXCEPT !.pc = "rule_read"]
  <2>1. reqs' = [reqs EXCEPT ![r] = q]
    BY <1>5 DEF Goto
  <2>2. /\ q \in Request /\ GoesOn(q, r) /\ q.claimed = reqs[r].claimed
        /\ q.pc = "rule_read" /\ q.persisted = reqs[r].persisted
    BY <1>1, ServingFacts DEF Request, Steps, GoesOn
  <2> HIDE DEF q
  <2>3. ClaimOK(q, consumed') /\ PersistedOK(q, rules') /\ FundingOK(q, intents')
    BY <1>1, <2>2, ServingFacts
    DEF ReqOK, ClaimOK, PersistedOK, FundingOK, GoesOn
  <2> QED BY <1>3, <2>1, <2>2, <2>3, AdvanceMoves
<1> QED BY <1>4, <1>5 DEF InsertRule

\* On the way to the funding write.
LEMMA GotoFundingMoves ==
    ASSUME FinalizeInv, NEW r \in Requests, NEW persisted \in BOOLEAN,
           UNCHANGED <<rules, intents, consumed>>, GotoFunding(r, persisted),
           reqs[r].pc \in {"rule_read", "index_pool", "index"},
           persisted => reqs[r].persisted
    PROVE  Grows /\ Moves(r)
<1> DEFINE t == now + Lifetime
           q == [reqs[r] EXCEPT !.pc = "funding_insert", !.persisted = persisted,
                                !.deadline = t]
<1>1. Grows
  BY UnchangedGrows
<1>2. reqs' = [reqs EXCEPT ![r] = q]
  BY DEF GotoFunding
<1>3. t \in Nat
  BY LifetimeAssumption, ServingFacts DEF FinalizeTypeOK, FundingTypeOK
<1> HIDE DEF t
<1>4. /\ q \in Request /\ GoesOn(q, r) /\ q.claimed = reqs[r].claimed
      /\ q.pc = "funding_insert" /\ q.persisted = persisted /\ q.created = reqs[r].created
  BY <1>3, ServingFacts DEF Request, Steps, GoesOn
<1> HIDE DEF q
<1>5. ClaimOK(q, consumed') /\ PersistedOK(q, rules') /\ FundingOK(q, intents')
  BY <1>4, ServingFacts
  DEF ReqOK, ClaimOK, PersistedOK, FundingOK, GoesOn, Steps
<1> QED BY <1>1, <1>2, <1>4, <1>5, AdvanceMoves

LEMMA ReadRuleMoves ==
    ASSUME FinalizeInv, NEW r \in Requests, ReadRule(r)
    PROVE  Grows /\ Moves(r)
<1> DEFINE i == reqs[r].intent
<1>1. UNCHANGED <<rules, intents, consumed>> /\ reqs[r].pc = "rule_read" /\ i \in Intents
  BY ServingFacts DEF ReadRule, mainDb, sidecarVars, At, ReqOK, ServingOK, Steps
<1>2. Grows
  BY <1>1, UnchangedGrows
<1>3. CASE GotoFunding(r, FALSE)
  BY <1>1, <1>3, GotoFundingMoves
<1>4. CASE Answer(r, "existing_rule_conflict")
  BY <1>2, <1>4, AnswerMoves DEF Answers
<1>5. CASE /\ HasRule(i) /\ rules[i].canonical
           /\ reqs' = [reqs EXCEPT ![r].pc = "index_pool", ![r].persisted = TRUE,
                                   ![r].created = rules[i].created]
  <2> DEFINE t == rules[i].created
             q == [reqs[r] EXCEPT !.pc = "index_pool", !.persisted = TRUE, !.created = t]
  <2>1. reqs' = [reqs EXCEPT ![r] = q]
    BY <1>5
  <2>2. t \in Slots \cup {NULL} /\ RuleStored(rules', i, t)
    BY <1>1, <1>5, ServingFacts DEF FinalizeTypeOK, RuleRow, RuleStored, HasRule
  <2> HIDE DEF t
  <2>3. /\ q \in Request /\ GoesOn(q, r) /\ q.claimed = reqs[r].claimed
        /\ q.pc = "index_pool" /\ q.persisted /\ q.created = t
    BY <1>1, <2>2, ServingFacts DEF Request, Steps, GoesOn
  <2> HIDE DEF q
  <2>4. ClaimOK(q, consumed') /\ PersistedOK(q, rules') /\ FundingOK(q, intents')
    BY <1>1, <2>2, <2>3, ServingFacts
    DEF ReqOK, ClaimOK, PersistedOK, FundingOK, GoesOn
  <2> QED BY <1>2, <2>1, <2>3, <2>4, AdvanceMoves
<1> QED BY <1>3, <1>4, <1>5 DEF ReadRule

LEMMA ReadyPoolMoves ==
    ASSUME FinalizeInv, NEW r \in Requests, ReadyPool(r)
    PROVE  Grows /\ Moves(r)
<1>1. UNCHANGED <<rules, intents, consumed>> /\ reqs[r].pc = "index_pool"
  BY DEF ReadyPool, mainDb, sidecarVars, At
<1>2. reqs[r].persisted
  BY <1>1, ServingFacts DEF ReqOK, PersistedOK
<1>3. CASE GotoFunding(r, TRUE)
  BY <1>1, <1>2, <1>3, GotoFundingMoves
<1>4. CASE Goto(r, "index")
  <2> DEFINE q == [reqs[r] EXCEPT !.pc = "index"]
  <2>1. reqs' = [reqs EXCEPT ![r] = q]
    BY <1>4 DEF Goto
  <2>2. /\ q \in Request /\ GoesOn(q, r) /\ q.claimed = reqs[r].claimed
        /\ q.pc = "index" /\ q.persisted = reqs[r].persisted /\ q.created = reqs[r].created
    BY <1>1, ServingFacts DEF Request, Steps, GoesOn
  <2> HIDE DEF q
  <2>3. ClaimOK(q, consumed') /\ PersistedOK(q, rules') /\ FundingOK(q, intents')
    BY <1>1, <1>2, <2>2, ServingFacts
    DEF ReqOK, ClaimOK, PersistedOK, FundingOK, GoesOn, Steps
  <2> QED BY <1>1, <2>1, <2>2, <2>3, AdvanceMoves, UnchangedGrows
<1> QED BY <1>3, <1>4 DEF ReadyPool

\* Whatever becomes of the index, which is only logged.
LEMMA IndexHashMoves ==
    ASSUME FinalizeInv, NEW r \in Requests, IndexHash(r)
    PROVE  Grows /\ Moves(r)
<1>1. UNCHANGED <<rules, intents, consumed>> /\ reqs[r].pc = "index"
  BY DEF IndexHash, mainDb, index_hash, IndexError, At
<1>2. reqs[r].persisted
  BY <1>1, ServingFacts DEF ReqOK, PersistedOK
<1> QED BY <1>1, <1>2, GotoFundingMoves DEF IndexHash

\* A row counts as this request's own only when the statement said so.
LEMMA InsertFundingMoves ==
    ASSUME FinalizeInv, NEW r \in Requests, InsertFunding(r)
    PROVE  Grows /\ Moves(r)
<1> DEFINE i == reqs[r].intent
           Inserted == insert(i, reqs[r].wallet, reqs[r].created, reqs[r].deadline)
<1>1. /\ UNCHANGED <<rules, consumed>> /\ reqs[r].pc = "funding_insert"
      /\ i \in Intents /\ reqs[r].wallet \in Wallets
  BY ServingFacts DEF InsertFunding, sidecarVars, At, ReqOK, ServingOK, Steps
<1>2. PICK reused \in BOOLEAN :
         /\ reqs' = [reqs EXCEPT ![r].pc = "funding_read", ![r].deadline = 0,
                                 ![r].reused = reused]
         /\ Inserted \/ UNCHANGED intents
         /\ ~reused => Inserted
  BY DEF InsertFunding
<1>3. Grows
  BY <1>1, <1>2, FundingInsertGrows, UnchangedGrows, ServingFacts
<1> DEFINE q == [reqs[r] EXCEPT !.pc = "funding_read", !.deadline = 0, !.reused = reused]
<1>4. reqs' = [reqs EXCEPT ![r] = q]
  BY <1>2
<1>5. /\ q \in Request /\ GoesOn(q, r) /\ q.claimed = reqs[r].claimed
      /\ q.pc = "funding_read" /\ q.persisted = reqs[r].persisted
      /\ q.created = reqs[r].created /\ q.reused = reused
  BY <1>1, ServingFacts DEF Request, Steps, GoesOn
<1> HIDE DEF q
<1>6. ~reused => intents'[i].status # "absent" /\ intents'[i].wallet = reqs[r].wallet
  BY <1>1, <1>2, ServingFacts DEF insert, FinalizeTypeOK, FundingTypeOK
<1>7. ClaimOK(q, consumed') /\ PersistedOK(q, rules') /\ FundingOK(q, intents')
  BY <1>1, <1>5, <1>6, ServingFacts
  DEF ReqOK, ClaimOK, PersistedOK, FundingOK, GoesOn, Steps
<1> QED BY <1>3, <1>4, <1>5, <1>7, AdvanceMoves

LEMMA ReadFundingMoves ==
    ASSUME FinalizeInv, NEW r \in Requests, ReadFunding(r)
    PROVE  Grows /\ Moves(r)
<1> DEFINE i == reqs[r].intent
           row == intents[i]
<1>1. UNCHANGED <<rules, intents, consumed>> /\ reqs[r].pc = "funding_read" /\ i \in Intents
  BY ServingFacts DEF ReadFunding, mainDb, sidecarVars, At, ReqOK, ServingOK, Steps
<1>2. Grows
  BY <1>1, UnchangedGrows
<1>3. CASE Answer(r, "internal_error")
  BY <1>2, <1>3, AnswerMoves DEF Answers
<1>4. CASE /\ row.status # "absent"
           /\ reqs' = [reqs EXCEPT ![r].pc = "respond", ![r].row = row]
  <2> DEFINE q == [reqs[r] EXCEPT !.pc = "respond", !.row = row]
  <2>1. reqs' = [reqs EXCEPT ![r] = q]
    BY <1>4
  <2>2. /\ row \in Row /\ RowStored(intents', i, row)
        /\ row.status = "funding_required" => row.fsig = NULL
    BY <1>1, <1>4, ServingFacts
    DEF FinalizeInv, FinalizeTypeOK, FundingTypeOK, RowStored, UnsubmittedOK
  <2> HIDE DEF row
  <2>3. /\ q \in Request /\ GoesOn(q, r) /\ q.claimed = reqs[r].claimed
        /\ q.pc = "respond" /\ q.persisted = reqs[r].persisted
        /\ q.created = reqs[r].created /\ q.reused = reqs[r].reused /\ q.row = row
    BY <1>1, <2>2, ServingFacts DEF Request, Steps, GoesOn
  <2> HIDE DEF q
  <2>4. ClaimOK(q, consumed') /\ PersistedOK(q, rules') /\ FundingOK(q, intents')
    BY <1>1, <2>2, <2>3, ServingFacts
    DEF ReqOK, ClaimOK, PersistedOK, FundingOK, GoesOn, Steps
  <2> QED BY <1>2, <2>1, <2>3, <2>4, AdvanceMoves
<1> QED BY <1>3, <1>4 DEF ReadFunding

\* The guards of the answer, applied to what the request knows of the tables,
\* are what makes an offer a backed one.
LEMMA RespondMoves ==
    ASSUME FinalizeInv, NEW r \in Requests, Respond(r)
    PROVE  Grows /\ Moves(r)
<1> DEFINE p == reqs[r]
           answer == FinalAnswer(p, now)
<1>1. UNCHANGED <<rules, intents, consumed>> /\ p.pc = "respond" /\ Answer(r, answer)
  BY DEF Respond, mainDb, sidecarVars, At
<1>2. Grows
  BY <1>1, UnchangedGrows
<1>3. answer \in Answers
  BY DEF FinalAnswer, Answers
<1>4. CASE answer # "actionable"
  BY <1>1, <1>2, <1>3, <1>4, AnswerMoves
<1>5. CASE answer = "actionable"
  <2>1. /\ p.persisted /\ p.row.hash = p.created
        /\ p.reused => p.row.wallet = p.wallet
        /\ p.row.status = "funding_required" /\ ~(p.row.expires <= now)
    BY <1>5 DEF FinalAnswer, unconfirmed_rule_guard, funding_row_matches_identity
  <2>2. /\ p.intent \in Intents /\ RuleStored(rules, p.intent, p.row.hash)
        /\ RowStored(intents, p.intent, p.row) /\ p.row.wallet = p.wallet
        /\ p.row.fsig = NULL
    BY <1>1, <2>1, ServingFacts
    DEF ReqOK, ServingOK, PersistedOK, FundingOK, RowStored, Steps
  <2>3. p \in Request /\ ClaimOK(p, consumed)
    BY ServingFacts DEF ReqOK
  <2> DEFINE d == IF p.claimed THEN p.draft ELSE NULL
             q1 == [Idle EXCEPT !.pc = "done", !.answer = "actionable",
                                !.claimed = p.claimed, !.draft = d]
             q == [q1 EXCEPT !.intent = p.intent, !.wallet = p.wallet, !.row = p.row]
  <2>4. reqs' = [reqs EXCEPT ![r] = q]
    <3>1. q = Ended(p, "done", "actionable")
      BY DEF Ended
    <3> QED BY <3>1, <1>1, <1>5 DEF Answer
  <2>5. d \in Drafts \cup {NULL} /\ (p.claimed => d = p.draft)
    BY <2>3 DEF ClaimOK
  <2> HIDE DEF d, p
  <2>6. /\ q \in Request /\ q.pc = "done" /\ q.answer = "actionable"
        /\ q.claimed = p.claimed /\ q.draft = d /\ q.intent = p.intent
        /\ q.wallet = p.wallet /\ q.row = p.row
    <3>1. /\ p.claimed \in BOOLEAN /\ p.intent \in Intents \cup {NULL}
          /\ p.wallet \in Wallets \cup {NULL} /\ p.row \in Row
      BY <2>3 DEF Request
    <3>2. q1 = [Idle EXCEPT !.pc = "done", !.answer = "actionable",
                            !.claimed = p.claimed, !.draft = d]
      OBVIOUS
    <3> HIDE DEF q1
    <3>3. q1 \in Request
      BY <3>1, <3>2, <2>5, IdleTyped DEF Request, Answers
    <3>4. q1.pc = "done" /\ q1.answer = "actionable" /\ q1.claimed = p.claimed /\ q1.draft = d
      BY <3>2, IdleTyped DEF Request
    <3> QED BY <3>1, <3>3, <3>4 DEF Request
  <2> HIDE DEF q
  <2>7. ReqOK(q, rules', intents', consumed')
    BY <1>1, <2>2, <2>3, <2>5, <2>6
    DEF ReqOK, ServingOK, ClaimOK, PersistedOK, FundingOK, OfferOK, Steps
  <2>8. Timely(r)
    <3>1. now \in Nat /\ p.row.expires \in Nat
      BY <2>3, ServingFacts DEF FinalizeTypeOK, FundingTypeOK, Request, Row
    <3>2. now < p.row.expires
      BY <3>1, <2>1
    <3> QED BY <3>2, <2>2 DEF Timely, RowStored, p
  <2>9. MovesTo(r, q)
    BY <2>5, <2>6, <2>7, <2>8 DEF MovesTo, p
  <2> QED BY <1>2, <2>4, <2>9 DEF Moves
<1> QED BY <1>4, <1>5

LEMMA RequestMoves ==
    ASSUME FinalizeInv, NEW r \in Requests, Call(r) \/ HandlerStep(r)
    PROVE  Grows /\ Moves(r)
BY CallMoves, RefusalMoves, OpenMoves, TakePoolMoves, ClaimMoves, ClaimFailsMoves,
   FetchMarketMoves, InsertRuleMoves, ReadRuleMoves, ReadyPoolMoves, IndexHashMoves,
   InsertFundingMoves, ReadFundingMoves, RespondMoves
DEF HandlerStep

-----------------------------------------------------------------------------
(* Types, and what is true of the tables alone. *)

TablesOK ==
    /\ FundingTypeOK
    /\ SidecarTypeOK
    /\ rules \in [Intents -> RuleRow]
    /\ slot \in Slots
    /\ crashes \in 0 .. MaxCrashes
    /\ UnsubmittedOK

\* The statements on the sidecar.
LEMMA OpeningTyped ==
    ASSUME SidecarTypeOK, NEW v \in Servers, UNCHANGED sidecarRows,
           SidecarOpening(v) \/ LookupFails(v) \/ SidecarCrash(v)
    PROVE  SidecarTypeOK'
BY DEF SidecarTypeOK, SidecarOpening, LookupFails, SidecarCrash, open_existing, BeginCreate,
       CreateFile, FinishCreate, mark_unavailable, SetConn, sidecarRows

LEMMA ClaimTyped ==
    ASSUME SidecarTypeOK, NEW v \in Servers, NEW d \in Drafts, NEW hash \in Hashes,
           claim_draft(d, hash) \/ ClaimError(v, d, hash)
    PROVE  SidecarTypeOK'
BY DEF SidecarTypeOK, claim_draft, ClaimError, mark_unavailable, SetConn

LEMMA IndexTyped ==
    ASSUME SidecarTypeOK, NEW v \in Servers, NEW d, NEW hash,
           NEW i \in Intents, NEW created \in Slots \cup {NULL},
           index_hash(v, d, hash, i, created) \/ IndexError(v, d, hash, i, created)
    PROVE  SidecarTypeOK'
BY DEF SidecarTypeOK, index_hash, IndexError, mark_unavailable, SetConn

\* The statements on the main database.
LEMMA RuleInsertTyped ==
    ASSUME rules \in [Intents -> RuleRow], NEW i \in Intents,
           NEW t \in Slots \cup {NULL}, rule_insert(i, t)
    PROVE  rules' \in [Intents -> RuleRow]
BY DEF rule_insert, RuleRow, RuleStatus

LEMMA FundingInsertTyped ==
    ASSUME FundingTypeOK, UnsubmittedOK, NEW i \in Intents, NEW w \in Wallets,
           NEW t \in Slots \cup {NULL}, NEW e \in Nat, insert(i, w, t, e), UNCHANGED now
    PROVE  FundingTypeOK' /\ UnsubmittedOK'
BY DEF FundingTypeOK, UnsubmittedOK, insert, Row, Status

LEMMA SubmittedTyped ==
    ASSUME FundingTypeOK, UnsubmittedOK, NEW i \in Intents, NEW sig \in Sigs,
           mark_funding_submitted_if_required(i, sig), UNCHANGED now
    PROVE  FundingTypeOK' /\ UnsubmittedOK' /\
           \A j \in Intents : intents[j].status # "absent" => RowStored(intents', j, intents[j])
<1> USE DEF FundingTypeOK, mark_funding_submitted_if_required, Row
<1>1. FundingTypeOK'
  <2>1. [intents[i] EXCEPT !.status = "funding_submitted", !.fsig = sig] \in Row
    BY DEF Status
  <2> QED BY <2>1
<1>2. UnsubmittedOK'
  BY DEF UnsubmittedOK
<1>3. \A j \in Intents : intents[j].status # "absent" => RowStored(intents', j, intents[j])
  BY DEF RowStored
<1> QED BY <1>1, <1>2, <1>3

LEMMA TablesUnchanged ==
    TablesOK /\ UNCHANGED <<mainDb, clocks, sidecarVars, crashes>> => TablesOK'
BY DEF TablesOK, mainDb, clocks, sidecarVars, FundingTypeOK, SidecarTypeOK, UnsubmittedOK

LEMMA RequestKeepsTables ==
    ASSUME FinalizeInv, NEW r \in Requests, Call(r) \/ HandlerStep(r)
    PROVE  TablesOK'
<1> DEFINE p == reqs[r]
<1>1. TablesOK /\ p \in Request /\ ServingOK(p)
  BY DEF FinalizeInv, FinalizeTypeOK, TablesOK, ReqOK
<1>2. p.pc \in Steps => /\ p.server \in Servers /\ p.draft \in Drafts /\ p.hash \in Hashes
                        /\ p.intent \in Intents /\ p.wallet \in Wallets
  BY <1>1 DEF ServingOK
<1>3. p.created \in Slots \cup {NULL} /\ p.deadline \in Nat
  BY <1>1 DEF Request
<1>4. CASE \/ Call(r) \/ Reject(r) \/ TakePool(r) \/ NoPool(r) \/ FetchMarket(r)
           \/ ReadRule(r) \/ ReadyPool(r) \/ ReadFunding(r) \/ Respond(r)
  <2>1. UNCHANGED <<mainDb, clocks, sidecarVars, crashes>>
    BY <1>4 DEF Call, Reject, TakePool, NoPool, FetchMarket, ReadRule, ReadyPool,
                ReadFunding, Respond
  <2> QED BY <1>1, <2>1, TablesUnchanged
<1>5. CASE Open(r)
  <2>1. SidecarTypeOK'
    BY <1>1, <1>2, <1>5, OpeningTyped DEF Open, At, Steps, TablesOK
  <2> QED BY <1>1, <1>5, <2>1 DEF Open, TablesOK, mainDb, clocks, FundingTypeOK, UnsubmittedOK
<1>6. CASE Claim(r) \/ ClaimFails(r)
  <2>1. SidecarTypeOK'
    BY <1>1, <1>2, <1>6, ClaimTyped DEF Claim, ClaimFails, At, Steps, TablesOK
  <2> QED BY <1>1, <1>6, <2>1
          DEF Claim, ClaimFails, TablesOK, mainDb, clocks, FundingTypeOK, UnsubmittedOK
<1>7. CASE IndexHash(r)
  <2>1. SidecarTypeOK'
    BY <1>1, <1>2, <1>3, <1>7, IndexTyped DEF IndexHash, At, Steps, TablesOK
  <2> QED BY <1>1, <1>7, <2>1 DEF IndexHash, TablesOK, mainDb, clocks, FundingTypeOK, UnsubmittedOK
<1>8. CASE InsertRule(r)
  <2>1. p.intent \in Intents
    BY <1>2, <1>8 DEF InsertRule, At, Steps
  <2>2. rule_insert(p.intent, p.created) \/ UNCHANGED rules
    BY <1>8 DEF InsertRule
  <2>3. rules' \in [Intents -> RuleRow]
    BY <1>1, <1>3, <2>1, <2>2, RuleInsertTyped DEF TablesOK
  <2> QED BY <1>1, <1>8, <2>3
          DEF InsertRule, TablesOK, clocks, sidecarVars, FundingTypeOK, SidecarTypeOK, UnsubmittedOK
<1>9. CASE InsertFunding(r)
  <2>1. p.intent \in Intents /\ p.wallet \in Wallets
    BY <1>2, <1>9 DEF InsertFunding, At, Steps
  <2>2. insert(p.intent, p.wallet, p.created, p.deadline) \/ UNCHANGED intents
    BY <1>9 DEF InsertFunding
  <2>3. UNCHANGED <<rules, slot, now, sidecarVars, crashes>>
    BY <1>9 DEF InsertFunding, clocks
  <2>4. FundingTypeOK' /\ UnsubmittedOK'
    BY <1>1, <1>3, <2>1, <2>2, <2>3, FundingInsertTyped
    DEF TablesOK, FundingTypeOK, UnsubmittedOK
  <2> QED BY <1>1, <2>3, <2>4 DEF TablesOK, sidecarVars, SidecarTypeOK
<1> QED BY <1>4, <1>5, <1>6, <1>7, <1>8, <1>9 DEF HandlerStep

\* A server's crash ends its requests; the tables stay.
LEMMA CrashKeeps ==
    ASSUME FinalizeInv, NEW v \in Servers, Crash(v)
    PROVE  /\ FinalizeInv'
           /\ \A x \in Requests : ~Offered(x) /\ Offered(x)' => Timely(x)
<1>1. UNCHANGED <<rules, intents, consumed, hashIndex, now, slot>>
  BY DEF Crash, mainDb, clocks, sidecarRows
<1>2. Grows
  BY <1>1, UnchangedGrows
<1>3. ASSUME NEW x \in Requests
      PROVE  /\ reqs'[x] \in Request
             /\ ReqOK(reqs'[x], rules', intents', consumed')
             /\ reqs'[x].claimed => reqs[x].claimed /\ reqs'[x].draft = reqs[x].draft
             /\ ~Offered(x) => ~Offered(x)'
  <2>1. CASE reqs[x].server = v /\ reqs[x].pc \in Steps
    <3> DEFINE q == Ended(reqs[x], "lost", NULL)
    <3>1. reqs'[x] = q
      BY <2>1 DEF Crash
    <3>2. MovesTo(x, q)
      BY <1>2, EndMoves
    <3>3. NULL # "actionable"
      BY FinalizeNullAssumption DEF Answers
    <3>4. /\ q.claimed => reqs[x].claimed /\ q.draft = reqs[x].draft
          /\ q.answer = NULL
      BY <3>3, ServingFacts DEF Ended, Idle, Request
    <3> HIDE DEF q
    <3> QED BY <3>1, <3>2, <3>3, <3>4 DEF MovesTo, Offered
  <2>2. CASE ~(reqs[x].server = v /\ reqs[x].pc \in Steps)
    <3>1. reqs'[x] = reqs[x]
      BY <2>2 DEF Crash
    <3> QED BY <1>2, <3>1, ServingFacts, Stays DEF Offered
  <2> QED BY <2>1, <2>2
<1>4. reqs' \in [Requests -> Request]
  BY <1>3 DEF Crash
<1>5. DraftConsumedOnce'
  BY <1>3 DEF DraftConsumedOnce, FinalizeInv
<1>6. SidecarTypeOK'
  BY OpeningTyped DEF Crash, FinalizeInv, FinalizeTypeOK
<1>7. crashes' \in 0 .. MaxCrashes
  BY MaxCrashesAssumption DEF Crash, FinalizeInv, FinalizeTypeOK
<1>8. FinalizeTypeOK'
  BY <1>1, <1>4, <1>6, <1>7 DEF FinalizeInv, FinalizeTypeOK, FundingTypeOK
<1>9. UnsubmittedOK'
  BY <1>1 DEF FinalizeInv, UnsubmittedOK
<1> QED BY <1>3, <1>5, <1>8, <1>9 DEF FinalizeInv

\* A step that no request takes.
LEMMA OthersKeep ==
    ASSUME FinalizeInv, Grows, TablesOK', UNCHANGED reqs
    PROVE  /\ FinalizeInv'
           /\ \A x \in Requests : ~Offered(x) /\ Offered(x)' => Timely(x)
<1>1. ASSUME NEW x \in Requests
      PROVE  ReqOK(reqs'[x], rules', intents', consumed')
  BY ServingFacts, Stays
<1>2. FinalizeTypeOK' /\ UnsubmittedOK'
  BY DEF FinalizeInv, FinalizeTypeOK, TablesOK
<1> QED BY <1>1, <1>2 DEF FinalizeInv, DraftConsumedOnce, Offered

LEMMA EnvironmentKeeps ==
    ASSUME FinalizeInv,
           \/ ClockTicks \/ SlotPasses
           \/ \E i \in Intents : IntentAdvances(i)
           \/ \E v \in Servers : StatusLookup(v)
           \/ UNCHANGED finalizeVars
    PROVE  Grows /\ TablesOK' /\ UNCHANGED reqs
<1> TablesOK
  BY DEF FinalizeInv, FinalizeTypeOK, TablesOK
<1>1. CASE ClockTicks \/ SlotPasses \/ UNCHANGED finalizeVars
  <2>1. UNCHANGED <<rules, intents, sidecarVars, crashes, reqs>>
    BY <1>1 DEF ClockTicks, SlotPasses, Tick, mainDb, finalizeVars, sidecarVars
  <2>2. now' \in Nat /\ slot' \in Slots
    BY <1>1 DEF ClockTicks, SlotPasses, Tick, NextSlot, mainDb, finalizeVars, TablesOK,
                FundingTypeOK
  <2> QED BY <2>1, <2>2, UnchangedGrows
          DEF TablesOK, FundingTypeOK, SidecarTypeOK, UnsubmittedOK, sidecarVars
<1>2. ASSUME NEW i \in Intents, IntentAdvances(i)
      PROVE  Grows /\ TablesOK' /\ UNCHANGED reqs
  <2>1. UNCHANGED <<rules, now, slot, file, conn, consumed, hashIndex, crashes, reqs>>
    BY <1>2 DEF IntentAdvances, clocks, sidecarVars
  <2>2. PICK sig \in Sigs : mark_funding_submitted_if_required(i, sig)
    BY <1>2 DEF IntentAdvances
  <2> QED BY <2>1, <2>2, SubmittedTyped DEF Grows, TablesOK, SidecarTypeOK
<1>3. ASSUME NEW v \in Servers, StatusLookup(v)
      PROVE  Grows /\ TablesOK' /\ UNCHANGED reqs
  <2>1. UNCHANGED <<rules, intents, now, slot, consumed, hashIndex, crashes, reqs>>
    BY <1>3 DEF StatusLookup, mainDb, clocks, sidecarRows
  <2>2. SidecarTypeOK'
    BY <1>3, OpeningTyped DEF StatusLookup, SidecarOpening, TablesOK
  <2> QED BY <2>1, <2>2, UnchangedGrows DEF TablesOK, FundingTypeOK, UnsubmittedOK
<1> QED BY <1>1, <1>2, <1>3

LEMMA StepKeeps ==
    ASSUME FinalizeInv, [FinalizeNext]_finalizeVars
    PROVE  /\ FinalizeInv'
           /\ \A x \in Requests : ~Offered(x) /\ Offered(x)' => Timely(x)
<1>1. ASSUME NEW r \in Requests, Call(r) \/ HandlerStep(r)
      PROVE  /\ FinalizeInv'
             /\ \A x \in Requests : ~Offered(x) /\ Offered(x)' => Timely(x)
  <2>1. Grows /\ Moves(r) /\ TablesOK'
    BY <1>1, RequestMoves, RequestKeepsTables
  <2> QED BY <2>1, MoveKeeps DEF FinalizeInv, FinalizeTypeOK, TablesOK
<1> QED BY <1>1, CrashKeeps, OthersKeep, EnvironmentKeeps DEF FinalizeNext

LEMMA FinalizeInitInv == FinalizeInit => FinalizeInv
<1> SUFFICES ASSUME FinalizeInit PROVE FinalizeInv
  OBVIOUS
<1> USE DEF FinalizeInit
<1>1. FundingTypeOK /\ UnsubmittedOK
  BY DEF FundingInit, FundingTypeOK, UnsubmittedOK, NoRow, Row
<1>2. SidecarTypeOK
  BY DEF SidecarInit, SidecarTypeOK
<1>3. rules \in [Intents -> RuleRow]
  BY FinalizeStartAssumption DEF LegacyRule, NoRule, RuleRow, RuleStatus
<1>4. FinalizeTypeOK
  BY <1>1, <1>2, <1>3, IdleTyped, FinalizeStartAssumption, MaxCrashesAssumption
  DEF FinalizeTypeOK
<1>5. ASSUME NEW r \in Requests
      PROVE  ReqOK(reqs[r], rules, intents, consumed)
  BY FinalizeNullAssumption
  DEF ReqOK, ServingOK, ClaimOK, PersistedOK, FundingOK, OfferOK, Idle, Steps, Answers
<1>6. DraftConsumedOnce
  BY DEF DraftConsumedOnce, Idle
<1> QED BY <1>1, <1>4, <1>5, <1>6 DEF FinalizeInv

-----------------------------------------------------------------------------
(* The theorems. *)

\* The inductive invariant holds in every reachable state.
THEOREM FinalizeInvAlways == FinalizeSpec => []FinalizeInv
<1>1. FinalizeInv /\ [FinalizeNext]_finalizeVars => FinalizeInv'
  BY StepKeeps
<1> QED BY <1>1, FinalizeInitInv, PTL DEF FinalizeSpec

\* Rows, requests and connections keep their types, whatever fails.
THEOREM FinalizeTypes == FinalizeSpec => []FinalizeTypeOK
<1>1. FinalizeInv => FinalizeTypeOK
  BY DEF FinalizeInv
<1> QED BY <1>1, FinalizeInvAlways, PTL

\* No two requests get past the claim of the same draft (claim_draft), on
\* however many servers and after however many crashes.
THEOREM DraftConsumedOnceAlways == FinalizeSpec => []DraftConsumedOnce
<1>1. FinalizeInv => DraftConsumedOnce
  BY DEF FinalizeInv
<1> QED BY <1>1, FinalizeInvAlways, PTL

\* Funding instructions that went out stay backed: the caller's wallet, the
\* stored rule and the deadline of the stored row.
THEOREM OfferIsBackedAlways == FinalizeSpec => []OfferIsBacked
<1>1. FinalizeInv => OfferIsBacked
  <2> SUFFICES ASSUME FinalizeInv, NEW r \in Requests, Offered(r)
               PROVE  /\ RuleStored(rules, reqs[r].intent, intents[reqs[r].intent].hash)
                      /\ intents[reqs[r].intent].wallet = reqs[r].wallet
                      /\ intents[reqs[r].intent].expires = reqs[r].row.expires
    BY DEF OfferIsBacked, RuleStored
  <2>1. OfferOK(reqs[r], rules, intents) /\ reqs[r].answer = "actionable"
    BY DEF FinalizeInv, ReqOK, Offered
  <2> QED BY <2>1 DEF OfferOK, RowStored
<1> QED BY <1>1, FinalizeInvAlways, PTL

\* No deadline that has passed and no intent with a recorded signature is
\* handed out, although the row was read before the clock.
THEOREM OfferIsTimelyAlways == FinalizeSpec => OfferIsTimely
<1>1. FinalizeInv /\ [FinalizeNext]_finalizeVars =>
        [\A r \in Requests : ~Offered(r) /\ Offered(r)' =>
            /\ now < intents[reqs[r].intent].expires
            /\ reqs[r].row.fsig = NULL]_finalizeVars
  BY StepKeeps DEF Timely
<1> QED BY <1>1, FinalizeInvAlways, PTL DEF FinalizeSpec, OfferIsTimely

-----------------------------------------------------------------------------
(* The sidecar. *)

\* Indexing binds an intent that had no hash, or binds it to the same again.
LEMMA IndexAppends ==
    ASSUME SidecarTypeOK, NEW v, NEW d, NEW hash, NEW i \in Intents, NEW created,
           index_hash(v, d, hash, i, created) \/ IndexError(v, d, hash, i, created)
    PROVE  \A j \in Intents : hashIndex[j] # NULL => hashIndex'[j] = hashIndex[j]
BY DEF SidecarTypeOK, index_hash, IndexError, CanIndex

LEMMA StepAppends ==
    ASSUME FinalizeInv, FinalizeNext
    PROVE  /\ \A d \in Drafts : consumed[d] # NULL => consumed'[d] = consumed[d]
           /\ \A i \in Intents : hashIndex[i] # NULL => hashIndex'[i] = hashIndex[i]
<1>1. CASE ClockTicks \/ SlotPasses \/ \E i \in Intents : IntentAdvances(i)
  BY <1>1 DEF ClockTicks, SlotPasses, IntentAdvances, sidecarVars
<1>2. CASE \E v \in Servers : Crash(v) \/ StatusLookup(v)
  BY <1>2 DEF Crash, StatusLookup, sidecarRows
<1>3. ASSUME NEW r \in Requests, Call(r) \/ HandlerStep(r)
      PROVE  /\ \A d \in Drafts : consumed[d] # NULL => consumed'[d] = consumed[d]
             /\ \A i \in Intents : hashIndex[i] # NULL => hashIndex'[i] = hashIndex[i]
  <2>1. \A d \in Drafts : consumed[d] # NULL => consumed'[d] = consumed[d]
    BY <1>3, RequestMoves DEF Grows
  <2>2. CASE IndexHash(r)
    <3>1. reqs[r].intent \in Intents /\ SidecarTypeOK
      BY <2>2, ServingFacts DEF IndexHash, At, ReqOK, ServingOK, Steps, FinalizeTypeOK
    <3> QED BY <2>1, <2>2, <3>1, IndexAppends DEF IndexHash
  <2>3. CASE ~IndexHash(r)
    <3>1. UNCHANGED hashIndex
      BY <1>3, <2>3
      DEF Call, HandlerStep, Reject, Open, TakePool, NoPool, Claim, ClaimFails, FetchMarket,
          InsertRule, ReadRule, ReadyPool, InsertFunding, ReadFunding, Respond, claim_draft,
          ClaimError, sidecarVars, sidecarRows
    <3> QED BY <2>1, <3>1
  <2> QED BY <2>2, <2>3
<1> QED BY <1>1, <1>2, <1>3 DEF FinalizeNext

\* consumed_drafts keeps its tombstones and canonical_hash_index its bindings,
\* whichever process writes next and whatever was lost in a crash.
THEOREM SidecarIsAppendOnlyAlways == FinalizeSpec => SidecarIsAppendOnly
<1>1. FinalizeInv /\ [FinalizeNext]_finalizeVars =>
        [/\ \A d \in Drafts : consumed[d] # NULL => consumed'[d] = consumed[d]
         /\ \A i \in Intents : hashIndex[i] # NULL => hashIndex'[i] = hashIndex[i]
        ]_sidecarVars
  <2> SUFFICES ASSUME FinalizeInv, FinalizeNext \/ UNCHANGED finalizeVars
               PROVE  \/ /\ \A d \in Drafts : consumed[d] # NULL => consumed'[d] = consumed[d]
                         /\ \A i \in Intents : hashIndex[i] # NULL
                                                   => hashIndex'[i] = hashIndex[i]
                      \/ UNCHANGED sidecarVars
    OBVIOUS
  <2> QED BY StepAppends DEF finalizeVars, sidecarVars
<1> QED BY <1>1, FinalizeInvAlways, PTL DEF FinalizeSpec, SidecarIsAppendOnly

-----------------------------------------------------------------------------
(* finalize_intent as a caller of the table. *)

\* Where the rule's slot is known, and the arguments of the funding write.
Building == {"rule_insert", "rule_read", "index_pool", "index", "funding_insert"}

ArgsOK(q, t) ==
    /\ q.pc \in Building => q.created \in Slots
    /\ q.pc = "funding_insert" => \E x \in 0 .. t : q.deadline = x + Lifetime

RulesDated(rls) == \A i \in Intents : rls[i].status # "absent" => rls[i].created \in Slots

CallerInv ==
    /\ RulesDated(rules)
    /\ \A r \in Requests : ArgsOK(reqs[r], now)

\* A handler that has ended writes nothing more.
LEMMA EndedArgs ==
    ASSUME NEW q, NEW pc \in {"done", "lost"}, NEW answer, NEW t
    PROVE  ArgsOK(Ended(q, pc, answer), t)
<1>1. Ended(q, pc, answer).pc = pc
  BY DEF Ended, Idle
<1> QED BY <1>1 DEF ArgsOK, Building

\* Clock samples stay in the past.
LEMMA ArgsStay ==
    ASSUME NEW q, NEW t \in Nat, NEW u \in Nat, t <= u, ArgsOK(q, t)
    PROVE  ArgsOK(q, u)
<1>1. \A x \in 0 .. t : x \in 0 .. u
  OBVIOUS
<1> QED BY <1>1 DEF ArgsOK

\* The request that takes a step has its arguments, and the others keep theirs.
LEMMA RequestArgs ==
    ASSUME FinalizeInv, CallerInv, NEW r \in Requests, Call(r) \/ HandlerStep(r)
    PROVE  ArgsOK(reqs'[r], now) /\ now' = now
<1> DEFINE Goal == ArgsOK(reqs'[r], now) /\ now' = now
<1>0. /\ reqs \in [Requests -> Request] /\ now \in Nat /\ slot \in Slots
      /\ reqs[r] \in Request /\ ArgsOK(reqs[r], now) /\ ServingOK(reqs[r])
  BY DEF FinalizeInv, FinalizeTypeOK, FundingTypeOK, CallerInv, ReqOK
<1>1. ASSUME NEW answer, Answer(r, answer)
      PROVE  ArgsOK(reqs'[r], now)
  BY <1>0, <1>1, EndedArgs DEF Answer
<1>2. ASSUME NEW pc, Goto(r, pc), pc \notin Building
      PROVE  ArgsOK(reqs'[r], now)
  BY <1>0, <1>2 DEF Goto, ArgsOK, Building, Request
<1>3. ASSUME NEW pc \in {"rule_read", "index"}, Goto(r, pc), reqs[r].pc \in Building
      PROVE  ArgsOK(reqs'[r], now)
  BY <1>0, <1>3 DEF Goto, ArgsOK, Building, Request
<1>4. ASSUME NEW persisted, GotoFunding(r, persisted), reqs[r].pc \in Building
      PROVE  ArgsOK(reqs'[r], now)
  <2>1. /\ reqs'[r].created = reqs[r].created /\ reqs'[r].deadline = now + Lifetime
    BY <1>0, <1>4 DEF GotoFunding, Request
  <2>2. now \in 0 .. now
    BY <1>0
  <2> QED BY <1>0, <1>4, <2>1, <2>2 DEF ArgsOK, Building
<1>5. ASSUME Call(r)
      PROVE  Goal
  <2>1. PICK v \in Servers, d \in Drafts, w \in Wallets, p \in DOMAIN Proposals,
             given \in DOMAIN Proposals :
          LET draft == DraftIntents[p]
          IN  reqs' = [reqs EXCEPT ![r] =
                 IF draft = NULL \/ DraftHashes[p] # DraftHashes[given]
                 THEN Ended(Idle, "done", "rejected")
                 ELSE [Idle EXCEPT !.pc = "pool", !.server = v, !.draft = d,
                                   !.hash = DraftHashes[p],
                                   !.intent = derive_rule_id(draft), !.wallet = w]]
    BY <1>5 DEF Call
  <2>2. \/ reqs'[r] = Ended(Idle, "done", "rejected")
        \/ reqs'[r] = [Idle EXCEPT !.pc = "pool", !.server = v, !.draft = d,
                                   !.hash = DraftHashes[p],
                                   !.intent = derive_rule_id(DraftIntents[p]), !.wallet = w]
    BY <1>0, <2>1
  <2>3. \/ reqs'[r] = Ended(Idle, "done", "rejected")
        \/ reqs'[r].pc = "pool"
    BY <2>2 DEF Idle
  <2>4. reqs'[r].pc = "pool" => ArgsOK(reqs'[r], now)
    BY DEF ArgsOK, Building
  <2>5. ArgsOK(Ended(Idle, "done", "rejected"), now)
    BY EndedArgs
  <2>6. ArgsOK(reqs'[r], now)
    BY <2>3, <2>4, <2>5
  <2> QED BY <1>5, <2>6 DEF Call, clocks
<1>6. CASE Reject(r) \/ NoPool(r) \/ ClaimFails(r) \/ Respond(r)
  BY <1>1, <1>6 DEF Reject, NoPool, ClaimFails, Respond, clocks
<1>7. CASE Open(r)
  BY <1>0, <1>7 DEF Open, clocks
<1>8. CASE TakePool(r)
  BY <1>2, <1>8 DEF TakePool, clocks, Building
<1>9. CASE Claim(r)
  <2>1. CASE reqs' = [reqs EXCEPT ![r].pc = "market", ![r].claimed = TRUE]
    <3>1. reqs'[r].pc = "market"
      BY <1>0, <2>1 DEF Request
    <3> QED BY <1>9, <3>1 DEF Claim, clocks, ArgsOK, Building
  <2>2. ASSUME NEW answer, reqs' = [reqs EXCEPT ![r] = Ended(reqs[r], "done", answer)]
        PROVE  Goal
    BY <1>1, <1>9, <2>2 DEF Answer, Claim, clocks
  <2> QED BY <1>9, <2>1, <2>2 DEF Claim
<1>10. CASE FetchMarket(r)
  <2>1. CASE Answer(r, "market_data_error")
    BY <1>1, <1>10, <2>1 DEF FetchMarket, clocks
  <2>2. ASSUME NEW t \in Slots,
               reqs' = [reqs EXCEPT ![r].pc = "rule_insert", ![r].fresh = t, ![r].created = t]
        PROVE  Goal
    <3>1. reqs'[r].pc = "rule_insert" /\ reqs'[r].created = t
      BY <1>0, <2>2 DEF Request
    <3> QED BY <1>10, <3>1 DEF FetchMarket, clocks, ArgsOK
  <2>3. fetch_snapshot \subseteq Slots \cup {NULL}
    BY <1>0 DEF fetch_snapshot, fetch_confirmed_reserve_observation
  <2> QED BY <1>10, <2>1, <2>2, <2>3 DEF FetchMarket
<1>11. CASE InsertRule(r)
  <2>1. CASE reqs' = [reqs EXCEPT ![r].pc = "index_pool", ![r].persisted = TRUE]
    <3>1. reqs'[r].pc = "index_pool" /\ reqs'[r].created = reqs[r].created
      BY <1>0, <2>1 DEF Request
    <3> QED BY <1>0, <1>11, <3>1 DEF InsertRule, At, clocks, ArgsOK, Building
  <2> QED BY <1>3, <1>11, <2>1 DEF InsertRule, At, clocks, Building
<1>12. CASE ReadRule(r)
  <2> DEFINE i == reqs[r].intent
  <2>1. i \in Intents
    BY <1>0, <1>12 DEF ReadRule, At, ServingOK, Steps
  <2>2. CASE /\ HasRule(i)
             /\ reqs' = [reqs EXCEPT ![r].pc = "index_pool", ![r].persisted = TRUE,
                                     ![r].created = rules[i].created]
    <3>1. rules[i].created \in Slots
      BY <2>1, <2>2 DEF CallerInv, RulesDated, HasRule
    <3> DEFINE t == rules[i].created
    <3>2. reqs'[r].pc = "index_pool" /\ reqs'[r].created = t
      BY <1>0, <2>2 DEF Request
    <3> QED BY <1>12, <3>1, <3>2 DEF ReadRule, clocks, ArgsOK
  <2> QED BY <1>1, <1>4, <1>12, <2>2 DEF ReadRule, At, clocks, Building
<1>13. CASE ReadyPool(r)
  BY <1>3, <1>4, <1>13 DEF ReadyPool, At, clocks, Building
<1>14. CASE IndexHash(r)
  BY <1>4, <1>14 DEF IndexHash, At, clocks, Building
<1>15. CASE InsertFunding(r)
  <2>1. reqs'[r].pc = "funding_read"
    BY <1>0, <1>15 DEF InsertFunding, Request
  <2> QED BY <1>15, <2>1 DEF InsertFunding, clocks, ArgsOK, Building
<1>16. CASE ReadFunding(r)
  <2>1. ASSUME NEW row, reqs' = [reqs EXCEPT ![r].pc = "respond", ![r].row = row]
        PROVE  ArgsOK(reqs'[r], now)
    <3>1. reqs'[r].pc = "respond"
      BY <1>0, <2>1 DEF Request
    <3> QED BY <3>1 DEF ArgsOK, Building
  <2> QED BY <1>1, <1>16, <2>1 DEF ReadFunding, clocks
<1> QED
  BY <1>5, <1>6, <1>7, <1>8, <1>9, <1>10, <1>11, <1>12, <1>13, <1>14, <1>15, <1>16
  DEF HandlerStep

\* Rules are inserted with the slot of a snapshot.
LEMMA RulesStayDated ==
    ASSUME FinalizeInv, CallerInv, [FinalizeNext]_finalizeVars
    PROVE  RulesDated(rules')
<1>1. CASE UNCHANGED rules
  BY <1>1 DEF CallerInv
<1>2. ASSUME NEW r \in Requests, InsertRule(r)
      PROVE  RulesDated(rules')
  <2>1. reqs[r].intent \in Intents /\ reqs[r].created \in Slots
    BY <1>2 DEF InsertRule, At, FinalizeInv, ReqOK, ServingOK, Steps, CallerInv, ArgsOK,
                Building
  <2>2. rules \in [Intents -> RuleRow]
    BY DEF FinalizeInv, FinalizeTypeOK
  <2>3. CASE rule_insert(reqs[r].intent, reqs[r].created)
    BY <2>1, <2>2, <2>3 DEF rule_insert, CallerInv, RulesDated
  <2> QED BY <1>1, <1>2, <2>3 DEF InsertRule
<1>3. ASSUME NEW r \in Requests, Call(r) \/ HandlerStep(r), ~InsertRule(r)
      PROVE  UNCHANGED rules
  BY <1>3 DEF Call, HandlerStep, Reject, Open, TakePool, NoPool, Claim, ClaimFails,
              FetchMarket, ReadRule, ReadyPool, IndexHash, InsertFunding, ReadFunding,
              Respond, mainDb
<1>4. CASE \/ ClockTicks \/ SlotPasses \/ \E i \in Intents : IntentAdvances(i)
           \/ \E v \in Servers : Crash(v) \/ StatusLookup(v)
           \/ UNCHANGED finalizeVars
  BY <1>1, <1>4 DEF ClockTicks, SlotPasses, NextSlot, IntentAdvances, Crash, StatusLookup,
                    mainDb, finalizeVars
<1> QED BY <1>1, <1>2, <1>3, <1>4 DEF FinalizeNext

\* Every step keeps the arguments of the requests in progress.
LEMMA CallerSteps ==
    ASSUME FinalizeInv, CallerInv, [FinalizeNext]_finalizeVars
    PROVE  CallerInv'
<1>0. /\ reqs \in [Requests -> Request] /\ now \in Nat
      /\ \A r \in Requests : ArgsOK(reqs[r], now)
  BY DEF FinalizeInv, FinalizeTypeOK, FundingTypeOK, CallerInv
<1>1. ASSUME NEW r \in Requests, Call(r) \/ HandlerStep(r)
      PROVE  \A x \in Requests : ArgsOK(reqs'[x], now')
  <2>1. ArgsOK(reqs'[r], now) /\ now' = now
    BY <1>1, RequestArgs
  <2>2. Moves(r)
    BY <1>1, RequestMoves
  <2>3. \A x \in Requests : x # r => reqs'[x] = reqs[x]
    BY <1>0, <2>2 DEF Moves
  <2>4. ASSUME NEW x \in Requests
        PROVE  ArgsOK(reqs'[x], now')
    BY <1>0, <2>1, <2>3
  <2> QED BY <2>4
<1>2. ASSUME NEW v \in Servers, Crash(v)
      PROVE  \A x \in Requests : ArgsOK(reqs'[x], now')
  <2>1. now' = now
    BY <1>2 DEF Crash, clocks
  <2>2. ASSUME NEW x \in Requests
        PROVE  reqs'[x] = reqs[x] \/ reqs'[x] = Ended(reqs[x], "lost", NULL)
    BY <1>2 DEF Crash
  <2>3. ASSUME NEW x \in Requests
        PROVE  ArgsOK(reqs'[x], now)
    BY <1>0, <2>2, EndedArgs
  <2> QED BY <2>1, <2>3
<1>3. ASSUME ClockTicks
      PROVE  \A x \in Requests : ArgsOK(reqs'[x], now')
  <2>1. now' \in Nat /\ now <= now' /\ reqs' = reqs
    BY <1>0, <1>3 DEF ClockTicks, Tick
  <2>2. ASSUME NEW x \in Requests
        PROVE  ArgsOK(reqs'[x], now')
    BY <1>0, <2>1, ArgsStay
  <2> QED BY <2>2
<1>4. ASSUME \/ SlotPasses \/ \E i \in Intents : IntentAdvances(i)
             \/ \E v \in Servers : StatusLookup(v)
             \/ UNCHANGED finalizeVars
      PROVE  \A x \in Requests : ArgsOK(reqs'[x], now')
  <2>1. reqs' = reqs /\ now' = now
    BY <1>4 DEF SlotPasses, IntentAdvances, StatusLookup, clocks, finalizeVars
  <2> QED BY <1>0, <2>1
<1> QED
  BY <1>1, <1>2, <1>3, <1>4, RulesStayDated DEF FinalizeNext, CallerInv

\* The rules a predecessor left have a slot, and no request has begun.
LEMMA CallerInitially == FinalizeInit => CallerInv
<1> SUFFICES ASSUME FinalizeInit PROVE CallerInv
  OBVIOUS
<1>1. RulesDated(rules)
  BY FinalizeStartAssumption DEF FinalizeInit, RulesDated, LegacyRule, NoRule
<1>2. \A t : ArgsOK(Idle, t)
  BY DEF ArgsOK, Building, Idle
<1> QED BY <1>1, <1>2 DEF FinalizeInit, CallerInv

\* Whatever finalize and its surroundings do to the funding table is one call
\* of a method of the repository; the deadline of an inserted row is a clock
\* sample of the past plus the funding window.
LEMMA FinalizeCallsTable ==
    ASSUME FinalizeInv, CallerInv, [FinalizeNext]_finalizeVars
    PROVE  [FundingNext]_fundingVars
<1>1. ASSUME UNCHANGED <<intents, now>>
      PROVE  [FundingNext]_fundingVars
  BY <1>1 DEF fundingVars
<1>2. ASSUME NEW i \in Intents, Update(i), UNCHANGED now
      PROVE  [FundingNext]_fundingVars
  BY <1>2 DEF FundingNext
<1>3. ASSUME NEW r \in Requests, InsertFunding(r)
      PROVE  [FundingNext]_fundingVars
  <2>1. reqs[r].intent \in Intents /\ reqs[r].wallet \in Wallets
    BY <1>3 DEF InsertFunding, At, FinalizeInv, ReqOK, ServingOK, Steps
  <2>2. /\ reqs[r].created \in Slots
        /\ \E t \in 0 .. now : reqs[r].deadline = t + Lifetime
    BY <1>3 DEF InsertFunding, At, CallerInv, ArgsOK, Building
  <2>3. CASE insert(reqs[r].intent, reqs[r].wallet, reqs[r].created, reqs[r].deadline)
    <3>1. Update(reqs[r].intent)
      BY <2>1, <2>2, <2>3 DEF Update, Sampled
    <3> QED BY <1>2, <1>3, <2>1, <3>1 DEF InsertFunding, clocks
  <2> QED BY <1>1, <1>3, <2>3 DEF InsertFunding, clocks
<1>4. ASSUME NEW r \in Requests, Call(r) \/ HandlerStep(r), ~InsertFunding(r)
      PROVE  UNCHANGED <<intents, now>>
  BY <1>4 DEF Call, HandlerStep, Reject, Open, TakePool, NoPool, Claim, ClaimFails,
              FetchMarket, InsertRule, ReadRule, ReadyPool, IndexHash, ReadFunding,
              Respond, mainDb, clocks
<1>5. CASE ClockTicks
  BY <1>5 DEF ClockTicks, FundingNext
<1>6. ASSUME NEW i \in Intents, IntentAdvances(i)
      PROVE  [FundingNext]_fundingVars
  BY <1>2, <1>6 DEF IntentAdvances, Update, clocks
<1>7. CASE \/ SlotPasses \/ \E v \in Servers : Crash(v) \/ StatusLookup(v)
           \/ UNCHANGED finalizeVars
  BY <1>1, <1>7 DEF SlotPasses, Crash, StatusLookup, mainDb, clocks, finalizeVars
<1> QED BY <1>1, <1>3, <1>4, <1>5, <1>6, <1>7 DEF FinalizeNext

\* finalize drives the funding table as the table's own specification allows:
\* racing requests, failed writes that took effect and crashes are, seen from
\* the table, nothing but calls of its methods in some order.
THEOREM FinalizeImplementsFunding == FinalizeSpec => FundingSpec
<1>1. FinalizeInv /\ CallerInv /\ [FinalizeNext]_finalizeVars
         => CallerInv' /\ [FundingNext]_fundingVars
  BY CallerSteps, FinalizeCallsTable
<1>2. FinalizeInit => FundingInit
  BY DEF FinalizeInit
<1> QED
  BY <1>1, <1>2, CallerInitially, FinalizeInvAlways, PTL DEF FinalizeSpec, FundingSpec

\* So each budget moves as the custody contract of migration 0012 says.
THEOREM FinalizeImplementsCustody == FinalizeSpec => CustodyContract
BY FinalizeImplementsFunding, FundingImplementsCustody, PTL

=============================================================================
