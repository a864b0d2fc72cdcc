---------------------------- MODULE IntentStatus ----------------------------
(***************************************************************************)
(* get_intent_status (bins/solfrontier-mcp/src/status.rs), asked while     *)
(* watchers execute.                                                       *)
(*                                                                         *)
(* A query names an intent by its UUID or by its canonical hash.  It reads *)
(* the funding row and then the rule, with no transaction around the two,  *)
(* so a watcher may write both in between.                                 *)
(***************************************************************************)
EXTENDS WatchExecutor

ASSUME StatusNullAssumption == NULL \notin {"w5h_funding_intent", "watch_rule"}

VARIABLE query

statusVars == <<executorVars, query>>

\* A UUID has two spellings that mean the same.  A canonical hash stands for
\* the intent and the slot its rule was created in, NULL for a slot in which
\* no stored rule was.
Refs ==
    [kind : {"uuid"}, intent : Intents]
        \cup [kind : {"hash"}, intent : Intents, created : Slots \cup {NULL}]
        \cup {[kind |-> "malformed"]}

Response == [status   : Status \cup RuleStatus \cup {"not_found", "unsupported_ref"},
             source   : {"w5h_funding_intent", "watch_rule", NULL},
             terminal : BOOLEAN,
             hash     : Slots \cup {NULL},
             rule     : RuleStatus \cup {NULL}]

Query == [pc       : {"idle", "funding", "rule", "done"},
          ref      : Refs \cup {NULL},
          intent   : Intents \cup {NULL},        \* ResolvedIntentRef
          row      : [status : Status \cup {"absent"}, hash : Slots \cup {NULL}] \cup {NULL},
          response : Response \cup {NULL}]

NoQuery == [pc |-> "idle", ref |-> NULL, intent |-> NULL, row |-> NULL, response |-> NULL]

-----------------------------------------------------------------------------
(* Responses *)

\* A response that names a row keeps what it was asked.
Responded(response) ==
    IF response.source = NULL
    THEN [NoQuery EXCEPT !.pc = "done", !.response = response]
    ELSE [query EXCEPT !.pc = "done", !.row = NULL, !.response = response]

unsupported_response ==
    [status |-> "unsupported_ref", source |-> NULL, terminal |-> FALSE,
     hash |-> NULL, rule |-> NULL]

not_found_response ==
    [status |-> "not_found", source |-> NULL, terminal |-> FALSE,
     hash |-> NULL, rule |-> NULL]

funding_response(row, rule) ==
    [status   |-> row.status,
     source   |-> "w5h_funding_intent",
     terminal |-> row.status \in is_terminal,
     hash     |-> row.hash,
     rule     |-> IF rule.status = "absent" THEN NULL ELSE rule.status]

watch_rule_response(rule) ==
    [status   |-> rule.status,
     source   |-> "watch_rule",
     terminal |-> rule.status \in TerminalRule,
     hash     |-> rule.created,
     rule     |-> rule.status]

project_status(row, rule) ==
    IF row.status # "absent" THEN funding_response(row, rule)
    ELSE IF rule.status # "absent" THEN watch_rule_response(rule)
    ELSE not_found_response

\* Mutant: what the sidecar says is not checked.
canonical_mapping_matches_main_store_trusting(ref, i, row, rule) == TRUE

\* The sidecar is derived data: what it says of a hash has to agree with both
\* rows.  Without a rule the hash cannot be computed again.
canonical_mapping_matches_main_store(ref, i, row, rule) ==
    /\ rule.status # "absent"
    /\ i = ref.intent /\ rule.created = ref.created
    /\ row.status # "absent" => row.hash = ref.created

-----------------------------------------------------------------------------
(* A query *)

\* What the reference names, NULL for nothing.  The sidecar may be missing,
\* closed or out of date: any answer of its to a hash is possible, and nothing
\* else depends on when it is asked.
Named(ref) ==
    CASE ref.kind = "uuid" -> {ref.intent}
      [] ref.kind = "hash" -> Intents \cup {NULL}
      [] OTHER             -> {NULL}

\* query_intent_status, up to the first SELECT.
Ask ==
    /\ query.pc \in {"idle", "done"}
    /\ \E ref \in Refs : \E i \in Named(ref) :
          query' = IF i = NULL THEN Responded(unsupported_response)
                   ELSE [NoQuery EXCEPT !.pc = "funding", !.ref = ref, !.intent = i]
    /\ UNCHANGED executorVars

ReadFunding ==
    /\ query.pc = "funding"
    /\ LET row == intents[query.intent]
       IN  query' = [query EXCEPT !.pc = "rule",
                                  !.row = [status |-> row.status, hash |-> row.hash]]
    /\ UNCHANGED executorVars

ReadRule ==
    /\ query.pc = "rule"
    /\ LET rule == rules[query.intent]
           Mapped == canonical_mapping_matches_main_store(query.ref, query.intent, query.row, rule)
       IN  query' = Responded(IF query.ref.kind = "hash" /\ ~Mapped
                              THEN unsupported_response
                              ELSE project_status(query.row, rule))
    /\ UNCHANGED executorVars

\* A SELECT fails: the caller gets the error and no response.
QueryFails ==
    /\ query.pc \in {"funding", "rule"}
    /\ query' = NoQuery
    /\ UNCHANGED executorVars

QueryStep == Ask \/ ReadFunding \/ ReadRule \/ QueryFails

-----------------------------------------------------------------------------
\* Besides intents on their way, one that finalize left without a rule, and a
\* rule of a predecessor that never had a funding row.
StatusInit ==
    /\ query = NoQuery
    /\ \/ ExecutorInit
       \/ \E lost \in SUBSET Intents, payment \in Sigs \ Deposits :
             /\ now = 0 /\ slot = 0 /\ faults = 0 /\ rollbacks = 0
             /\ intents = [i \in Intents |->
                             IF i \in lost THEN NoRow ELSE SubmittedIntent(payment)]
             /\ rules = [i \in Intents |->
                           IF i \in lost THEN [NoRule EXCEPT !.status = "active", !.created = 0]
                                         ELSE NoRule]
             /\ deposits = [s \in Deposits |-> NoDeposit]
             /\ watchers = [w \in Watchers |-> IdleWatcher]

StatusNext == QueryStep \/ (ExecutorNext /\ UNCHANGED query)

\* A watcher goes on whatever is asked, and nobody has to ask.
StatusSpec ==
    /\ StatusInit
    /\ [][StatusNext]_statusVars
    /\ \A w \in Watchers : WF_statusVars(Attempt(w) /\ UNCHANGED query)

-----------------------------------------------------------------------------
(* Properties *)

\* A response puts two rows side by side that were read at two moments, and it
\* is a coherent one all the same.  A completed intent never comes with a rule
\* that is still open, because the rule is written first and read last.  A
\* response that says terminal stays true for ever.  A hash never answers with
\* the data of another intent or another version, whatever the sidecar says.
StatusIsCoherent ==
    query.pc = "done" =>
        LET r == query.response
            i == query.intent
        IN  /\ r.source = "w5h_funding_intent" /\ r.status = "completed"
                  => r.rule \in {"completed", "revoked"}
            /\ r.source = "w5h_funding_intent" /\ r.terminal
                  => intents[i].status = r.status
            /\ r.source = "watch_rule" /\ r.terminal
                  => rules[i].status \in TerminalRule
            /\ r.source # NULL /\ query.ref.kind = "hash"
                  => i = query.ref.intent /\ r.hash = query.ref.created

=============================================================================
