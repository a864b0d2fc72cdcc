------------------------- MODULE TransactionReview --------------------------
(***************************************************************************)
(* The review pipeline (crates/wallet-engine/src/pipeline.rs) with its two *)
(* users: the executor's controlled wallet                                 *)
(* (bins/solfrontier-mcp/src/watch_wallet.rs), and the gateway that parks  *)
(* what a human has to approve in the tables of PendingState and resumes   *)
(* it after the decision.                                                  *)
(*                                                                         *)
(* The gateway is not in the repository.  It is modelled from what the     *)
(* repositories ask of it: rows are written before a request is live and   *)
(* marked before it is acted upon, the handler of a decision looks at      *)
(* lease, role and earlier vote, and a restart expires, then drains.       *)
(* Tasks run concurrently, and a crash ends all of them at any await.      *)
(***************************************************************************)
EXTENDS ReviewPipeline, ApprovalWorkflow, PendingState

CONSTANTS
    Tasks,
    Roles,
    Operators, RoleOf,      \* who decides, and each one's role
    Proposals,
    GlobalPolicy, SessionRules,
    Fees,                   \* priority fees that resolve may find
    Usage,                  \* compute units a simulation may report
    Spends,                 \* what a wallet may have spent today
    Lease, MaxAge, Retention,
    MaxNow,                 \* bound on the clock
    MaxCrashes              \* bound on crashes

ASSUME ReviewBoundsAssumption == {Lease, MaxAge, Retention, MaxNow, MaxCrashes} \subseteq Nat
ASSUME RolesAssumption == RoleOf \in [Operators -> Roles]
ASSUME AmountsAssumption ==
    /\ Fees \subseteq Nat /\ Usage \subseteq Nat \cup {NULL}
    /\ \A p \in Proposals : {p.limit, p.price} \subseteq Nat \cup {NULL}

StageSpec == [roles : SUBSET Roles, min : Nat]

\* Policies as serde reads them, and a session without rules of its own.
ASSUME RulesAssumption ==
    /\ << >> \in SessionRules /\ "rules" \in DOMAIN GlobalPolicy
    /\ \A rules \in SessionRules \cup {GlobalPolicy.rules} :
          /\ rules \in Seq({rules[i] : i \in DOMAIN rules})
          /\ \A i \in DOMAIN rules :
                /\ rules[i].on \in PolicyCondition /\ rules[i].do \in PolicyAction
                /\ rules[i].stages \in Seq(StageSpec)

VARIABLES
    now,
    kinds,      \* request -> what it is and who started it, NULL before
    tasks,      \* task -> what it is doing
    signed,     \* request -> the signatures made for it, in order
    boot,       \* the startup sequence
    crashes

reviewVars == <<now, kinds, tasks, signed, boot, crashes, pendingVars>>

\* What the tables and the tasks hold.
Tx == [proposal : Proposals, limit : Nat \cup {NULL}, price : Nat \cup {NULL},
       blockhash : Nat \cup {NULL}]

Verdicts == [label  : {"approved", "requires_human_approval", "rejected", "simulation_failed"},
             stages : Seq(StageSpec)]

Votes == [operator : Operators, role : Roles, approved : BOOLEAN]

StageRow == [roles : SUBSET Roles, min : Nat, decisions : Seq(Votes)]

Workflow == [state   : {"pending", "approved", "rejected", "expired"},
             stages  : Seq(StageRow),
             expires : Nat \cup {NULL}]

Modes == {"Automatic", "RequireHuman", "DryRun"}

Kind == [kind : {"gateway", "executor", "swap"}, session : SessionRules]

ASSUME ReviewNullAssumption ==
    /\ NULL \notin Nat /\ NULL \notin Tx /\ NULL \notin Workflow /\ NULL \notin Kind
    /\ NULL \notin Requests /\ NULL \notin Modes \cup {"HumanGranted", "JIT"} \cup SwapStates
    /\ NULL \notin [state : RowStates, created : Nat]

NoTask == [pc |-> "idle", request |-> NULL, mode |-> NULL, tx |-> NULL,
           sim |-> NULL, passed |-> {}, hash |-> NULL, lastValid |-> NULL,
           audited |-> NULL, verdict |-> NULL, workflow |-> NULL]

\* Rows, requests and tasks fit together: every task is for a request that
\* was made, and every parked approval has its workflow (create before
\* insert_pending_approval).
ReviewTypeOK ==
    /\ now \in 0 .. MaxNow /\ crashes \in 0 .. MaxCrashes
    /\ kinds \in [Requests -> Kind \cup {NULL}]
    /\ \A t \in Tasks :
          /\ tasks[t].pc = "idle" <=> tasks[t] = NoTask
          /\ tasks[t].pc \in {"first", "second", "audit", "policy", "sign"} =>
                tasks[t].tx # NULL /\ tasks[t].mode # NULL
          /\ tasks[t].request # NULL => kinds[tasks[t].request] # NULL
    /\ \A r \in Requests :
          /\ approvals[r] # NULL => approvals[r].state \in RowStates /\ workflows[r] # NULL
          /\ signatures[r] # NULL => signatures[r].state \in RowStates
          /\ metas[r] # NULL => metas[r].state \in RowStates
          /\ swaps[r] \in SwapStates \cup {NULL}
    /\ boot \in [step : {"approvals", "signatures", "metas", "swaps", "up"},
                 at : 0 .. MaxNow]

ReviewInit ==
    /\ PendingInit
    /\ now = 0 /\ crashes = 0
    /\ kinds = [r \in Requests |-> NULL]
    /\ tasks = [t \in Tasks |-> NoTask]
    /\ signed = [r \in Requests |-> << >>]
    /\ boot = [step |-> "up", at |-> 0]

Become(t, task) == tasks' = [tasks EXCEPT ![t] = task]
Goto(t, pc) == tasks' = [tasks EXCEPT ![t].pc = pc]
End(t) == Become(t, NoTask)

\* A blockhash the cache may hand out.
Fresh == {h \in 0 .. MaxNow : h <= now /\ now <= h + 1}

\* What simulateTransaction may answer: an error, or units within the limit.
\* SimulationClient fills in neither the fee nor the account diffs.
Outputs(tx) ==
    {NULL} \cup {[success |-> TRUE, units |-> u, fee |-> NULL, diff |-> NULL] :
                    u \in {u \in Usage : u = NULL \/ tx.limit = NULL \/ u <= tx.limit}}

Sign(r, task) ==
    signed' = [signed EXCEPT ![r] = Append(@,
        [tx |-> task.tx, mode |-> task.mode, passed |-> task.passed,
         lastValid |-> task.lastValid, verdict |-> task.verdict,
         audited |-> task.audited, workflow |-> task.workflow])]

-----------------------------------------------------------------------------
(* The pipeline. *)

Review(t, r, tx, mode) ==
    Become(t, [tasks[t] EXCEPT !.pc = "first", !.request = r, !.mode = mode, !.tx = tx])

Simulated(t, task) ==
    Become(t, [task EXCEPT !.pc = IF kinds[task.request].kind = "executor"
                                  THEN "audit" ELSE "policy"])

\* simulate, to its first simulation.  A fee that cannot be resolved is 0.
FirstPass(t, fee, h, sim) ==
    LET before    == tasks[t].tx
        prepended == ~has_compute_budget_instructions(before)
        tx        == [prepend_compute_budget(before, DEFAULT_COMPUTE_UNITS, fee)
                        EXCEPT !.blockhash = h]
        task      == [tasks[t] EXCEPT !.tx = tx, !.lastValid = h, !.sim = sim,
                                      !.passed = {Body(tx)}]
    IN  /\ tasks[t].pc = "first"
        /\ sim \in Outputs(tx)
        /\ IF sim = NULL THEN End(t)
           ELSE IF /\ prepended /\ sim.units # NULL
                   /\ should_tighten(DEFAULT_COMPUTE_UNITS,
                                     compute_limit_from_simulation(sim.units))
                THEN Become(t, [task EXCEPT !.pc = "second"])
                ELSE Simulated(t, task)
        /\ UNCHANGED <<now, kinds, signed, boot, crashes, pendingVars>>

\* Mutant: a second pass that fails leaves the tighter limit.
Fallback_Tight(tx) == tx

\* A second pass that fails: the default limit again, with the new blockhash.
Fallback(tx) == replace_compute_unit_limit(tx, DEFAULT_COMPUTE_UNITS)

\* simulate, the second pass with a tighter limit.
SecondPass(t, h, sim) ==
    LET task   == tasks[t]
        units  == compute_limit_from_simulation(task.sim.units)
        tight  == [replace_compute_unit_limit(task.tx, units) EXCEPT !.blockhash = h]
    IN  /\ task.pc = "second"
        /\ sim \in Outputs(tight)
        /\ IF sim = NULL
           THEN Simulated(t, [task EXCEPT !.tx = Fallback(tight), !.lastValid = h])
           ELSE Simulated(t, [task EXCEPT !.tx = tight, !.lastValid = h, !.sim = sim,
                                          !.passed = @ \cup {Body(tight)}])
        /\ UNCHANGED <<now, kinds, signed, boot, crashes, pendingVars>>

\* The executor shows the exact message before anything may sign it.
Audit(t) ==
    /\ tasks[t].pc = "audit"
    /\ Become(t, [tasks[t] EXCEPT !.pc = "policy", !.audited = tasks[t].tx])
    /\ UNCHANGED <<now, kinds, signed, boot, crashes, pendingVars>>

\* A digest of the message, for which the message stands.
approval_tx_hash(tx) == tx

\* The typestate that alone can be signed: a verdict, bound to a message.
ApprovedTransaction(task, verdict) ==
    [task EXCEPT !.pc = "sign", !.verdict = verdict, !.hash = approval_tx_hash(task.tx)]

PolicyOf(task) ==
    IF kinds[task.request].kind = "executor" THEN execution_policy
    ELSE with_session_rules(GlobalPolicy, kinds[task.request].session)

\* evaluate_policy: only what is not blocked goes on, bound to its message.
\* The executor summarises again and takes nothing but an approval.
EvaluatePolicy(t, spent) ==
    LET task     == tasks[t]
        executor == kinds[task.request].kind = "executor"
        summary  == IF executor THEN validate_and_summarize(task.tx)
                    ELSE task.tx.proposal.instructions
        set      == PolicyOf(task)
        verdict  == evaluate_at(set,
                        [network |-> task.tx.proposal.network, instructions |-> summary,
                         sim |-> task.sim, spent |-> spent, now |-> now])
    IN  /\ task.pc = "policy"
        /\ executor => spent = 0
        /\ IF summary = NULL \/ set = NULL THEN End(t)
           ELSE IF is_blocked(verdict) \/ (executor /\ ~is_auto_approved(verdict)) THEN End(t)
           ELSE Become(t, ApprovedTransaction(task, verdict))
        /\ UNCHANGED <<now, kinds, signed, boot, crashes, pendingVars>>

\* sign: the drift guard, then by mode.  A signer may fail.
SignOrPark(t) ==
    LET task    == tasks[t]
        outcome == SignOutcome(task.mode, task.verdict)
        bound   == task.hash = approval_tx_hash(task.tx)
    IN  /\ task.pc = "sign"
        /\ IF bound /\ outcome = "awaiting"
           THEN Goto(t, "create") /\ UNCHANGED signed
           ELSE /\ End(t)
                /\ \/ bound /\ outcome = "signed" /\ Sign(task.request, task)
                   \/ UNCHANGED signed
        /\ UNCHANGED <<now, kinds, boot, crashes, pendingVars>>

PipelineStep(t) ==
    \/ \E fee \in Fees, h \in Fresh, sim \in Outputs([limit |-> NULL]) : FirstPass(t, fee, h, sim)
    \/ \E h \in Fresh, sim \in Outputs([limit |-> NULL]) : SecondPass(t, h, sim)
    \/ Audit(t)
    \/ \E spent \in Spends : EvaluatePolicy(t, spent)
    \/ SignOrPark(t)
    \/ /\ tasks[t].pc \in {"second", "audit"} /\ End(t)     \* no blockhash, no report
       /\ UNCHANGED <<now, kinds, signed, boot, crashes, pendingVars>>

-----------------------------------------------------------------------------
(* Requests come in; the ones of the gateway are parked. *)

Up(t) == boot.step = "up" /\ tasks[t].pc = "idle"

\* review_and_sign begins: what is not the builder's transaction ends here.
ReviewAndSign(t, r, proposal) ==
    /\ Up(t) /\ kinds[r] = NULL
    /\ kinds' = [kinds EXCEPT ![r] = [kind |-> "executor", session |-> << >>]]
    /\ IF validate_and_summarize(Unsigned(proposal)) = NULL THEN UNCHANGED tasks
       ELSE Review(t, r, Unsigned(proposal), "Automatic")
    /\ UNCHANGED <<now, signed, boot, crashes, pendingVars>>

Propose(t, r, proposal, mode, session) ==
    /\ Up(t) /\ kinds[r] = NULL
    /\ kinds' = [kinds EXCEPT ![r] = [kind |-> "gateway", session |-> session]]
    /\ Review(t, r, Unsigned(proposal), mode)
    /\ UNCHANGED <<now, signed, boot, crashes, pendingVars>>

\* A swap is parked before there is a transaction.
ProposeSwap(t, r) ==
    /\ Up(t) /\ kinds[r] = NULL
    /\ kinds' = [kinds EXCEPT ![r] = [kind |-> "swap", session |-> << >>]]
    /\ insert(r, "pending_approval")
    /\ Become(t, [NoTask EXCEPT !.pc = "create", !.request = r,
                                !.verdict = Verdict("requires_human_approval", AnyApprover)])
    /\ UNCHANGED <<now, signed, boot, crashes, approvals, workflows, signatures, metas>>

CreateWorkflow(t) ==
    /\ tasks[t].pc = "create"
    /\ create(tasks[t].request, NewWorkflow(tasks[t].verdict.stages, now, Lease))
    /\ Goto(t, "park")
    /\ UNCHANGED <<now, kinds, signed, boot, crashes, approvals, signatures, metas, swaps>>

\* The bytes that were simulated and judged are parked, not the proposal.
Park(t) ==
    /\ tasks[t].pc = "park"
    /\ insert_pending_approval(tasks[t].request, tasks[t].tx, now)
    /\ End(t)
    /\ UNCHANGED <<now, kinds, signed, boot, crashes, workflows, signatures, metas, swaps>>

-----------------------------------------------------------------------------
(* Decisions. *)

\* The workflow after a decision, or after the lease.
Decided(workflow, operator, approved) ==
    IF is_expired(workflow, now) THEN expire(workflow)
    ELSE apply_decision(workflow,
            StageDecision(operator, RoleOf[operator], approved))

\* Load and apply.  A wrong role or a second vote changes nothing.
Decide(t, r, operator, approved) ==
    LET workflow == load(r)
        stage    == workflow.stages[current_stage(workflow)]
    IN  /\ Up(t) /\ r \in load_pending_approvals
        /\ ~is_terminal(workflow) /\ current_stage(workflow) # NULL
        /\ is_expired(workflow, now) \/
              /\ stage.roles = {} \/ RoleOf[operator] \in stage.roles
              /\ ~has_operator_voted(stage, operator)
        /\ Become(t, [NoTask EXCEPT !.pc = "update", !.request = r,
                         !.workflow = Decided(workflow, operator, approved)])
        /\ UNCHANGED <<now, kinds, signed, boot, crashes, pendingVars>>

UpdateWorkflow(t) ==
    /\ tasks[t].pc = "update"
    /\ update(tasks[t].request, tasks[t].workflow)
    /\ IF is_terminal(tasks[t].workflow) THEN Goto(t, "mark") ELSE End(t)
    /\ UNCHANGED <<now, kinds, signed, boot, crashes, approvals, signatures, metas, swaps>>

RowState == [approved |-> "consumed", rejected |-> "rejected", expired |-> "expired"]

\* Whoever turns the row acts on the decision, and nobody else.
MarkTerminal(t, updated) ==
    LET r     == tasks[t].request
        state == tasks[t].workflow.state
    IN  /\ tasks[t].pc = "mark"
        /\ mark_approval_terminal(r, RowState[state], updated)
        /\ IF ~updated THEN End(t)
           ELSE IF kinds[r].kind = "swap" THEN Goto(t, "swap")
           ELSE IF state = "approved" THEN Review(t, r, approvals[r].parked, "HumanGranted")
           ELSE End(t)
        /\ UNCHANGED <<now, kinds, signed, boot, crashes, workflows, signatures, metas, swaps>>

-----------------------------------------------------------------------------
(* Swaps: built just in time, signed here or by an external wallet. *)

Swapping(t, pc) == tasks[t].pc = pc /\ UNCHANGED <<now, kinds, boot, crashes, approvals, workflows>>

DecideSwap(t) ==
    /\ Swapping(t, "swap")
    /\ LET state == tasks[t].workflow.state
       IN  IF state = "approved"
           THEN /\ mark_state(tasks[t].request, "approved_waiting_jit")
                /\ Become(t, [tasks[t] EXCEPT !.pc = "jit", !.mode = "JIT"])
           ELSE mark_state(tasks[t].request, state) /\ End(t)
    /\ UNCHANGED <<signed, signatures, metas>>

JitStart(t) ==
    /\ Swapping(t, "jit")
    /\ mark_state(tasks[t].request, "jit_building")
    /\ Goto(t, "build")
    /\ UNCHANGED <<signed, signatures, metas>>

JitBuild(t) ==
    LET r == tasks[t].request
    IN  /\ Swapping(t, "build")
        /\ \/ Sign(r, tasks[t]) /\ Goto(t, "submitted") /\ UNCHANGED <<signatures, metas>>
           \/ /\ insert_signature_and_meta(r, now)
              /\ Goto(t, "awaiting_wallet_signature") /\ UNCHANGED signed
           \/ Goto(t, "jit_build_failed") /\ UNCHANGED <<signed, signatures, metas>>
        /\ UNCHANGED swaps

JitEnd(t) ==
    /\ tasks[t].pc \in {"submitted", "awaiting_wallet_signature", "jit_build_failed"}
    /\ Swapping(t, tasks[t].pc)
    /\ mark_state(tasks[t].request, tasks[t].pc)
    /\ End(t)
    /\ UNCHANGED <<signed, signatures, metas>>

\* The wallet answers, perhaps late or twice: who turns the row submits.
WalletAnswers(t, r) ==
    /\ Up(t) /\ signatures[r] # NULL
    /\ mark_signature_terminal(r, "consumed", TRUE)
    /\ Become(t, [NoTask EXCEPT !.pc = "complete", !.request = r])
    /\ Sign(r, NoTask)
    /\ UNCHANGED <<now, kinds, boot, crashes, approvals, workflows, metas, swaps>>

Complete(t) ==
    /\ Swapping(t, "complete")
    /\ mark_completion_meta_terminal(tasks[t].request, "consumed")
    /\ Goto(t, "submitted")
    /\ UNCHANGED <<signed, signatures, swaps>>

-----------------------------------------------------------------------------
(* Crash, startup, cleanup, time. *)

Crash ==
    /\ crashes < MaxCrashes
    /\ crashes' = crashes + 1
    /\ tasks' = [t \in Tasks |-> NoTask]
    /\ boot' = [step |-> "approvals", at |-> now]
    /\ UNCHANGED <<now, kinds, signed, pendingVars>>

\* expire_older_than, one statement after the other with one cutoff, then
\* expire_stuck for what has no task any more.
Startup ==
    /\ boot.step # "up"
    /\ approvals' = IF boot.step = "approvals" THEN Expired(approvals, boot.at, MaxAge) ELSE approvals
    /\ signatures' = IF boot.step = "signatures" THEN Expired(signatures, boot.at, MaxAge) ELSE signatures
    /\ metas' = IF boot.step = "metas" THEN Expired(metas, boot.at, MaxAge) ELSE metas
    /\ IF boot.step = "swaps" THEN expire_stuck({"approved_waiting_jit", "jit_building"})
       ELSE UNCHANGED swaps
    /\ boot' = [boot EXCEPT !.step =
                   CASE @ = "approvals" -> "signatures" [] @ = "signatures" -> "metas"
                     [] @ = "metas" -> "swaps" [] @ = "swaps" -> "up"]
    /\ UNCHANGED <<now, kinds, tasks, signed, crashes, workflows>>

Purge ==
    /\ boot.step = "up"
    /\ \/ approvals' = Purged(approvals, now, Retention) /\ UNCHANGED <<signatures, metas>>
       \/ signatures' = Purged(signatures, now, Retention) /\ UNCHANGED <<approvals, metas>>
       \/ metas' = Purged(metas, now, Retention) /\ UNCHANGED <<approvals, signatures>>
    /\ UNCHANGED <<now, kinds, tasks, signed, boot, crashes, workflows, swaps>>

Tick ==
    /\ now < MaxNow /\ now' = now + 1
    /\ UNCHANGED <<kinds, tasks, signed, boot, crashes, pendingVars>>

Next ==
    \/ Crash \/ Startup \/ Purge \/ Tick
    \/ \E t \in Tasks :
          \/ PipelineStep(t)
          \/ CreateWorkflow(t) \/ Park(t)
          \/ UpdateWorkflow(t) \/ \E updated \in BOOLEAN : MarkTerminal(t, updated)
          \/ DecideSwap(t) \/ JitStart(t) \/ JitBuild(t) \/ JitEnd(t) \/ Complete(t)
          \/ \E r \in Requests :
                \/ ProposeSwap(t, r) \/ WalletAnswers(t, r)
                \/ \E proposal \in Proposals :
                      \/ ReviewAndSign(t, r, proposal)
                      \/ \E mode \in Modes, session \in SessionRules :
                            Propose(t, r, proposal, mode, session)
                \/ \E operator \in Operators, approved \in BOOLEAN :
                      Decide(t, r, operator, approved)

ReviewSpec == ReviewInit /\ [][Next]_reviewVars

-----------------------------------------------------------------------------
(* Properties. *)

\* The signatures the pipeline made.
Reviewed(r) == {i \in DOMAIN signed[r] : signed[r][i].tx # NULL}

\* What the executor may submit: NULL when the signed message is not the one
\* that was shown and approved.
submission_bytes(s) == IF s.tx = s.audited THEN s.tx ELSE NULL

\* Whatever a signer signs was simulated with success, compute budget
\* included, even where the second pass failed and the first one counts; its
\* lifetime is the one of the blockhash in it; no policy that was in force
\* blocked it or, outside the resume path, asked for a human; and the executor
\* signs nothing but its builder's deposit, the very message it showed before
\* (simulate, evaluate_policy, sign, review_and_sign, submission_bytes).
SignedAsReviewed ==
    \A r \in Requests : \A i \in Reviewed(r) :
        LET s == signed[r][i]
        IN  /\ Body(s.tx) \in s.passed
            /\ s.lastValid = s.tx.blockhash
            /\ ~is_blocked(s.verdict)
            /\ s.mode # "HumanGranted" => ~requires_human(s.verdict)
            /\ kinds[r].kind = "executor" =>
                  Body(s.tx) = Unsigned(Canonical) /\ submission_bytes(s) = s.tx

\* The pending row decides, not the workflow: nothing is signed of a request
\* whose row waits, or ended rejected or expired.  What is signed after a human
\* decision is what was parked for it, but for the blockhash, and in the
\* workflow on which its handler decided every stage had its approvals from
\* different operators of its roles and no rejection (mark_approval_terminal,
\* prepend_compute_budget, apply_decision).  A rejection that another handler
\* applied to an earlier copy counts only if that handler turns the row first:
\* approval_workflows may hold it, or lose it, next to a signature.
SignedAsApproved ==
    \A r \in Requests : \A i \in DOMAIN signed[r] :
        LET s == signed[r][i]
        IN  /\ approvals[r] # NULL => approvals[r].state = "consumed"
            /\ (s.mode = "HumanGranted" /\ approvals[r] # NULL) =>
                  Body(s.tx) = Body(approvals[r].parked)
            /\ s.mode \in {"HumanGranted", "JIT"} =>
                  \A j \in DOMAIN s.workflow.stages :
                      LET stage  == s.workflow.stages[j]
                          voters == {stage.decisions[k].operator : k \in DOMAIN stage.decisions}
                      IN  /\ Cardinality(voters) >= stage.min
                          /\ \A k \in DOMAIN stage.decisions :
                                /\ stage.decisions[k].approved
                                /\ stage.roles # {} => stage.decisions[k].role \in stage.roles

\* One request is signed at most once, however many handlers decide it at
\* the same time and whatever a restart finds (mark_approval_terminal,
\* mark_signature_terminal).
SignedOnce == \A r \in Requests : Len(signed[r]) <= 1

\* Between its crashes and at every statement of its startup, the gateway
\* never finds a pending signature without the metadata to complete it
\* (insert_signature_and_meta), nor, once it is up, a swap half built that no
\* task is at (expire_stuck).
RecoveryIsWhole ==
    /\ Pending(signatures) \subseteq Pending(metas)
    /\ boot.step = "up" =>
          \A r \in Requests :
              swaps[r] \in {"approved_waiting_jit", "jit_building"} =>
                  \E t \in Tasks : tasks[t].request = r

=============================================================================
