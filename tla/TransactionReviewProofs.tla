----------------------- MODULE TransactionReviewProofs -----------------------
(***************************************************************************)
(* What is signed, how often and after which review, for any number of     *)
(* tasks, requests, operators and crashes.                                 *)
(*                                                                         *)
(* The right to sign a request is in one place at a time: with one live    *)
(* task, with a pending approval, with a pending signature, or used.  Each *)
(* of the places excludes the others (LiveOK, RowOK), which is inductive   *)
(* because every step passes the right on in one statement.  The other     *)
(* half of the invariant is what a task knows of its transaction at each   *)
(* position (TaskOK).                                                      *)
(***************************************************************************)
EXTENDS TransactionReview, FiniteSetTheorems, SequenceTheorems, WellFoundedInduction, TLAPS

Pipeline == {"first", "second", "audit", "policy", "sign"}
Parking  == {"create", "park"}
Deciding == {"update", "mark"}
Ending   == {"submitted", "awaiting_wallet_signature", "jit_build_failed"}
Building == {"jit", "build"}

\* The positions that may still lead to a signature.
Live == Pipeline \cup Parking \cup {"swap"} \cup Building

PCs == {"idle", "complete"} \cup Live \cup Deciding \cup Ending

Sims == [success : {TRUE}, units : Nat \cup {NULL}, fee : {NULL}, diff : {NULL}]

Task == [pc : PCs, request : Requests \cup {NULL},
         mode : Modes \cup {"HumanGranted", "JIT", NULL},
         tx : Tx \cup {NULL}, sim : Sims \cup {NULL}, passed : SUBSET Tx,
         hash : Tx \cup {NULL}, lastValid : Nat \cup {NULL}, audited : Tx \cup {NULL},
         verdict : Verdicts \cup {NULL}, workflow : Workflow \cup {NULL}]

Signature == [tx : Tx \cup {NULL}, mode : Modes \cup {"HumanGranted", "JIT", NULL},
              passed : SUBSET Tx, lastValid : Nat \cup {NULL},
              verdict : Verdicts \cup {NULL}, audited : Tx \cup {NULL},
              workflow : Workflow \cup {NULL}]

ApprovalRow == [state : RowStates, created : Nat, parked : Tx \cup {NULL}]
PendingRow == [state : RowStates, created : Nat]

Tables ==
    /\ kinds \in [Requests -> Kind \cup {NULL}]
    /\ signed \in [Requests -> Seq(Signature)]
    /\ approvals \in [Requests -> ApprovalRow \cup {NULL}]
    /\ workflows \in [Requests -> Workflow \cup {NULL}]
    /\ signatures \in [Requests -> PendingRow \cup {NULL}]
    /\ metas \in [Requests -> PendingRow \cup {NULL}]
    /\ swaps \in [Requests -> SwapStates \cup {NULL}]

Typed ==
    /\ now \in 0 .. MaxNow /\ crashes \in 0 .. MaxCrashes
    /\ tasks \in [Tasks -> Task]
    /\ Tables
    /\ boot \in [step : {"approvals", "signatures", "metas", "swaps", "up"},
                 at : 0 .. MaxNow]

-----------------------------------------------------------------------------
(* Workflows. *)

\* Each vote is by another operator, of a role that may vote.
StageOK(stage) ==
    \A k \in DOMAIN stage.decisions :
        /\ stage.roles # {} => stage.decisions[k].role \in stage.roles
        /\ \A l \in DOMAIN stage.decisions :
              stage.decisions[k].operator = stage.decisions[l].operator => k = l

\* A rejection ends a workflow, and only quorums everywhere approve it.
WorkflowOK(w) ==
    /\ w \in Workflow
    /\ \A j \in DOMAIN w.stages :
          /\ StageOK(w.stages[j])
          /\ w.state \in {"pending", "approved"} => ~has_rejection(w.stages[j])
          /\ w.state = "approved" => quorum_met(w.stages[j])

Approved(w) == WorkflowOK(w) /\ w.state = "approved"

-----------------------------------------------------------------------------
(* What a task knows, given its kind k and the parked approval a. *)

\* Of its transaction.
PipelineOK(q, k, a) ==
    /\ q.tx \in Tx /\ q.mode \in Modes \cup {"HumanGranted"}
    /\ q.pc # "first" =>
          /\ Body(q.tx) \in q.passed
          /\ q.lastValid = q.tx.blockhash
          /\ has_compute_budget_instructions(q.tx)
    /\ q.pc = "second" =>
          /\ q.tx.limit = DEFAULT_COMPUTE_UNITS
          /\ q.sim \in Sims /\ q.sim.units \in Nat
    /\ q.pc \in {"policy", "sign"} /\ k.kind = "executor" => q.audited = q.tx
    /\ q.pc = "sign" =>
          /\ q.verdict \in Verdicts /\ ~is_blocked(q.verdict)
          /\ k.kind = "executor" => Body(q.tx) = Unsigned(Canonical)
    /\ q.mode = "HumanGranted" =>
          /\ q.pc # "second"
          /\ has_compute_budget_instructions(q.tx)
          /\ a # NULL => Body(q.tx) = Body(a.parked)

TaskOK(q, k, a) ==
    /\ q.pc = "idle" => q = NoTask
    /\ q.pc # "idle" => q.request \in Requests /\ k # NULL
    /\ q.pc \in Pipeline => PipelineOK(q, k, a)
    /\ q.pc \in Parking =>
          /\ q.verdict \in Verdicts
          /\ k.kind # "swap" => q.tx \in Tx /\ has_compute_budget_instructions(q.tx)
    /\ q.pc \in Deciding \cup {"swap"} => WorkflowOK(q.workflow)
    /\ q.pc \in {"mark", "swap"} => is_terminal(q.workflow)
    /\ q.mode \in {"HumanGranted", "JIT"} => Approved(q.workflow)
    /\ q.mode = "HumanGranted" => q.pc \in Pipeline
    /\ q.pc \in Building => q.mode = "JIT"
    /\ q.pc \notin Pipeline \cup Parking => q.tx = NULL

\* The right to sign r is with a live task.
Waiting(row) == row # NULL /\ row.state = "pending"

LiveOK(r) == signed[r] = << >> /\ ~Waiting(approvals[r]) /\ ~Waiting(signatures[r])

IsLive(t, r) == tasks[t].pc \in Live /\ tasks[t].request = r

-----------------------------------------------------------------------------
(* What the rows of a request say. *)

SignatureOK(s, k, a) ==
    /\ s.tx # NULL =>
          /\ Body(s.tx) \in s.passed
          /\ s.lastValid = s.tx.blockhash
          /\ ~is_blocked(s.verdict)
          /\ s.mode # "HumanGranted" => ~requires_human(s.verdict)
          /\ k.kind = "executor" => Body(s.tx) = Unsigned(Canonical) /\ s.audited = s.tx
    /\ s.mode = "HumanGranted" /\ a # NULL => Body(s.tx) = Body(a.parked)
    /\ s.mode \in {"HumanGranted", "JIT"} => Approved(s.workflow)

RowOK(r) ==
    /\ kinds[r] = NULL =>
          approvals[r] = NULL /\ signatures[r] = NULL /\ signed[r] = << >>
    /\ approvals[r] # NULL =>
          /\ workflows[r] # NULL
          /\ kinds[r].kind # "swap" =>
                /\ approvals[r].parked \in Tx
                /\ has_compute_budget_instructions(approvals[r].parked)
    /\ workflows[r] # NULL => WorkflowOK(workflows[r])
    /\ Waiting(approvals[r]) => signed[r] = << >> /\ ~Waiting(signatures[r])
    /\ Waiting(signatures[r]) =>
          /\ signed[r] = << >>
          /\ Waiting(metas[r]) /\ metas[r].created = signatures[r].created
    /\ Len(signed[r]) <= 1
    /\ \A i \in DOMAIN signed[r] : SignatureOK(signed[r][i], kinds[r], approvals[r])

\* A swap half built has its task.
HalfBuilt(r) == swaps[r] \in {"approved_waiting_jit", "jit_building"}

SwapOK(r) ==
    HalfBuilt(r) => \E t \in Tasks : /\ tasks[t].request = r
                                     /\ tasks[t].pc \in Building \cup Ending

\* A restart begins without tasks and expires in the order of its statements.
BootOK ==
    /\ boot.step # "up" => \A t \in Tasks : tasks[t] = NoTask
    /\ boot.step = "up" => \A r \in Requests : SwapOK(r)
    /\ boot.step = "metas" =>
          \A r \in Requests :
              Waiting(signatures[r]) => signatures[r].created + MaxAge > boot.at

\* A task and its request.
Fits(q) ==
    /\ TaskOK(q, kinds[q.request], approvals[q.request])
    /\ q.pc \in Live => LiveOK(q.request)
    /\ q.pc = "complete" => signed[q.request] # << >>
    /\ q.pc = "park" => workflows[q.request] # NULL

OneLive ==
    \A t, u \in Tasks :
        /\ tasks[t].pc \in Live /\ tasks[u].pc \in Live
        /\ tasks[t].request = tasks[u].request
        => t = u

ReviewInv ==
    /\ Typed
    /\ \A t \in Tasks : Fits(tasks[t])
    /\ OneLive
    /\ \A r \in Requests : RowOK(r)
    /\ BootOK

-----------------------------------------------------------------------------
(* Workflows and verdicts. *)

\* Some of a set of indices comes first.
LEMMA FirstIndex ==
    ASSUME NEW some, some \subseteq Nat, some # {}
    PROVE  \E k \in some : \A j \in some : k <= j
<1>1. PICK k \in some : \A j \in some : <<j, k>> \notin OpToRel(<, Nat)
    BY NatLessThanWellFounded, WFMin
<1>2. ASSUME NEW j \in some PROVE ~(j < k)
    BY <1>1, Zenon DEF OpToRel
<1>3. ASSUME NEW j \in some PROVE k <= j
    BY <1>2
<1> QED  BY <1>3

\* What a sequence is made of.
LEMMA ElementOf ==
    ASSUME NEW S, NEW s \in Seq(S)
    PROVE  /\ Len(s) \in Nat /\ DOMAIN s = 1 .. Len(s)
           /\ \A i \in DOMAIN s : s[i] \in S
OBVIOUS

\* A new workflow has no votes.
LEMMA NewWorkflowOK ==
    ASSUME NEW stages \in Seq(StageSpec), NEW n \in Nat, NEW lease \in Nat
    PROVE  WorkflowOK(NewWorkflow(stages, n, lease))
<1> DEFINE w == NewWorkflow(stages, n, lease)
<1>1. ASSUME NEW i \in DOMAIN stages
      PROVE  /\ Stage(stages[i]) \in StageRow
             /\ Stage(stages[i]).decisions = << >>
    <2>1. stages[i] \in StageSpec
        BY ElementOf
    <2> QED  BY <2>1 DEF Stage, StageSpec, StageRow
<1>2. DOMAIN stages = 1 .. Len(stages) /\ Len(stages) \in Nat
    OBVIOUS
<1>3. w.stages = [i \in DOMAIN stages |-> Stage(stages[i])]
    BY DEF NewWorkflow
<1>4. w.stages \in Seq(StageRow)
    <2> HIDE DEF w
    <2>1. w.stages = [i \in 1 .. Len(stages) |-> Stage(stages[i])]
        BY <1>2, <1>3
    <2>2. w.stages \in [1 .. Len(stages) -> StageRow]
        BY <1>1, <1>2, <2>1
    <2> QED  BY <1>2, <2>2
<1>5. w \in Workflow /\ w.state = "pending"
    <2>1. w = [state |-> "pending", stages |-> w.stages,
               expires |-> IF lease > 0 THEN n + lease ELSE NULL]
        BY DEF NewWorkflow
    <2> HIDE DEF w
    <2>2. (IF lease > 0 THEN n + lease ELSE NULL) \in Nat \cup {NULL}
        OBVIOUS
    <2> QED  BY <1>4, <2>1, <2>2 DEF Workflow
<1>6. \A j \in DOMAIN w.stages : w.stages[j].decisions = << >>
    BY <1>1, <1>3
<1> HIDE DEF w
<1>7. \A j \in DOMAIN w.stages : DOMAIN w.stages[j].decisions = {}
    BY <1>6
<1>8. ASSUME NEW j \in DOMAIN w.stages
      PROVE  StageOK(w.stages[j]) /\ ~has_rejection(w.stages[j])
    BY <1>7 DEF StageOK, has_rejection
<1>9. WorkflowOK(w)
    BY <1>5, <1>8 DEF WorkflowOK
<1> QED  BY <1>9 DEF w

\* The stage that is voted on is one of the workflow's, and open.
LEMMA CurrentStage ==
    ASSUME NEW w \in Workflow, current_stage(w) # NULL
    PROVE  /\ current_stage(w) \in DOMAIN w.stages
           /\ is_pending(w.stages[current_stage(w)])
<1> DEFINE open == {i \in DOMAIN w.stages : is_pending(w.stages[i])}
<1>1. open # {} /\ current_stage(w) = CHOOSE i \in open : \A j \in open : i <= j
    BY DEF current_stage
<1>2. open \subseteq Nat
    BY DEF Workflow
<1> HIDE DEF open
<1>3. current_stage(w) \in open
    BY <1>1, <1>2, FirstIndex
<1> QED  BY <1>3 DEF open

\* A vote by somebody who has not voted, of a role that may, keeps a workflow
\* in order.
LEMMA VoteKeeps ==
    ASSUME NEW w, WorkflowOK(w), NEW d \in Votes, ~is_terminal(w), current_stage(w) # NULL,
           LET stage == w.stages[current_stage(w)]
           IN  /\ stage.roles = {} \/ d.role \in stage.roles
               /\ ~has_operator_voted(stage, d.operator)
    PROVE  WorkflowOK(apply_decision(w, d))
<1> DEFINE i == current_stage(w)
           old == w.stages[i]
           ds == Append(old.decisions, d)
           e == [old EXCEPT !.decisions = ds]
           stages == [w.stages EXCEPT ![i].decisions = Append(@, d)]
           state == IF ~d.approved THEN "rejected"
                    ELSE IF \A j \in DOMAIN stages : quorum_met(stages[j])
                         THEN "approved" ELSE w.state
           v == apply_decision(w, d)
<1>1. w \in Workflow /\ w.state = "pending" /\ w.stages \in Seq(StageRow)
    BY DEF WorkflowOK, is_terminal, Workflow
<1>2. i \in 1 .. Len(w.stages) /\ i \in DOMAIN w.stages
    BY <1>1, CurrentStage
<1>3. old \in StageRow /\ StageOK(old) /\ ~has_rejection(old)
    BY <1>1, <1>2, ElementOf DEF WorkflowOK
<1>4. /\ old.roles = {} \/ d.role \in old.roles
      /\ ~has_operator_voted(old, d.operator)
    OBVIOUS
<1>5. stages = [w.stages EXCEPT ![i] = e]
    BY <1>1, <1>2
<1>6. v = [w EXCEPT !.stages = stages, !.state = state]
    BY DEF apply_decision
<1> HIDE DEF old, i
<1>7. ds \in Seq(Votes)
    BY <1>3 DEF StageRow
<1>8. /\ Len(ds) = Len(old.decisions) + 1 /\ Len(old.decisions) \in Nat
      /\ \A k \in 1 .. Len(old.decisions) : ds[k] = old.decisions[k]
      /\ ds[Len(old.decisions) + 1] = d
      /\ DOMAIN ds = 1 .. (Len(old.decisions) + 1)
      /\ DOMAIN old.decisions = 1 .. Len(old.decisions)
    BY <1>3, <1>7 DEF StageRow
<1> HIDE DEF ds
<1>8a. e \in StageRow /\ e.roles = old.roles /\ e.decisions = ds
    BY <1>3, <1>7 DEF StageRow
<1> HIDE DEF e
<1>9. StageOK(e) /\ (d.approved => ~has_rejection(e))
    BY <1>3, <1>4, <1>8, <1>8a DEF StageOK, has_rejection, has_operator_voted
<1>10. /\ stages \in Seq(StageRow) /\ DOMAIN stages = DOMAIN w.stages
       /\ \A j \in DOMAIN stages : stages[j] = IF j = i THEN e ELSE w.stages[j]
    BY <1>1, <1>2, <1>5, <1>8a, ElementOf, ExceptSeq
<1> HIDE DEF stages
<1>11. state \in {"rejected", "approved", "pending"}
       /\ (state # "rejected" => d.approved)
       /\ (state = "approved" => \A j \in DOMAIN stages : quorum_met(stages[j]))
    BY <1>1
<1> HIDE DEF state
<1>12. v \in Workflow /\ v.stages = stages /\ v.state = state
    BY <1>1, <1>6, <1>10, <1>11 DEF Workflow
<1> HIDE DEF v
<1>13. ASSUME NEW j \in DOMAIN v.stages
       PROVE  /\ StageOK(v.stages[j])
              /\ v.state \in {"pending", "approved"} => ~has_rejection(v.stages[j])
              /\ v.state = "approved" => quorum_met(v.stages[j])
    <2>1. StageOK(w.stages[j]) /\ ~has_rejection(w.stages[j])
        BY <1>1, <1>10, <1>12 DEF WorkflowOK
    <2>2. v.stages[j] = IF j = i THEN e ELSE w.stages[j]
        BY <1>10, <1>12
    <2>3. v.state \in {"pending", "approved"} => d.approved
        BY <1>11, <1>12
    <2>4. v.state = "approved" => quorum_met(v.stages[j])
        BY <1>11, <1>12
    <2> QED  BY <1>9, <2>1, <2>2, <2>3, <2>4
<1>14. WorkflowOK(v)
    BY <1>12, <1>13 DEF WorkflowOK
<1> QED  BY <1>14 DEF v

\* So does the end of its lease.
LEMMA ExpireKeeps ==
    ASSUME NEW w, WorkflowOK(w), w.state = "pending"
    PROVE  WorkflowOK(expire(w)) /\ expire(w).state = "expired"
<1>1. expire(w) \in Workflow /\ expire(w).stages = w.stages /\ expire(w).state = "expired"
    BY DEF expire, WorkflowOK, Workflow
<1> QED  BY <1>1 DEF WorkflowOK

\* The first rule that matches is one of the set's.
LEMMA VerdictTyped ==
    ASSUME NEW set, NEW ctx, NEW R, set.rules \in Seq(R),
           \A rule \in R : rule.do \in PolicyAction /\ rule.stages \in Seq(StageSpec)
    PROVE  evaluate_at(set, ctx) \in Verdicts
<1> DEFINE matching == {i \in DOMAIN set.rules : condition_matches_at(set, set.rules[i], ctx)}
           first == CHOOSE i \in matching : \A j \in matching : i <= j
<1>1. << >> \in Seq(StageSpec) /\ AnyApprover \in Seq(StageSpec)
    BY DEF AnyApprover, StageSpec
<1>2. ASSUME NEW rule \in R
      PROVE  action_to_verdict(rule) \in Verdicts
    BY <1>1 DEF action_to_verdict, Verdict, Verdicts, PolicyAction
<1>3. matching # {} => set.rules[first] \in R
    <2>1. matching \subseteq Nat /\ matching \subseteq DOMAIN set.rules
        OBVIOUS
    <2> HIDE DEF matching
    <2>2. matching # {} => first \in matching
        BY <2>1, FirstIndex
    <2> QED  BY <2>1, <2>2, ElementOf
<1>4. /\ Verdict("simulation_failed", << >>) \in Verdicts
      /\ Verdict("requires_human_approval", AnyApprover) \in Verdicts
    BY <1>1 DEF Verdict, Verdicts
<1>5. evaluate_at(set, ctx) =
          IF ctx.sim # NULL /\ ~ctx.sim.success THEN Verdict("simulation_failed", << >>)
          ELSE IF matching = {} THEN Verdict("requires_human_approval", AnyApprover)
          ELSE action_to_verdict(set.rules[first])
    BY DEF evaluate_at
<1> HIDE DEF matching, first
<1> QED  BY <1>2, <1>3, <1>4, <1>5

-----------------------------------------------------------------------------
(* One step, one request. *)

\* Nothing is said of a task that is not there.
LEMMA NoTaskFits ==
    /\ NoTask \in Task /\ NoTask.pc = "idle" /\ NoTask.pc \notin Live
    /\ NoTask.tx = NULL /\ NoTask.mode = NULL
    /\ \A k, a : TaskOK(NoTask, k, a)
    /\ Fits(NoTask)
<1>1. NoTask \in Task
    BY DEF NoTask, Task, PCs
<1>2. /\ NoTask.pc = "idle" /\ NoTask.tx = NULL /\ NoTask.mode = NULL
      /\ NoTask.pc \notin Live \cup Pipeline \cup Parking \cup Deciding \cup Building
    BY DEF NoTask, Live, Pipeline, Parking, Deciding, Building
<1>3. ASSUME NEW k, NEW a PROVE TaskOK(NoTask, k, a)
    <2>1. NoTask.mode \notin {"HumanGranted", "JIT"}
        BY <1>2, ReviewNullAssumption
    <2> QED  BY <1>2, <2>1 DEF TaskOK
<1> QED  BY <1>1, <1>2, <1>3 DEF Fits

\* Initially there is nothing.
LEMMA ReviewInitially == ReviewInit => ReviewInv
<1> SUFFICES ASSUME ReviewInit
             PROVE  ReviewInv
    OBVIOUS
<1>1. Typed
    BY NoTaskFits, ReviewBoundsAssumption
    DEF ReviewInit, PendingInit, Empty, Typed, Tables
<1>2. \A t \in Tasks : tasks[t] = NoTask
    BY DEF ReviewInit
<1>3. \A r \in Requests : RowOK(r)
    BY DEF ReviewInit, PendingInit, Empty, RowOK, Waiting
<1>4. \A r \in Requests : SwapOK(r)
    <2>1. NULL \notin {"approved_waiting_jit", "jit_building"}
        BY ReviewNullAssumption DEF SwapStates
    <2> QED  BY <2>1 DEF ReviewInit, PendingInit, Empty, SwapOK, HalfBuilt
<1>5. OneLive
    BY <1>2, NoTaskFits DEF OneLive
<1> QED  BY <1>1, <1>2, <1>3, <1>4, <1>5, NoTaskFits DEF ReviewInv, BootOK, ReviewInit

Same(r) ==
    /\ kinds'[r] = kinds[r] /\ signed'[r] = signed[r] /\ approvals'[r] = approvals[r]
    /\ workflows'[r] = workflows[r] /\ signatures'[r] = signatures[r]
    /\ metas'[r] = metas[r] /\ swaps'[r] = swaps[r]

NoOther(t, r) == \A u \in Tasks \ {t} : ~IsLive(u, r)

\* Outside the pipeline, a task does not look at what was parked.
LEMMA ParkedAside ==
    ASSUME NEW q, NEW k, NEW a, NEW b, TaskOK(q, k, a), q.pc \notin Live
    PROVE  TaskOK(q, k, b)
BY DEF TaskOK, Live

\* A step of a task that touches the rows of its request alone keeps the
\* invariant when it leaves the task and these rows in order, and when the
\* rows that a live task relies on have no other one that does.
LEMMA OneRequest ==
    ASSUME ReviewInv, NEW t \in Tasks, NEW q \in Task, NEW r \in Requests,
           tasks' = [tasks EXCEPT ![t] = q],
           tasks[t].pc = "idle" \/ tasks[t].request = r,
           q = NoTask \/ q.request = r,
           boot.step = "up", UNCHANGED <<now, crashes, boot>>,
           \A p \in Requests \ {r} : Same(p),
           Tables', Fits(q)', RowOK(r)', SwapOK(r)',
           kinds[r] # NULL => kinds'[r] = kinds[r],
           signed[r] # << >> => signed'[r] # << >>,
           workflows[r] # NULL => workflows'[r] # NULL,
           \/ /\ UNCHANGED <<approvals, signed, signatures>> /\ q.pc \notin Live
           \/ NoOther(t, r)
    PROVE  ReviewInv'
<1>0. /\ Typed /\ OneLive /\ BootOK /\ \A p \in Requests : RowOK(p)
      /\ \A u \in Tasks : Fits(tasks[u])
    BY DEF ReviewInv
<1>1. \A u \in Tasks : tasks'[u] = IF u = t THEN q ELSE tasks[u]
    BY <1>0 DEF Typed
<1>2. Typed'
    BY <1>0 DEF Typed
<1>3. ASSUME NEW u \in Tasks, u # t
      PROVE  Fits(tasks[u])'
    <2> DEFINE x == tasks[u]
               p == tasks[u].request
    <2>1. TaskOK(x, kinds[p], approvals[p]) /\ (x.pc \in Live => LiveOK(p))
          /\ (x.pc = "complete" => signed[p] # << >>)
          /\ (x.pc = "park" => workflows[p] # NULL)
        BY <1>0 DEF Fits
    <2>2. tasks'[u] = x
        BY <1>1, <1>3
    <2>3. CASE x.pc = "idle"
        <3>1. x = NoTask
            BY <2>1, <2>3 DEF TaskOK
        <3>2. Fits(NoTask)'
            BY NoTaskFits DEF Fits, NoTask
        <3> QED  BY <2>2, <3>1, <3>2
    <2>4. CASE x.pc # "idle" /\ p # r
        <3>1. p \in Requests
            BY <2>1, <2>4 DEF TaskOK
        <3>2. Same(p)
            BY <2>4, <3>1
        <3> QED  BY <2>1, <2>2, <3>2 DEF Fits, Same, LiveOK
    <2>5. CASE x.pc # "idle" /\ p = r
        <3>1. kinds'[p] = kinds[p]
            BY <2>1, <2>5 DEF TaskOK
        <3>2. CASE UNCHANGED <<approvals, signed, signatures>>
            BY <2>1, <2>2, <2>5, <3>1, <3>2 DEF Fits, LiveOK
        <3>3. CASE NoOther(t, r)
            <4>1. x.pc \notin Live
                BY <1>3, <2>5, <3>3 DEF NoOther, IsLive
            <4>2. TaskOK(x, kinds[p], approvals'[p])
                BY <2>1, <4>1, ParkedAside
            <4> QED  BY <2>1, <2>2, <2>5, <3>1, <4>1, <4>2 DEF Fits
        <3> QED  BY <3>2, <3>3
    <2> QED  BY <2>3, <2>4, <2>5
<1>4. \A u \in Tasks : Fits(tasks[u])'
    <2>1. Fits(tasks[t])'
        BY <1>1
    <2> QED  BY <1>3, <2>1
<1>5. OneLive'
    <2>1. q.pc \in Live => q.request = r /\ NoOther(t, r)
        BY NoTaskFits
    <2> QED  BY <1>0, <1>1, <2>1 DEF OneLive, NoOther, IsLive
<1>6. \A p \in Requests : RowOK(p)'
    <2>1. ASSUME NEW p \in Requests, p # r
          PROVE  RowOK(p)'
        <3>1. Same(p) /\ RowOK(p)
            BY <1>0, <2>1
        <3> QED  BY <3>1 DEF Same, RowOK
    <2> QED  BY <2>1
<1>7. \A p \in Requests : SwapOK(p)'
    <2>1. ASSUME NEW p \in Requests, p # r
          PROVE  SwapOK(p)'
        <3>1. Same(p) /\ SwapOK(p)
            BY <1>0, <2>1 DEF BootOK
        <3>2. ASSUME NEW u \in Tasks, tasks[u].request = p, tasks[u].pc \in Building \cup Ending
              PROVE  tasks'[u] = tasks[u]
            BY <1>1, <2>1, <3>2 DEF Building, Ending
        <3> QED  BY <3>1, <3>2 DEF SwapOK, HalfBuilt, Same
    <2> QED  BY <2>1
<1> QED  BY <1>0, <1>2, <1>4, <1>5, <1>6, <1>7 DEF ReviewInv, BootOK

-----------------------------------------------------------------------------
(* The pipeline. *)

\* What a task knows of its request.
LEMMA OneTask ==
    ASSUME ReviewInv, NEW t \in Tasks, tasks[t].pc # "idle"
    PROVE  /\ tasks[t] \in Task /\ tasks[t].request \in Requests
           /\ boot.step = "up"
           /\ kinds[tasks[t].request] \in Kind
           /\ TaskOK(tasks[t], kinds[tasks[t].request], approvals[tasks[t].request])
           /\ RowOK(tasks[t].request) /\ SwapOK(tasks[t].request)
           /\ tasks[t].pc \in Live =>
                 LiveOK(tasks[t].request) /\ NoOther(t, tasks[t].request)
           /\ tasks[t].pc = "complete" => signed[tasks[t].request] # << >>
           /\ tasks[t].pc = "park" => workflows[tasks[t].request] # NULL
<1>1. /\ tasks[t] \in Task /\ Fits(tasks[t])
      /\ OneLive /\ BootOK /\ \A p \in Requests : RowOK(p)
    BY DEF ReviewInv, Typed
<1>2. TaskOK(tasks[t], kinds[tasks[t].request], approvals[tasks[t].request])
    BY <1>1 DEF Fits
<1>3. tasks[t].request \in Requests /\ kinds[tasks[t].request] # NULL
    BY <1>2 DEF TaskOK
<1>4. kinds[tasks[t].request] \in Kind
    BY <1>3 DEF ReviewInv, Typed, Tables
<1>5. boot.step = "up"
    BY <1>1, NoTaskFits DEF BootOK
<1>6. tasks[t].pc \in Live => LiveOK(tasks[t].request) /\ NoOther(t, tasks[t].request)
    BY <1>1 DEF Fits, OneLive, NoOther, IsLive
<1> QED  BY <1>1, <1>2, <1>3, <1>4, <1>5, <1>6 DEF BootOK, Fits

\* A step of the pipeline that signs nothing.
LEMMA PipelineMoves ==
    ASSUME ReviewInv, NEW t \in Tasks, tasks[t].pc \in Pipeline, NEW q \in Task,
           tasks' = [tasks EXCEPT ![t] = q],
           UNCHANGED <<now, kinds, signed, boot, crashes, pendingVars>>,
           \/ q = NoTask
           \/ /\ q.request = tasks[t].request /\ q.pc \in Live \ {"park"}
              /\ TaskOK(q, kinds[q.request], approvals[q.request])
    PROVE  ReviewInv'
<1>1. /\ tasks[t].pc # "idle" /\ tasks[t].pc \in Live
      /\ tasks[t].pc \notin Building \cup Ending /\ "complete" \notin Live
    BY DEF Live, Pipeline, Building, Ending, Parking
<1>0. PICK r \in Requests : r = tasks[t].request
    BY <1>1, OneTask
<1>2. /\ r \in Requests /\ boot.step = "up" /\ RowOK(r) /\ SwapOK(r)
      /\ LiveOK(r) /\ NoOther(t, r)
    BY <1>0, <1>1, OneTask
<1>3. /\ \A p \in Requests \ {r} : Same(p)
      /\ Tables' /\ RowOK(r)'
    BY <1>2 DEF pendingVars, Same, ReviewInv, Typed, Tables, RowOK, Waiting
<1>4. SwapOK(r)'
    <2>1. \A u \in Tasks : tasks[u].pc \in Building \cup Ending => tasks'[u] = tasks[u]
        BY <1>1 DEF ReviewInv, Typed
    <2> QED  BY <1>2, <2>1 DEF SwapOK, HalfBuilt, pendingVars
<1>5. Fits(q)'
    <2>1. CASE q = NoTask
        <3>1. Fits(NoTask)'
            BY NoTaskFits DEF Fits, NoTask
        <3> QED  BY <2>1, <3>1
    <2>2. CASE /\ q.request = r /\ q.pc \in Live \ {"park"}
               /\ TaskOK(q, kinds[q.request], approvals[q.request])
        BY <1>0, <1>1, <1>2, <2>2 DEF Fits, LiveOK, pendingVars, Waiting
    <2> QED  BY <1>0, <2>1, <2>2
<1>6. /\ kinds[r] # NULL => kinds'[r] = kinds[r]
      /\ signed[r] # << >> => signed'[r] # << >>
      /\ workflows[r] # NULL => workflows'[r] # NULL
    BY DEF pendingVars
<1>7. q = NoTask \/ q.request = r
    BY <1>0
<1>8. UNCHANGED <<now, crashes, boot>>
    OBVIOUS
<1> QED  BY <1>0, <1>2, <1>3, <1>4, <1>5, <1>6, <1>7, <1>8, OneRequest

\* A transaction without its blockhash.
LEMMA BodyIs ==
    ASSUME NEW tx \in Tx
    PROVE  /\ Body(tx) = [proposal |-> tx.proposal, limit |-> tx.limit, price |-> tx.price,
                          blockhash |-> NULL]
           /\ Body(tx) \in Tx
BY DEF Body, Tx

\* The transaction of the first simulation.
Budget(before, fee, h) ==
    [prepend_compute_budget(before, DEFAULT_COMPUTE_UNITS, fee) EXCEPT !.blockhash = h]

\* What simulate puts in front of a proposal.
LEMMA Budgeted ==
    ASSUME NEW before \in Tx, NEW fee \in Nat, NEW h \in Nat
    PROVE  LET tx == Budget(before, fee, h) IN
           /\ tx \in Tx /\ tx.blockhash = h /\ has_compute_budget_instructions(tx)
           /\ ~has_compute_budget_instructions(before) => tx.limit = DEFAULT_COMPUTE_UNITS
           /\ has_compute_budget_instructions(before) => Body(tx) = Body(before)
<1> DEFINE tx == Budget(before, fee, h)
<1>1. CASE has_compute_budget_instructions(before)
    <2>1. tx = [before EXCEPT !.blockhash = h]
        BY <1>1 DEF prepend_compute_budget, Budget
    <2>2. /\ tx \in Tx /\ tx.blockhash = h /\ tx.limit = before.limit
          /\ tx.price = before.price /\ tx.proposal = before.proposal
        BY <2>1 DEF Tx
    <2> QED  BY <1>1, <2>2, BodyIs DEF has_compute_budget_instructions
<1>2. CASE ~has_compute_budget_instructions(before)
    <2> DEFINE price == IF fee > 0 THEN fee ELSE NULL
               with == [before EXCEPT !.limit = DEFAULT_COMPUTE_UNITS, !.price = price]
    <2>1. tx = [with EXCEPT !.blockhash = h]
        BY <1>2 DEF prepend_compute_budget, Budget
    <2>2. with \in Tx /\ with.limit = DEFAULT_COMPUTE_UNITS
        BY UnitsAssumption DEF Tx
    <2> HIDE DEF with
    <2>3. tx \in Tx /\ tx.blockhash = h /\ tx.limit = DEFAULT_COMPUTE_UNITS
        BY <2>1, <2>2 DEF Tx
    <2>4. DEFAULT_COMPUTE_UNITS # NULL
        BY UnitsAssumption, ReviewNullAssumption
    <2> QED  BY <1>2, <2>3, <2>4 DEF has_compute_budget_instructions
<1> QED  BY <1>1, <1>2

\* What simulateTransaction answers.
LEMMA OutputsTyped ==
    ASSUME NEW tx, NEW sim \in Outputs(tx), sim # NULL
    PROVE  sim \in Sims
<1>1. PICK u \in Usage : sim = [success |-> TRUE, units |-> u, fee |-> NULL, diff |-> NULL]
    BY DEF Outputs
<1>2. u \in Nat \cup {NULL}
    BY AmountsAssumption
<1> QED  BY <1>1, <1>2 DEF Sims

\* The clamp of compute_limit_from_simulation.
LEMMA UnitsTyped ==
    ASSUME NEW used \in Nat
    PROVE  compute_limit_from_simulation(used) \in Nat
BY UnitsAssumption DEF compute_limit_from_simulation

\* A task after its simulation.
LEMMA SimulatedFits ==
    ASSUME ReviewInv, NEW t \in Tasks, tasks[t].pc \in {"first", "second"}, NEW task \in Task,
           task.request = tasks[t].request, task.mode = tasks[t].mode,
           task.workflow = tasks[t].workflow, task.tx \in Tx,
           Body(task.tx) \in task.passed, task.lastValid = task.tx.blockhash,
           has_compute_budget_instructions(task.tx),
           task.mode = "HumanGranted" => Body(task.tx) = Body(tasks[t].tx),
           Simulated(t, task),
           UNCHANGED <<now, kinds, signed, boot, crashes, pendingVars>>
    PROVE  ReviewInv'
<1> DEFINE k == kinds[tasks[t].request]
           a == approvals[tasks[t].request]
           pc == IF k.kind = "executor" THEN "audit" ELSE "policy"
           q == [task EXCEPT !.pc = pc]
<1>1. tasks' = [tasks EXCEPT ![t] = q]
    BY DEF Simulated, Become
<1>2. tasks[t].pc \in Pipeline /\ tasks[t].pc # "idle"
    BY DEF Pipeline
<1>3. TaskOK(tasks[t], k, a) /\ tasks[t].request \in Requests /\ k # NULL
    BY <1>2, OneTask DEF TaskOK
<1>4. pc \in {"audit", "policy"} /\ (pc = "policy" => k.kind # "executor")
    OBVIOUS
<1> HIDE DEF pc, k, a
<1>5. /\ q \in Task /\ q.pc = pc /\ q.request = task.request /\ q.mode = task.mode
      /\ q.workflow = task.workflow /\ q.tx = task.tx /\ q.passed = task.passed
      /\ q.lastValid = task.lastValid
    BY <1>4 DEF Task, PCs, Live, Pipeline
<1> HIDE DEF q
<1>6. PipelineOK(tasks[t], k, a)
    BY <1>2, <1>3 DEF TaskOK
<1>7. PipelineOK(q, k, a)
    BY <1>4, <1>5, <1>6 DEF PipelineOK
<1>8. TaskOK(q, k, a)
    BY <1>2, <1>3, <1>4, <1>5, <1>7
    DEF TaskOK, Pipeline, Parking, Deciding, Building
<1>9. q.pc \in Live \ {"park"}
    BY <1>4, <1>5 DEF Live, Pipeline
<1> QED  BY <1>1, <1>2, <1>5, <1>8, <1>9, PipelineMoves DEF k, a

\* A task that gives up.
LEMMA PipelineEnds ==
    ASSUME ReviewInv, NEW t \in Tasks, tasks[t].pc \in Pipeline, End(t),
           UNCHANGED <<now, kinds, signed, boot, crashes, pendingVars>>
    PROVE  ReviewInv'
BY NoTaskFits, PipelineMoves DEF End, Become

\* The first simulation binds the body that passed to the task; a transaction
\* that came back from its approval already has a budget and is not changed.
LEMMA FirstPassKeeps ==
    ASSUME ReviewInv, NEW t \in Tasks, NEW fee \in Fees, NEW h \in Fresh, NEW sim,
           FirstPass(t, fee, h, sim)
    PROVE  ReviewInv'
<1> DEFINE r == tasks[t].request
           before == tasks[t].tx
           prepended == ~has_compute_budget_instructions(before)
           tx == Budget(before, fee, h)
           task == [tasks[t] EXCEPT !.tx = tx, !.lastValid = h, !.sim = sim,
                                    !.passed = {Body(tx)}]
<1>1. /\ tasks[t].pc = "first" /\ tasks[t].pc \in Pipeline
      /\ sim \in Outputs(tx)
      /\ UNCHANGED <<now, kinds, signed, boot, crashes, pendingVars>>
      /\ IF sim = NULL THEN End(t)
         ELSE IF /\ prepended /\ sim.units # NULL
                 /\ should_tighten(DEFAULT_COMPUTE_UNITS,
                                   compute_limit_from_simulation(sim.units))
              THEN Become(t, [task EXCEPT !.pc = "second"])
              ELSE Simulated(t, task)
    BY DEF FirstPass, Pipeline, Budget
<1>2. /\ tasks[t] \in Task /\ r \in Requests /\ kinds[r] \in Kind
      /\ TaskOK(tasks[t], kinds[r], approvals[r])
    BY <1>1, OneTask
<1>3. PipelineOK(tasks[t], kinds[r], approvals[r]) /\ kinds[r] # NULL
    BY <1>1, <1>2 DEF TaskOK
<1>4. before \in Tx /\ fee \in Nat /\ h \in Nat
    BY <1>3, AmountsAssumption, ReviewBoundsAssumption DEF PipelineOK, Fresh
<1>5. /\ tx \in Tx /\ tx.blockhash = h /\ has_compute_budget_instructions(tx)
      /\ prepended => tx.limit = DEFAULT_COMPUTE_UNITS
      /\ ~prepended => Body(tx) = Body(before)
    BY <1>4, Budgeted
<1>6. Body(tx) \in Tx
    BY <1>5, BodyIs
<1>7. CASE sim = NULL
    BY <1>1, <1>7, PipelineEnds
<1>8. CASE sim # NULL
    <2>1. sim \in Sims
        BY <1>1, <1>8, OutputsTyped
    <2> HIDE DEF tx, prepended
    <2>2. /\ task \in Task /\ task.pc = "first" /\ task.request = r
          /\ task.mode = tasks[t].mode /\ task.workflow = tasks[t].workflow
          /\ task.tx = tx /\ task.lastValid = h /\ task.sim = sim /\ task.passed = {Body(tx)}
        BY <1>1, <1>2, <1>4, <1>5, <1>6, <2>1 DEF Task
    <2>3. tasks[t].mode = "HumanGranted" => ~prepended
        BY <1>3 DEF PipelineOK, prepended
    <2> HIDE DEF task
    <2>4. CASE Simulated(t, task)
        BY <1>1, <1>5, <2>2, <2>3, <2>4, SimulatedFits
    <2>5. CASE /\ prepended /\ sim.units # NULL
               /\ Become(t, [task EXCEPT !.pc = "second"])
        <3> DEFINE q == [task EXCEPT !.pc = "second"]
        <3>1. tasks' = [tasks EXCEPT ![t] = q]
            BY <2>5 DEF Become
        <3>2. /\ q \in Task /\ q.pc = "second" /\ q.request = r
              /\ q.mode = task.mode /\ q.workflow = task.workflow
              /\ q.tx = tx /\ q.lastValid = h /\ q.sim = sim /\ q.passed = {Body(tx)}
            BY <2>2 DEF Task, PCs, Live, Pipeline
        <3> HIDE DEF q
        <3>3. sim.units \in Nat
            BY <2>1, <2>5 DEF Sims
        <3>4. PipelineOK(q, kinds[r], approvals[r])
            BY <1>3, <1>5, <2>1, <2>2, <2>3, <2>5, <3>2, <3>3 DEF PipelineOK
        <3>5. TaskOK(q, kinds[r], approvals[r]) /\ q.pc \in Live \ {"park"}
            BY <1>2, <1>3, <2>2, <3>2, <3>4 DEF TaskOK, Pipeline, Parking, Deciding, Building, Live
        <3> QED  BY <1>1, <3>1, <3>2, <3>5, PipelineMoves
    <2> QED  BY <1>1, <1>8, <2>4, <2>5
<1> QED  BY <1>7, <1>8

\* The second pass: what it tightens passed itself, and when it fails the
\* default limit makes the body again that passed first.
LEMMA SecondPassKeeps ==
    ASSUME ReviewInv, NEW t \in Tasks, NEW h \in Fresh, NEW sim, SecondPass(t, h, sim)
    PROVE  ReviewInv'
<1> DEFINE r == tasks[t].request
           tx == tasks[t].tx
           units == compute_limit_from_simulation(tasks[t].sim.units)
           tight == [replace_compute_unit_limit(tx, units) EXCEPT !.blockhash = h]
           loose == [tight EXCEPT !.limit = DEFAULT_COMPUTE_UNITS]
           failed == [tasks[t] EXCEPT !.tx = Fallback(tight), !.lastValid = h]
           passed == [tasks[t] EXCEPT !.tx = tight, !.lastValid = h, !.sim = sim,
                                      !.passed = @ \cup {Body(tight)}]
<1>1. /\ tasks[t].pc = "second" /\ tasks[t].pc \in Pipeline
      /\ sim \in Outputs(tight)
      /\ UNCHANGED <<now, kinds, signed, boot, crashes, pendingVars>>
      /\ IF sim = NULL THEN Simulated(t, failed) ELSE Simulated(t, passed)
    BY DEF SecondPass, Pipeline
<1>2. /\ tasks[t] \in Task /\ r \in Requests /\ kinds[r] \in Kind
      /\ TaskOK(tasks[t], kinds[r], approvals[r])
    BY <1>1, OneTask
<1>3. /\ tx \in Tx /\ tx.limit = DEFAULT_COMPUTE_UNITS /\ tasks[t].sim.units \in Nat
      /\ Body(tx) \in tasks[t].passed /\ tasks[t].mode # "HumanGranted"
      /\ tasks[t].passed \in SUBSET Tx
    BY <1>1, <1>2 DEF TaskOK, PipelineOK, Task
<1>4. units \in Nat /\ h \in Nat /\ DEFAULT_COMPUTE_UNITS \in Nat /\ NULL \notin Nat
    BY <1>3, UnitsTyped, UnitsAssumption, ReviewBoundsAssumption, ReviewNullAssumption
    DEF Fresh
<1>5. tight = [[tx EXCEPT !.limit = units] EXCEPT !.blockhash = h]
    BY <1>3, <1>4 DEF replace_compute_unit_limit
<1> HIDE DEF units
<1>6. /\ tight \in Tx /\ tight.blockhash = h /\ tight.limit = units
      /\ tight.proposal = tx.proposal /\ tight.price = tx.price
    BY <1>3, <1>4, <1>5 DEF Tx
<1> HIDE DEF tight
<1>7. Fallback(tight) = loose
    BY <1>4, <1>6 DEF Fallback, replace_compute_unit_limit
<1>8. /\ loose \in Tx /\ loose.blockhash = h /\ loose.limit = DEFAULT_COMPUTE_UNITS
      /\ loose.proposal = tx.proposal /\ loose.price = tx.price
    BY <1>4, <1>6 DEF Tx
<1> HIDE DEF loose
<1>9. /\ Body(loose) = Body(tx) /\ Body(tight) \in Tx
      /\ has_compute_budget_instructions(loose) /\ has_compute_budget_instructions(tight)
    BY <1>3, <1>4, <1>6, <1>8, BodyIs DEF has_compute_budget_instructions
<1>10. CASE sim = NULL
    <2>1. /\ failed \in Task /\ failed.request = r /\ failed.mode = tasks[t].mode
          /\ failed.workflow = tasks[t].workflow /\ failed.tx = loose
          /\ failed.lastValid = h /\ failed.passed = tasks[t].passed
        BY <1>2, <1>4, <1>7, <1>8 DEF Task
    <2> HIDE DEF failed
    <2>2. Simulated(t, failed)
        BY <1>1, <1>10
    <2> QED  BY <1>1, <1>3, <1>8, <1>9, <2>1, <2>2, SimulatedFits
<1>11. CASE sim # NULL
    <2>0. sim \in Sims
        BY <1>1, <1>11, OutputsTyped
    <2>1. /\ passed \in Task /\ passed.request = r /\ passed.mode = tasks[t].mode
          /\ passed.workflow = tasks[t].workflow /\ passed.tx = tight
          /\ passed.lastValid = h /\ passed.passed = tasks[t].passed \cup {Body(tight)}
        BY <1>2, <1>3, <1>4, <1>6, <1>9, <2>0 DEF Task
    <2> HIDE DEF passed
    <2>2. Simulated(t, passed)
        BY <1>1, <1>11
    <2> QED  BY <1>1, <1>3, <1>6, <1>9, <2>1, <2>2, SimulatedFits
<1> QED  BY <1>10, <1>11

\* What the executor shows is what goes on to be judged.
LEMMA AuditKeeps ==
    ASSUME ReviewInv, NEW t \in Tasks, Audit(t)
    PROVE  ReviewInv'
<1> DEFINE r == tasks[t].request
           q == [tasks[t] EXCEPT !.pc = "policy", !.audited = tasks[t].tx]
<1>1. /\ tasks[t].pc = "audit" /\ tasks[t].pc \in Pipeline
      /\ tasks' = [tasks EXCEPT ![t] = q]
      /\ UNCHANGED <<now, kinds, signed, boot, crashes, pendingVars>>
    BY DEF Audit, Become, Pipeline
<1>2. /\ tasks[t] \in Task /\ r \in Requests /\ kinds[r] \in Kind
      /\ TaskOK(tasks[t], kinds[r], approvals[r])
    BY <1>1, OneTask
<1>3. PipelineOK(tasks[t], kinds[r], approvals[r]) /\ kinds[r] # NULL
    BY <1>1, <1>2 DEF TaskOK
<1>4. /\ q \in Task /\ q.pc = "policy" /\ q.request = r
      /\ q.mode = tasks[t].mode /\ q.workflow = tasks[t].workflow
      /\ q.tx = tasks[t].tx /\ q.lastValid = tasks[t].lastValid
      /\ q.passed = tasks[t].passed /\ q.audited = tasks[t].tx
    BY <1>2 DEF Task, PCs, Live, Pipeline
<1> HIDE DEF q
<1>5. PipelineOK(q, kinds[r], approvals[r])
    BY <1>1, <1>3, <1>4 DEF PipelineOK
<1>6. TaskOK(q, kinds[r], approvals[r]) /\ q.pc \in Live \ {"park"}
    BY <1>2, <1>3, <1>4, <1>5 DEF TaskOK, Pipeline, Parking, Deciding, Building, Live
<1> QED  BY <1>1, <1>4, <1>6, PipelineMoves

\* The rules of a policy in force are rules.
LEMMA PolicyTyped ==
    ASSUME NEW k \in Kind, NEW set, set # NULL, NEW ctx,
           set = IF k.kind = "executor" THEN execution_policy
                 ELSE with_session_rules(GlobalPolicy, k.session)
    PROVE  evaluate_at(set, ctx) \in Verdicts
<1>1. CASE k.kind = "executor"
    <2> DEFINE amount == Canonical.instructions[4].token.amount
               r1 == Rule("SimulationNotPassed", NULL, "Reject", << >>)
               r2 == Rule("ProgramNotInAllowlist", NULL, "Reject", << >>)
               r3 == Rule("LegacyTokenTransferPresent", NULL, "Reject", << >>)
               r4 == Rule("MintNotInAllowlist", {Usdc}, "Reject", << >>)
               r5 == Rule("TokenAmountExceeds",
                          [mint |-> Usdc, threshold |-> amount + 1], "Reject", << >>)
               r6 == Rule("Always", NULL, "Approve", << >>)
               R == {r1, r2, r3, r4, r5, r6}
    <2>1. set.rules = <<r1, r2, r3, r4, r5, r6>>
        BY <1>1 DEF execution_policy
    <2>2. /\ r1.do = "Reject" /\ r1.stages = << >> /\ r2.do = "Reject" /\ r2.stages = << >>
          /\ r3.do = "Reject" /\ r3.stages = << >> /\ r4.do = "Reject" /\ r4.stages = << >>
          /\ r5.do = "Reject" /\ r5.stages = << >> /\ r6.do = "Approve" /\ r6.stages = << >>
        BY DEF Rule
    <2> HIDE DEF r1, r2, r3, r4, r5, r6
    <2>3. \A rule \in R : rule.do \in PolicyAction /\ rule.stages \in Seq(StageSpec)
        <3>1. << >> \in Seq(StageSpec)
            OBVIOUS
        <3> QED  BY <2>2, <3>1 DEF PolicyAction
    <2>4. set.rules \in Seq(R)
        <3>1. r1 \in R /\ r2 \in R /\ r3 \in R /\ r4 \in R /\ r5 \in R /\ r6 \in R
            OBVIOUS
        <3> HIDE DEF R
        <3>2. <<r1, r2, r3, r4, r5, r6>> \in Seq(R)
            BY <3>1
        <3> QED  BY <2>1, <3>2
    <2> HIDE DEF R
    <2> QED  BY <2>3, <2>4, VerdictTyped
<1>2. CASE k.kind # "executor"
    <2> DEFINE own == k.session
               common == GlobalPolicy.rules
               A == {own[i] : i \in DOMAIN own}
               B == {common[i] : i \in DOMAIN common}
               R == A \cup B
    <2>1. own \in SessionRules \cup {GlobalPolicy.rules} /\ common \in SessionRules \cup {GlobalPolicy.rules}
        BY DEF Kind
    <2>2. own \in Seq(A) /\ common \in Seq(B)
        BY <2>1, RulesAssumption, Zenon
    <2>3. /\ \A rule \in A : rule.do \in PolicyAction /\ rule.stages \in Seq(StageSpec)
          /\ \A rule \in B : rule.do \in PolicyAction /\ rule.stages \in Seq(StageSpec)
        BY <2>1, RulesAssumption
    <2>4. set.rules = own \o common
        BY <1>2, RulesAssumption DEF with_session_rules
    <2> HIDE DEF A, B, own, common
    <2>5. own \in Seq(R) /\ common \in Seq(R)
        BY <2>2
    <2>6. set.rules \in Seq(R)
        BY <2>4, <2>5, ConcatProperties
    <2>7. \A rule \in R : rule.do \in PolicyAction /\ rule.stages \in Seq(StageSpec)
        BY <2>3
    <2> HIDE DEF R
    <2> QED  BY <2>6, <2>7, VerdictTyped
<1> QED  BY <1>1, <1>2

\* Only what is not blocked becomes an ApprovedTransaction, and for the
\* executor only the builder's own transaction.
LEMMA EvaluatePolicyKeeps ==
    ASSUME ReviewInv, NEW t \in Tasks, NEW spent, EvaluatePolicy(t, spent)
    PROVE  ReviewInv'
<1> DEFINE r == tasks[t].request
           k == kinds[r]
           task == tasks[t]
           executor == k.kind = "executor"
           summary == IF executor THEN validate_and_summarize(task.tx)
                      ELSE task.tx.proposal.instructions
           set == PolicyOf(task)
           ctx == [network |-> task.tx.proposal.network, instructions |-> summary,
                   sim |-> task.sim, spent |-> spent, now |-> now]
           verdict == evaluate_at(set, ctx)
           q == ApprovedTransaction(task, verdict)
<1>1. /\ task.pc = "policy" /\ task.pc \in Pipeline
      /\ UNCHANGED <<now, kinds, signed, boot, crashes, pendingVars>>
      /\ \/ End(t)
         \/ /\ summary # NULL /\ set # NULL /\ ~is_blocked(verdict)
            /\ tasks' = [tasks EXCEPT ![t] = q]
    BY DEF EvaluatePolicy, Pipeline, Become
<1>2. /\ tasks[t] \in Task /\ r \in Requests /\ k \in Kind
      /\ TaskOK(tasks[t], k, approvals[r])
    BY <1>1, OneTask
<1>3. PipelineOK(tasks[t], k, approvals[r]) /\ k # NULL
    BY <1>1, <1>2 DEF TaskOK
<1>4. CASE End(t)
    BY <1>1, <1>4, PipelineEnds
<1>5. CASE /\ summary # NULL /\ set # NULL /\ ~is_blocked(verdict)
           /\ tasks' = [tasks EXCEPT ![t] = q]
    <2>1. executor => Body(task.tx) = Unsigned(Canonical)
        BY <1>5 DEF validate_and_summarize
    <2>2. set = IF k.kind = "executor" THEN execution_policy
                ELSE with_session_rules(GlobalPolicy, k.session)
        BY DEF PolicyOf
    <2> HIDE DEF ctx, set
    <2>3. verdict \in Verdicts
        BY <1>2, <1>5, <2>2, PolicyTyped
    <2> HIDE DEF verdict
    <2>4. q = [task EXCEPT !.pc = "sign", !.verdict = verdict, !.hash = task.tx]
        BY DEF ApprovedTransaction, approval_tx_hash
    <2>5. /\ q \in Task /\ q.pc = "sign" /\ q.request = r
          /\ q.mode = task.mode /\ q.workflow = task.workflow /\ q.tx = task.tx
          /\ q.lastValid = task.lastValid /\ q.passed = task.passed
          /\ q.audited = task.audited /\ q.verdict = verdict
        BY <1>2, <2>3, <2>4 DEF Task, PCs, Live, Pipeline
    <2> HIDE DEF q, summary
    <2>6. PipelineOK(q, k, approvals[r])
        BY <1>1, <1>3, <1>5, <2>1, <2>3, <2>5 DEF PipelineOK
    <2>7. TaskOK(q, k, approvals[r]) /\ q.pc \in Live \ {"park"}
        BY <1>2, <1>3, <2>5, <2>6 DEF TaskOK, Pipeline, Parking, Deciding, Building, Live
    <2> QED  BY <1>1, <1>5, <2>5, <2>7, PipelineMoves
<1> QED  BY <1>1, <1>4, <1>5

\* The first signature of a request.
LEMMA SignsFirst ==
    ASSUME Tables, NEW r \in Requests, signed[r] = << >>, NEW s \in Signature,
           signed' = [signed EXCEPT ![r] = Append(@, s)]
    PROVE  /\ signed' \in [Requests -> Seq(Signature)]
           /\ signed'[r] = <<s>>
           /\ Len(signed'[r]) = 1 /\ signed'[r] # << >>
           /\ \A i \in DOMAIN signed'[r] : signed'[r][i] = s
           /\ \A p \in Requests \ {r} : signed'[p] = signed[p]
<1>1. signed \in [Requests -> Seq(Signature)]
    BY DEF Tables
<1>2. Append(<< >>, s) = <<s>> /\ <<s>> \in Seq(Signature)
    OBVIOUS
<1>3. signed' = [signed EXCEPT ![r] = <<s>>]
    BY <1>1, <1>2
<1> QED  BY <1>1, <1>2, <1>3

\* What Sign writes down.
Made(task) ==
    [tx |-> task.tx, mode |-> task.mode, passed |-> task.passed,
     lastValid |-> task.lastValid, verdict |-> task.verdict,
     audited |-> task.audited, workflow |-> task.workflow]

\* What a signature takes over from its task.
LEMMA MadeTyped ==
    ASSUME NEW task \in Task
    PROVE  /\ Made(task) \in Signature
           /\ Made(task).tx = task.tx /\ Made(task).mode = task.mode
           /\ Made(task).passed = task.passed /\ Made(task).lastValid = task.lastValid
           /\ Made(task).verdict = task.verdict /\ Made(task).audited = task.audited
           /\ Made(task).workflow = task.workflow
BY DEF Made, Task, Signature

\* sign uses the right, gives it to a parked approval, or drops it.
LEMMA SignOrParkKeeps ==
    ASSUME ReviewInv, NEW t \in Tasks, SignOrPark(t)
    PROVE  ReviewInv'
<1> DEFINE task == tasks[t]
           outcome == SignOutcome(task.mode, task.verdict)
<1>1. /\ task.pc = "sign" /\ task.pc \in Pipeline
      /\ UNCHANGED <<now, kinds, boot, crashes, pendingVars>>
      /\ \/ outcome = "awaiting" /\ Goto(t, "create") /\ UNCHANGED signed
         \/ End(t) /\ outcome = "signed" /\ Sign(task.request, task)
         \/ End(t) /\ UNCHANGED signed
    BY DEF SignOrPark, Pipeline
<1>0. PICK r \in Requests : r = tasks[t].request
    BY <1>1, OneTask
<1>2. /\ task \in Task /\ kinds[r] \in Kind /\ boot.step = "up"
      /\ TaskOK(task, kinds[r], approvals[r]) /\ RowOK(r) /\ SwapOK(r)
      /\ LiveOK(r) /\ NoOther(t, r)
    BY <1>0, <1>1, OneTask DEF Live
<1>3. PipelineOK(task, kinds[r], approvals[r]) /\ kinds[r] # NULL
    BY <1>1, <1>2 DEF TaskOK
<1>4. CASE End(t) /\ UNCHANGED signed
    BY <1>1, <1>4, PipelineEnds
<1>5. CASE outcome = "awaiting" /\ Goto(t, "create") /\ UNCHANGED signed
    <2> DEFINE q == [task EXCEPT !.pc = "create"]
    <2>1. tasks' = [tasks EXCEPT ![t] = q]
        BY <1>5 DEF Goto, ReviewInv, Typed
    <2>2. /\ q \in Task /\ q.pc = "create" /\ q.request = r
          /\ q.mode = task.mode /\ q.workflow = task.workflow /\ q.tx = task.tx
          /\ q.verdict = task.verdict
        BY <1>0, <1>2 DEF Task, PCs, Live, Parking
    <2>3. task.mode # "HumanGranted"
        BY <1>3, <1>5 DEF SignOutcome, PipelineOK
    <2> HIDE DEF q
    <2>4. TaskOK(q, kinds[r], approvals[r]) /\ q.pc \in Live \ {"park"}
        BY <1>1, <1>2, <1>3, <2>2, <2>3
        DEF TaskOK, PipelineOK, Pipeline, Parking, Deciding, Building, Live
    <2> QED  BY <1>0, <1>1, <1>5, <2>1, <2>2, <2>4, PipelineMoves
<1>6. CASE End(t) /\ outcome = "signed" /\ Sign(task.request, task)
    <2> DEFINE s == Made(task)
    <2>1. tasks' = [tasks EXCEPT ![t] = NoTask] /\ signed' = [signed EXCEPT ![r] = Append(@, s)]
        BY <1>0, <1>6 DEF End, Become, Sign, Made
    <2>2. /\ s \in Signature /\ s.tx = task.tx /\ s.mode = task.mode /\ s.passed = task.passed
          /\ s.lastValid = task.lastValid /\ s.verdict = task.verdict
          /\ s.audited = task.audited /\ s.workflow = task.workflow
        BY <1>2, MadeTyped
    <2>3. task.mode # "HumanGranted" => ~requires_human(task.verdict)
        BY <1>3, <1>6 DEF SignOutcome, PipelineOK, Modes, requires_human, is_auto_approved
    <2> HIDE DEF s
    <2>4. SignatureOK(s, kinds[r], approvals[r])
        BY <1>1, <1>2, <1>3, <2>2, <2>3 DEF SignatureOK, PipelineOK, TaskOK
    <2>5. /\ signed' \in [Requests -> Seq(Signature)] /\ Len(signed'[r]) = 1
          /\ signed'[r] # << >>
          /\ \A i \in DOMAIN signed'[r] : signed'[r][i] = s
          /\ \A p \in Requests \ {r} : signed'[p] = signed[p]
        BY <1>2, <2>1, <2>2, SignsFirst DEF LiveOK, ReviewInv, Typed
    <2>6. \A p \in Requests \ {r} : Same(p)
        BY <1>1, <2>5 DEF Same, pendingVars
    <2>7. Tables'
        BY <1>1, <2>5 DEF Tables, ReviewInv, Typed, pendingVars
    <2>8. RowOK(r)'
        <3>1. \A i \in DOMAIN signed'[r] : SignatureOK(signed'[r][i], kinds[r], approvals[r])
            BY <2>4, <2>5
        <3> QED  BY <1>1, <1>2, <1>3, <2>5, <3>1 DEF RowOK, LiveOK, Waiting, pendingVars
    <2>9. SwapOK(r)'
        <3>1. task.pc \notin Building \cup Ending
            BY <1>1 DEF Building, Ending
        <3>2. \A u \in Tasks : tasks[u].pc \in Building \cup Ending => tasks'[u] = tasks[u]
            BY <2>1, <3>1 DEF ReviewInv, Typed
        <3> QED  BY <1>1, <1>2, <3>2 DEF SwapOK, HalfBuilt, pendingVars
    <2>10. Fits(NoTask)'
        BY NoTaskFits DEF Fits, NoTask
    <2>11. UNCHANGED <<now, crashes, boot>> /\ kinds'[r] = kinds[r] /\ workflows' = workflows
        BY <1>1 DEF pendingVars
    <2> QED  BY <1>0, <1>2, <2>1, <2>5, <2>6, <2>7, <2>8, <2>9, <2>10, <2>11,
                NoTaskFits, OneRequest
<1> QED  BY <1>1, <1>4, <1>5, <1>6

\* Every step of the pipeline keeps the invariant.
LEMMA PipelineKeeps ==
    ASSUME ReviewInv, NEW t \in Tasks, PipelineStep(t)
    PROVE  ReviewInv'
<1>1. CASE /\ tasks[t].pc \in {"second", "audit"} /\ End(t)
           /\ UNCHANGED <<now, kinds, signed, boot, crashes, pendingVars>>
    <2>1. tasks[t].pc \in Pipeline
        BY <1>1 DEF Pipeline
    <2> QED  BY <1>1, <2>1, PipelineEnds
<1> QED  BY <1>1, FirstPassKeeps, SecondPassKeeps, AuditKeeps, EvaluatePolicyKeeps,
            SignOrParkKeeps DEF PipelineStep

-----------------------------------------------------------------------------
(* Requests come in. *)

\* A task that waits for a request is none.
LEMMA IdleIsNoTask ==
    ASSUME ReviewInv, NEW t \in Tasks, Up(t)
    PROVE  tasks[t] = NoTask /\ tasks[t].pc = "idle" /\ boot.step = "up"
BY DEF ReviewInv, Up, Fits, TaskOK

\* A request that was not made has no task and no rows.
LEMMA NoRequest ==
    ASSUME ReviewInv, NEW r \in Requests, kinds[r] = NULL
    PROVE  /\ approvals[r] = NULL /\ signatures[r] = NULL /\ signed[r] = << >>
           /\ \A u \in Tasks : tasks[u].pc # "idle" => tasks[u].request # r
<1>1. RowOK(r)
    BY DEF ReviewInv
<1>2. ASSUME NEW u \in Tasks, tasks[u].pc # "idle"
      PROVE  tasks[u].request # r
    BY <1>2, OneTask, ReviewNullAssumption
<1> QED  BY <1>1, <1>2 DEF RowOK

\* A request comes in, and a task may begin with it.
LEMMA NewRequest ==
    ASSUME ReviewInv, NEW t \in Tasks, Up(t), NEW r \in Requests, kinds[r] = NULL,
           NEW k \in Kind, kinds' = [kinds EXCEPT ![r] = k],
           NEW q \in Task, tasks' = [tasks EXCEPT ![t] = q],
           q = NoTask \/ (q.request = r /\ q.pc \in Live \ {"park"}),
           TaskOK(q, k, NULL),
           UNCHANGED <<now, signed, boot, crashes, approvals, workflows, signatures, metas>>,
           swaps' = swaps \/ swaps' = [swaps EXCEPT ![r] = "pending_approval"]
    PROVE  ReviewInv'
<1>1. Typed /\ Tables /\ RowOK(r) /\ BootOK
    BY DEF ReviewInv, Typed
<1>2. /\ approvals[r] = NULL /\ signatures[r] = NULL /\ signed[r] = << >>
      /\ \A u \in Tasks : tasks[u].pc # "idle" => tasks[u].request # r
    BY NoRequest
<1>3. tasks[t] = NoTask /\ tasks[t].pc = "idle" /\ boot.step = "up"
    BY IdleIsNoTask
<1>4. NoOther(t, r)
    BY <1>2 DEF NoOther, IsLive, Live, Pipeline, Parking, Building
<1>5. /\ kinds' \in [Requests -> Kind \cup {NULL}] /\ kinds'[r] = k /\ k # NULL
      /\ \A p \in Requests \ {r} : kinds'[p] = kinds[p]
    BY <1>1, ReviewNullAssumption DEF Tables
<1>6. /\ swaps' \in [Requests -> SwapStates \cup {NULL}]
      /\ \A p \in Requests \ {r} : swaps'[p] = swaps[p]
      /\ swaps'[r] = swaps[r] \/ swaps'[r] = "pending_approval"
    BY <1>1 DEF Tables, SwapStates
<1>7. Tables' /\ \A p \in Requests \ {r} : Same(p)
    BY <1>1, <1>5, <1>6 DEF Tables, Same
<1>8. RowOK(r)'
    BY <1>1, <1>2, <1>5 DEF RowOK, Waiting
<1>9. SwapOK(r)'
    <2>1. ~HalfBuilt(r)
        BY <1>1, <1>2, <1>3 DEF BootOK, SwapOK, Building, Ending
    <2> QED  BY <1>6, <2>1 DEF SwapOK, HalfBuilt
<1>10. Fits(q)'
    <2>1. CASE q = NoTask
        <3>1. Fits(NoTask)'
            BY NoTaskFits DEF Fits, NoTask
        <3> QED  BY <2>1, <3>1
    <2>2. CASE q.request = r /\ q.pc \in Live \ {"park"}
        <3>1. q.pc # "complete"
            BY <2>2 DEF Live, Pipeline, Parking, Building
        <3> QED  BY <1>2, <1>5, <2>2, <3>1 DEF Fits, LiveOK, Waiting
    <2> QED  BY <2>1, <2>2
<1> QED  BY <1>2, <1>3, <1>4, <1>7, <1>8, <1>9, <1>10, OneRequest

\* A task at the beginning of a review.
Begun(old, r, tx, mode) ==
    [old EXCEPT !.pc = "first", !.request = r, !.mode = mode, !.tx = tx]

\* It knows of its transaction what simulate needs.
LEMMA BeginReview ==
    ASSUME NEW old \in Task, NEW r \in Requests, NEW tx \in Tx,
           NEW mode \in Modes \cup {"HumanGranted"}, NEW k \in Kind, NEW a,
           mode = "HumanGranted" =>
               /\ Approved(old.workflow) /\ has_compute_budget_instructions(tx)
               /\ a # NULL => Body(tx) = Body(a.parked)
    PROVE  LET q == Begun(old, r, tx, mode)
           IN  q \in Task /\ q.request = r /\ q.pc \in Live \ {"park"} /\ TaskOK(q, k, a)
<1> DEFINE q == Begun(old, r, tx, mode)
<1>1. /\ q \in Task /\ q.pc = "first" /\ q.request = r /\ q.mode = mode /\ q.tx = tx
      /\ q.workflow = old.workflow
    BY DEF Begun, Task, PCs, Live, Pipeline
<1> HIDE DEF q
<1>2. PipelineOK(q, k, a)
    BY <1>1 DEF PipelineOK
<1>3. k # NULL /\ "JIT" \notin Modes
    BY ReviewNullAssumption DEF Modes
<1>4. TaskOK(q, k, a)
    BY <1>1, <1>2, <1>3 DEF TaskOK, Pipeline, Parking, Deciding, Building
<1>5. q.pc \in Live \ {"park"}
    BY <1>1 DEF Live, Pipeline
<1> QED  BY <1>1, <1>4, <1>5 DEF q

\* A proposal's transaction, before simulate.
LEMMA UnsignedTyped ==
    ASSUME NEW p \in Proposals
    PROVE  Unsigned(p) \in Tx
BY AmountsAssumption DEF Unsigned, Tx

\* The executor's request, whether its transaction is the builder's or not.
LEMMA ReviewAndSignKeeps ==
    ASSUME ReviewInv, NEW t \in Tasks, NEW r \in Requests, NEW p \in Proposals,
           ReviewAndSign(t, r, p)
    PROVE  ReviewInv'
<1> DEFINE k == [kind |-> "executor", session |-> << >>]
<1>1. /\ Up(t) /\ kinds[r] = NULL /\ kinds' = [kinds EXCEPT ![r] = k]
      /\ tasks' = tasks \/ Review(t, r, Unsigned(p), "Automatic")
      /\ UNCHANGED <<now, signed, boot, crashes, approvals, workflows, signatures, metas, swaps>>
    BY DEF ReviewAndSign, pendingVars
<1>2. k \in Kind
    BY RulesAssumption DEF Kind
<1>3. tasks[t] = NoTask /\ tasks \in [Tasks -> Task] /\ tasks[t] \in Task
    BY <1>1, IdleIsNoTask DEF ReviewInv, Typed
<1> HIDE DEF k
<1>4. CASE tasks' = tasks
    <2>1. tasks' = [tasks EXCEPT ![t] = NoTask]
        BY <1>3, <1>4
    <2> QED  BY <1>1, <1>2, <2>1, NoTaskFits, NewRequest
<1>5. CASE Review(t, r, Unsigned(p), "Automatic")
    <2> DEFINE q == Begun(tasks[t], r, Unsigned(p), "Automatic")
    <2>1. tasks' = [tasks EXCEPT ![t] = q]
        BY <1>5 DEF Review, Become, Begun
    <2>2. Unsigned(p) \in Tx /\ "Automatic" \in Modes
        BY UnsignedTyped DEF Modes
    <2>3. q \in Task /\ q.request = r /\ q.pc \in Live \ {"park"} /\ TaskOK(q, k, NULL)
        BY <1>2, <1>3, <2>2, BeginReview
    <2> HIDE DEF q
    <2> QED  BY <1>1, <1>2, <2>1, <2>3, NewRequest
<1> QED  BY <1>1, <1>4, <1>5

\* A request of the gateway.
LEMMA ProposeKeeps ==
    ASSUME ReviewInv, NEW t \in Tasks, NEW r \in Requests, NEW p \in Proposals,
           NEW mode \in Modes, NEW session \in SessionRules, Propose(t, r, p, mode, session)
    PROVE  ReviewInv'
<1> DEFINE k == [kind |-> "gateway", session |-> session]
           q == Begun(tasks[t], r, Unsigned(p), mode)
<1>1. /\ Up(t) /\ kinds[r] = NULL /\ kinds' = [kinds EXCEPT ![r] = k]
      /\ tasks' = [tasks EXCEPT ![t] = q]
      /\ UNCHANGED <<now, signed, boot, crashes, approvals, workflows, signatures, metas, swaps>>
    BY DEF Propose, Review, Become, Begun, pendingVars
<1>2. k \in Kind
    BY DEF Kind
<1>3. tasks[t] \in Task
    BY DEF ReviewInv, Typed
<1> HIDE DEF k
<1>4. mode # "HumanGranted" /\ Unsigned(p) \in Tx
    BY UnsignedTyped DEF Modes
<1>5. q \in Task /\ q.request = r /\ q.pc \in Live \ {"park"} /\ TaskOK(q, k, NULL)
    BY <1>2, <1>3, <1>4, BeginReview
<1> HIDE DEF q
<1> QED  BY <1>1, <1>2, <1>5, NewRequest

\* A swap is parked before there is a transaction.
LEMMA ProposeSwapKeeps ==
    ASSUME ReviewInv, NEW t \in Tasks, NEW r \in Requests, ProposeSwap(t, r)
    PROVE  ReviewInv'
<1> DEFINE k == [kind |-> "swap", session |-> << >>]
           verdict == Verdict("requires_human_approval", AnyApprover)
           q == [NoTask EXCEPT !.pc = "create", !.request = r, !.verdict = verdict]
<1>1. /\ Up(t) /\ kinds[r] = NULL /\ kinds' = [kinds EXCEPT ![r] = k]
      /\ tasks' = [tasks EXCEPT ![t] = q] /\ swaps' = [swaps EXCEPT ![r] = "pending_approval"]
      /\ UNCHANGED <<now, signed, boot, crashes, approvals, workflows, signatures, metas>>
    BY DEF ProposeSwap, Become, insert
<1>2. k \in Kind /\ k.kind = "swap"
    BY RulesAssumption DEF Kind
<1>3. verdict \in Verdicts
    BY DEF Verdict, Verdicts, AnyApprover, StageSpec
<1> HIDE DEF k, verdict
<1>4. q \in Task /\ q.pc = "create" /\ q.request = r /\ q.mode = NULL /\ q.verdict = verdict
    BY <1>3, NoTaskFits DEF Task, PCs, Live, Parking
<1> HIDE DEF q
<1>5. TaskOK(q, k, NULL) /\ q.pc \in Live \ {"park"}
    BY <1>2, <1>3, <1>4, ReviewNullAssumption
    DEF TaskOK, Pipeline, Parking, Deciding, Building, Live
<1> QED  BY <1>1, <1>2, <1>4, <1>5, NewRequest

-----------------------------------------------------------------------------
(* Parked, decided, resumed. *)

\* A step that builds no swap leaves the ones that are half built.
LEMMA SwapStays ==
    ASSUME ReviewInv, NEW t \in Tasks, NEW q, tasks' = [tasks EXCEPT ![t] = q],
           tasks[t].pc \notin Building \cup Ending, boot.step = "up", UNCHANGED swaps,
           NEW r \in Requests
    PROVE  SwapOK(r)'
<1>1. SwapOK(r)
    BY DEF ReviewInv, BootOK
<1>2. \A u \in Tasks : tasks[u].pc \in Building \cup Ending => tasks'[u] = tasks[u]
    BY DEF ReviewInv, Typed
<1> QED  BY <1>1, <1>2 DEF SwapOK, HalfBuilt

\* A task that is gone is gone after the step too.
LEMMA GoneFits == Fits(NoTask)'
BY NoTaskFits DEF Fits, NoTask

\* The workflow of a parked request is there before its approval.
LEMMA CreateWorkflowKeeps ==
    ASSUME ReviewInv, NEW t \in Tasks, CreateWorkflow(t)
    PROVE  ReviewInv'
<1> DEFINE new == NewWorkflow(tasks[t].verdict.stages, now, Lease)
           q == [tasks[t] EXCEPT !.pc = "park"]
<1>1. /\ tasks[t].pc = "create" /\ tasks[t].pc \in Parking /\ tasks[t].pc \in Live
      /\ tasks[t].pc \notin Building \cup Ending
      /\ UNCHANGED <<now, kinds, signed, boot, crashes, approvals, signatures, metas, swaps>>
    BY DEF CreateWorkflow, Parking, Live, Building, Ending
<1>0. PICK r \in Requests : r = tasks[t].request
    BY <1>1, OneTask
<1>2. /\ tasks[t] \in Task /\ kinds[r] \in Kind /\ boot.step = "up"
      /\ TaskOK(tasks[t], kinds[r], approvals[r]) /\ RowOK(r)
      /\ LiveOK(r) /\ NoOther(t, r) /\ Tables /\ kinds[r] # NULL
    BY <1>0, <1>1, OneTask, ReviewNullAssumption DEF ReviewInv, Typed
<1>3. tasks' = [tasks EXCEPT ![t] = q]
    BY DEF CreateWorkflow, Goto, ReviewInv, Typed
<1>4. workflows' = [workflows EXCEPT ![r] = IF workflows[r] = NULL THEN new ELSE workflows[r]]
    BY <1>0, <1>2 DEF CreateWorkflow, create, Tables
<1>5. WorkflowOK(new) /\ new \in Workflow /\ new # NULL
    <2>1. tasks[t].verdict.stages \in Seq(StageSpec)
        BY <1>1, <1>2 DEF TaskOK, Verdicts
    <2>2. now \in Nat /\ Lease \in Nat
        BY ReviewBoundsAssumption DEF ReviewInv, Typed
    <2>3. WorkflowOK(new)
        BY <2>1, <2>2, NewWorkflowOK
    <2> QED  BY <2>3, ReviewNullAssumption DEF WorkflowOK
<1> HIDE DEF new
<1>6. /\ workflows' \in [Requests -> Workflow \cup {NULL}]
      /\ workflows'[r] # NULL /\ WorkflowOK(workflows'[r])
      /\ \A p \in Requests \ {r} : workflows'[p] = workflows[p]
    BY <1>2, <1>4, <1>5 DEF Tables, RowOK
<1>7. Tables' /\ \A p \in Requests \ {r} : Same(p)
    BY <1>1, <1>2, <1>6 DEF Tables, Same
<1>8. RowOK(r)'
    BY <1>1, <1>2, <1>6 DEF RowOK, Waiting
<1>9. SwapOK(r)'
    BY <1>1, <1>2, <1>3, SwapStays
<1>10. /\ q \in Task /\ q.pc = "park" /\ q.request = r /\ q.mode = tasks[t].mode
       /\ q.verdict = tasks[t].verdict /\ q.tx = tasks[t].tx /\ q.workflow = tasks[t].workflow
    BY <1>0, <1>2 DEF Task, PCs, Live, Parking
<1> HIDE DEF q
<1>11. TaskOK(q, kinds[r], approvals[r])
    BY <1>1, <1>2, <1>10 DEF TaskOK, Pipeline, Parking, Deciding, Building
<1>12. PICK c \in Task : c = q
    BY <1>10
<1>13. Fits(c)'
    BY <1>1, <1>2, <1>6, <1>10, <1>11, <1>12 DEF Fits, LiveOK, Waiting
<1> QED  BY <1>0, <1>1, <1>2, <1>3, <1>6, <1>7, <1>8, <1>9, <1>10, <1>12, <1>13, OneRequest

\* The right to sign goes from the task to the row of the approval.
LEMMA ParkKeeps ==
    ASSUME ReviewInv, NEW t \in Tasks, Park(t)
    PROVE  ReviewInv'
<1> DEFINE row == [state |-> "pending", created |-> now, parked |-> tasks[t].tx]
<1>1. /\ tasks[t].pc = "park" /\ tasks[t].pc \in Parking /\ tasks[t].pc \in Live
      /\ tasks[t].pc \notin Building \cup Ending
      /\ tasks' = [tasks EXCEPT ![t] = NoTask]
      /\ UNCHANGED <<now, kinds, signed, boot, crashes, workflows, signatures, metas, swaps>>
    BY DEF Park, End, Become, Parking, Live, Building, Ending
<1>0. PICK r \in Requests : r = tasks[t].request
    BY <1>1, OneTask
<1>2. /\ tasks[t] \in Task /\ kinds[r] \in Kind /\ boot.step = "up"
      /\ TaskOK(tasks[t], kinds[r], approvals[r]) /\ RowOK(r)
      /\ LiveOK(r) /\ NoOther(t, r) /\ Tables /\ kinds[r] # NULL /\ workflows[r] # NULL
    BY <1>0, <1>1, OneTask, ReviewNullAssumption DEF ReviewInv, Typed
<1>3. approvals' = [approvals EXCEPT ![r] = row]
    BY <1>0 DEF Park, insert_pending_approval
<1>4. row \in ApprovalRow /\ row.parked = tasks[t].tx
    BY <1>2, ReviewBoundsAssumption DEF ApprovalRow, RowStates, Task, ReviewInv, Typed
<1> HIDE DEF row
<1>5. /\ approvals' \in [Requests -> ApprovalRow \cup {NULL}] /\ approvals'[r] = row
      /\ \A p \in Requests \ {r} : approvals'[p] = approvals[p]
    BY <1>2, <1>3, <1>4 DEF Tables
<1>6. Tables' /\ \A p \in Requests \ {r} : Same(p)
    BY <1>1, <1>2, <1>5 DEF Tables, Same
<1>7. RowOK(r)'
    <2>1. kinds[r].kind # "swap" =>
             row.parked \in Tx /\ has_compute_budget_instructions(row.parked)
        BY <1>1, <1>2, <1>4 DEF TaskOK
    <2>2. signed'[r] = << >> /\ ~Waiting(signatures'[r]) /\ signatures'[r] = signatures[r]
          /\ workflows'[r] = workflows[r] /\ kinds'[r] = kinds[r]
        BY <1>1, <1>2 DEF LiveOK
    <2> QED  BY <1>2, <1>5, <2>1, <2>2 DEF RowOK
<1>8. SwapOK(r)'
    BY <1>1, <1>2, SwapStays
<1> QED  BY <1>0, <1>1, <1>2, <1>6, <1>7, <1>8, NoTaskFits, GoneFits, OneRequest

\* A handler computes the workflow after its decision; nothing is written.
LEMMA DecideKeeps ==
    ASSUME ReviewInv, NEW t \in Tasks, NEW r \in Requests, NEW operator \in Operators,
           NEW approved \in BOOLEAN, Decide(t, r, operator, approved)
    PROVE  ReviewInv'
<1> DEFINE w == workflows[r]
           d == StageDecision(operator, RoleOf[operator], approved)
           v == Decided(w, operator, approved)
           stage == w.stages[current_stage(w)]
           q == [NoTask EXCEPT !.pc = "update", !.request = r, !.workflow = v]
<1>1. /\ Up(t) /\ Waiting(approvals[r]) /\ ~is_terminal(w) /\ current_stage(w) # NULL
      /\ is_expired(w, now) \/ /\ stage.roles = {} \/ RoleOf[operator] \in stage.roles
                               /\ ~has_operator_voted(stage, operator)
      /\ tasks' = [tasks EXCEPT ![t] = q]
      /\ UNCHANGED <<now, kinds, signed, boot, crashes, approvals, workflows, signatures,
                     metas, swaps>>
    BY DEF Decide, load, load_pending_approvals, Pending, Waiting, Become, pendingVars
<1>2. tasks[t] = NoTask /\ tasks[t].pc = "idle" /\ boot.step = "up"
    BY <1>1, IdleIsNoTask
<1>3. RowOK(r) /\ WorkflowOK(w) /\ kinds[r] # NULL /\ Tables
    BY <1>1 DEF ReviewInv, RowOK, Waiting, Typed
<1>4. WorkflowOK(v)
    <2>1. CASE is_expired(w, now)
        <3>1. w.state = "pending"
            BY <1>1 DEF is_terminal
        <3> QED  BY <1>3, <2>1, <3>1, ExpireKeeps DEF Decided
    <2>2. CASE ~is_expired(w, now)
        <3>1. d \in Votes /\ d.role = RoleOf[operator] /\ d.operator = operator
            BY RolesAssumption DEF StageDecision, Votes
        <3>2. v = apply_decision(w, d)
            BY <2>2 DEF Decided
        <3> HIDE DEF d, w
        <3> QED  BY <1>1, <1>3, <2>2, <3>1, <3>2, VoteKeeps
    <2> QED  BY <2>1, <2>2
<1>5. v \in Workflow
    BY <1>4 DEF WorkflowOK
<1> HIDE DEF v
<1>6. /\ q \in Task /\ q.pc = "update" /\ q.request = r /\ q.mode = NULL /\ q.tx = NULL
      /\ q.workflow = v
    BY <1>5, NoTaskFits DEF Task, PCs, Deciding
<1> HIDE DEF q, w
<1>7. /\ TaskOK(q, kinds[r], approvals[r])
      /\ q.pc \notin Live /\ q.pc \notin {"complete", "park"}
    BY <1>3, <1>4, <1>6, ReviewNullAssumption
    DEF TaskOK, Pipeline, Parking, Deciding, Building, Live
<1>8. PICK c \in Task : c = q
    BY <1>6
<1>9. Fits(c)'
    BY <1>1, <1>6, <1>7, <1>8 DEF Fits
<1>10. Tables' /\ RowOK(r)' /\ \A p \in Requests \ {r} : Same(p)
    BY <1>1, <1>3 DEF Tables, RowOK, Waiting, Same
<1>11. SwapOK(r)'
    BY <1>1, <1>2, SwapStays DEF Building, Ending
<1> QED  BY <1>1, <1>2, <1>6, <1>7, <1>8, <1>9, <1>10, <1>11, OneRequest

\* The workflow that is written is in order, even when another handler wrote
\* one in between.
LEMMA UpdateWorkflowKeeps ==
    ASSUME ReviewInv, NEW t \in Tasks, UpdateWorkflow(t)
    PROVE  ReviewInv'
<1> DEFINE w == tasks[t].workflow
           next == [tasks[t] EXCEPT !.pc = "mark"]
<1>1. /\ tasks[t].pc = "update" /\ tasks[t].pc \notin Building \cup Ending
      /\ IF is_terminal(w) THEN Goto(t, "mark") ELSE End(t)
      /\ UNCHANGED <<now, kinds, signed, boot, crashes, approvals, signatures, metas, swaps>>
    BY DEF UpdateWorkflow, Building, Ending
<1>0. PICK r \in Requests : r = tasks[t].request
    BY <1>1, OneTask
<1>2. /\ tasks[t] \in Task /\ kinds[r] \in Kind /\ boot.step = "up"
      /\ TaskOK(tasks[t], kinds[r], approvals[r]) /\ RowOK(r) /\ Tables /\ kinds[r] # NULL
    BY <1>0, <1>1, OneTask, ReviewNullAssumption DEF ReviewInv, Typed
<1>3. WorkflowOK(w) /\ w \in Workflow /\ w # NULL
    BY <1>1, <1>2, ReviewNullAssumption DEF TaskOK, Deciding, WorkflowOK
<1>4. workflows' = [workflows EXCEPT ![r] = IF workflows[r] = NULL THEN NULL ELSE w]
    BY <1>0, <1>2 DEF UpdateWorkflow, update, Tables
<1>5. /\ workflows' \in [Requests -> Workflow \cup {NULL}]
      /\ workflows'[r] # NULL => WorkflowOK(workflows'[r])
      /\ workflows[r] # NULL => workflows'[r] # NULL
      /\ \A p \in Requests \ {r} : workflows'[p] = workflows[p]
    BY <1>2, <1>3, <1>4 DEF Tables
<1>6. Tables' /\ \A p \in Requests \ {r} : Same(p)
    BY <1>1, <1>2, <1>5 DEF Tables, Same
<1>7. RowOK(r)'
    BY <1>1, <1>2, <1>5 DEF RowOK, Waiting
<1>8. /\ next \in Task /\ next.pc = "mark" /\ next.request = r /\ next.mode = tasks[t].mode
      /\ next.tx = tasks[t].tx /\ next.workflow = w
    BY <1>0, <1>2 DEF Task, PCs, Deciding
<1>9. PICK c \in Task : c = IF is_terminal(w) THEN next ELSE NoTask
    BY <1>8, NoTaskFits
<1>10. tasks' = [tasks EXCEPT ![t] = c]
    BY <1>1, <1>9 DEF Goto, End, Become, ReviewInv, Typed
<1> HIDE DEF next
<1>11. Fits(c)' /\ c.pc \notin Live /\ (c = NoTask \/ c.request = r)
    <2>1. CASE c = NoTask
        BY <2>1, NoTaskFits, GoneFits
    <2>2. CASE is_terminal(w) /\ c = next
        <3>1. TaskOK(c, kinds[r], approvals[r])
            BY <1>1, <1>2, <1>3, <1>8, <2>2
            DEF TaskOK, Pipeline, Parking, Deciding, Building
        <3>2. c.pc \notin Live /\ c.pc \notin {"complete", "park"} /\ c.request = r
            BY <1>8, <2>2 DEF Live, Pipeline, Parking, Building
        <3> QED  BY <1>1, <3>1, <3>2 DEF Fits
    <2> QED  BY <1>9, <2>1, <2>2
<1>12. SwapOK(r)'
    BY <1>1, <1>2, <1>10, SwapStays
<1> QED  BY <1>0, <1>1, <1>2, <1>5, <1>6, <1>7, <1>10, <1>11, <1>12, OneRequest

\* Nobody holds the right to sign a request whose approval or signature is
\* still pending.
LEMMA NobodyElse ==
    ASSUME ReviewInv, NEW t \in Tasks, NEW r \in Requests,
           Waiting(approvals[r]) \/ Waiting(signatures[r])
    PROVE  NoOther(t, r)
BY DEF ReviewInv, Fits, LiveOK, NoOther, IsLive

\* The handler that turns the row takes the right to sign over, and no other
\* task has it; one that comes too late gets nothing.
LEMMA MarkTerminalKeeps ==
    ASSUME ReviewInv, NEW t \in Tasks, NEW updated \in BOOLEAN, MarkTerminal(t, updated)
    PROVE  ReviewInv'
<1> DEFINE w == tasks[t].workflow
           a == approvals[tasks[t].request]
           k == kinds[tasks[t].request]
           row == [a EXCEPT !.state = RowState[w.state]]
           resumed == Begun(tasks[t], tasks[t].request, a.parked, "HumanGranted")
           swap == [tasks[t] EXCEPT !.pc = "swap"]
           next == IF ~updated THEN NoTask ELSE IF k.kind = "swap" THEN swap
                   ELSE IF w.state = "approved" THEN resumed ELSE NoTask
<1>1. /\ tasks[t].pc = "mark" /\ tasks[t].pc \notin Building \cup Ending
      /\ updated = Waiting(a)
      /\ tasks' = [tasks EXCEPT ![t] = next]
      /\ UNCHANGED <<now, kinds, signed, boot, crashes, workflows, signatures, metas, swaps>>
    <2>1. /\ tasks[t].pc = "mark" /\ tasks[t].pc \notin Building \cup Ending
          /\ UNCHANGED <<now, kinds, signed, boot, crashes, workflows, signatures, metas, swaps>>
        BY DEF MarkTerminal, Building, Ending
    <2>2. updated = Waiting(a)
        BY <2>1, OneTask DEF MarkTerminal, mark_approval_terminal, Pending, Waiting
    <2>3. tasks' = [tasks EXCEPT ![t] = next]
        BY DEF MarkTerminal, Begun, Review, Goto, End, Become, ReviewInv, Typed
    <2> QED  BY <2>1, <2>2, <2>3
<1>0. PICK r \in Requests : r = tasks[t].request
    BY <1>1, OneTask
<1>2. /\ tasks[t] \in Task /\ kinds[r] \in Kind /\ boot.step = "up"
      /\ TaskOK(tasks[t], kinds[r], approvals[r]) /\ RowOK(r) /\ Tables /\ kinds[r] # NULL
    BY <1>0, <1>1, OneTask, ReviewNullAssumption DEF ReviewInv, Typed
<1>3. SwapOK(r)'
    BY <1>1, <1>2, SwapStays
<1>4. CASE ~updated
    <2>1. approvals' = approvals /\ tasks' = [tasks EXCEPT ![t] = NoTask]
        BY <1>1, <1>4 DEF MarkTerminal, mark_approval_terminal
    <2>2. Tables' /\ RowOK(r)' /\ \A p \in Requests \ {r} : Same(p)
        BY <1>1, <1>2, <2>1 DEF Tables, RowOK, Waiting, Same
    <2> QED  BY <1>0, <1>1, <1>2, <1>3, <2>1, <2>2, NoTaskFits, GoneFits, OneRequest
<1>5. CASE updated
    <2>1. Waiting(approvals[r]) /\ approvals[r] \in ApprovalRow /\ approvals[r] # NULL
        BY <1>0, <1>1, <1>2, <1>5 DEF Waiting, Tables
    <2>2. approvals' = [approvals EXCEPT ![r] = row]
        BY <1>0, <1>2, <1>5 DEF MarkTerminal, mark_approval_terminal, Tables
    <2>3. WorkflowOK(w) /\ w.state \in {"approved", "rejected", "expired"}
        BY <1>1, <1>2 DEF TaskOK, Deciding, is_terminal, WorkflowOK, Workflow
    <2>4. RowState[w.state] \in {"consumed", "rejected", "expired"}
        BY <2>3 DEF RowState
    <2>5. row \in ApprovalRow /\ row.parked = approvals[r].parked /\ ~Waiting(row)
        BY <1>0, <2>1, <2>4 DEF ApprovalRow, RowStates, Waiting
    <2> HIDE DEF row
    <2>6. /\ approvals' \in [Requests -> ApprovalRow \cup {NULL}] /\ approvals'[r] = row
          /\ \A p \in Requests \ {r} : approvals'[p] = approvals[p]
        BY <1>2, <2>2, <2>5 DEF Tables
    <2>7. Tables' /\ \A p \in Requests \ {r} : Same(p)
        BY <1>1, <1>2, <2>6 DEF Tables, Same
    <2>8. signed[r] = << >> /\ ~Waiting(signatures[r])
        BY <1>2, <2>1 DEF RowOK
    <2>9. RowOK(r)'
        BY <1>1, <1>2, <2>1, <2>5, <2>6, <2>8 DEF RowOK
    <2>10. LiveOK(r)'
        BY <1>1, <2>5, <2>6, <2>8 DEF LiveOK
    <2>11. NoOther(t, r)
        BY <2>1, NobodyElse
    <2> HIDE DEF next
    <2>12. ASSUME NEW c \in Task, c = next,
                  c = NoTask \/ /\ c.request = r /\ TaskOK(c, kinds[r], row)
                                /\ c.pc \notin {"complete", "park"}
           PROVE  ReviewInv'
        <3>1. Fits(c)'
            <4>1. CASE c = NoTask
                BY <4>1, GoneFits
            <4>2. CASE c.request = r /\ TaskOK(c, kinds[r], row) /\ c.pc \notin {"complete", "park"}
                BY <1>1, <2>6, <2>10, <4>2 DEF Fits
            <4> QED  BY <2>12, <4>1, <4>2
        <3> QED  BY <1>0, <1>1, <1>2, <1>3, <2>7, <2>8, <2>9, <2>11, <2>12, <3>1, OneRequest
    <2>13. CASE next = NoTask
        BY <2>12, <2>13, NoTaskFits
    <2>14. CASE next = swap
        <3>1. /\ swap \in Task /\ swap.pc = "swap" /\ swap.request = r
              /\ swap.mode = tasks[t].mode /\ swap.tx = tasks[t].tx /\ swap.workflow = w
            BY <1>0, <1>2 DEF Task, PCs, Live
        <3> HIDE DEF swap
        <3>2. TaskOK(swap, kinds[r], row)
            BY <1>1, <1>2, <2>3, <3>1
            DEF TaskOK, Pipeline, Parking, Deciding, Building
        <3> QED  BY <2>12, <2>14, <3>1, <3>2
    <2>15. CASE next = resumed /\ k.kind # "swap" /\ w.state = "approved"
        <3>1. a.parked \in Tx /\ has_compute_budget_instructions(a.parked)
            BY <1>0, <1>2, <2>1, <2>15 DEF RowOK
        <3>2. Approved(w)
            BY <2>3, <2>15 DEF Approved
        <3>3. row # NULL => Body(a.parked) = Body(row.parked)
            BY <1>0, <2>5
        <3>4. /\ resumed \in Task /\ resumed.request = r /\ resumed.pc \in Live \ {"park"}
              /\ TaskOK(resumed, kinds[r], row)
            BY <1>0, <1>2, <3>1, <3>2, <3>3, BeginReview
        <3> HIDE DEF resumed
        <3>5. resumed.pc # "complete"
            BY <3>4 DEF Live, Pipeline, Parking, Building
        <3> QED  BY <2>12, <2>15, <3>4, <3>5
    <2> QED  BY <1>5, <2>13, <2>14, <2>15 DEF next
<1> QED  BY <1>4, <1>5

-----------------------------------------------------------------------------
(* Swaps. *)

\* What a task at a swap knows.
LEMMA AtSwap ==
    ASSUME ReviewInv, NEW t \in Tasks,
           tasks[t].pc \in {"swap", "complete"} \cup Building \cup Ending
    PROVE  \E r \in Requests :
              /\ r = tasks[t].request /\ tasks[t] \in Task /\ tasks[t].tx = NULL
              /\ boot.step = "up" /\ Tables /\ kinds[r] # NULL /\ RowOK(r) /\ SwapOK(r)
              /\ TaskOK(tasks[t], kinds[r], approvals[r])
              /\ tasks[t].pc \in {"swap"} \cup Building => LiveOK(r) /\ NoOther(t, r)
              /\ tasks[t].pc = "complete" => signed[r] # << >>
              /\ tasks[t].mode # "HumanGranted"
<1>1. /\ tasks[t].pc # "idle" /\ tasks[t].pc \notin Pipeline \cup Parking
      /\ tasks[t].pc \in {"swap"} \cup Building => tasks[t].pc \in Live
    BY DEF Building, Ending, Pipeline, Parking, Live
<1>2. Tables
    BY DEF ReviewInv, Typed
<1>3. TaskOK(tasks[t], kinds[tasks[t].request], approvals[tasks[t].request])
    BY <1>1, OneTask
<1>4. tasks[t].tx = NULL /\ tasks[t].mode # "HumanGranted" /\ kinds[tasks[t].request] # NULL
    BY <1>1, <1>3 DEF TaskOK
<1> QED  BY <1>1, <1>2, <1>3, <1>4, OneTask

\* A task at a swap that goes on.
Going(old, pc, mode) == [old EXCEPT !.pc = pc, !.mode = mode]

\* It still knows what it knew.
LEMMA SwapGoes ==
    ASSUME ReviewInv, NEW t \in Tasks, NEW r \in Requests, r = tasks[t].request,
           tasks[t].pc \in {"swap", "complete"} \cup Building \cup Ending,
           NEW pc \in Building \cup Ending, NEW mode,
           mode = tasks[t].mode \/ (mode = "JIT" /\ Approved(tasks[t].workflow)),
           pc \in Building => mode = "JIT"
    PROVE  LET q == Going(tasks[t], pc, mode)
           IN  /\ q \in Task /\ q.pc = pc /\ q.request = r /\ q.mode = mode
               /\ q.workflow = tasks[t].workflow
               /\ TaskOK(q, kinds[r], approvals[r])
<1> DEFINE q == Going(tasks[t], pc, mode)
<1>1. /\ tasks[t] \in Task /\ tasks[t].tx = NULL /\ kinds[r] # NULL
      /\ TaskOK(tasks[t], kinds[r], approvals[r]) /\ tasks[t].mode # "HumanGranted"
    BY AtSwap
<1>2. pc \in PCs /\ mode \in Modes \cup {"HumanGranted", "JIT", NULL}
    BY <1>1 DEF PCs, Live, Task
<1>3. /\ q \in Task /\ q.pc = pc /\ q.request = r /\ q.mode = mode
      /\ q.workflow = tasks[t].workflow /\ q.tx = NULL
    BY <1>1, <1>2 DEF Going, Task
<1> HIDE DEF q
<1>4. pc \notin {"idle", "swap"} \cup Pipeline \cup Parking \cup Deciding
    BY DEF Building, Ending, Pipeline, Parking, Deciding
<1>5. q.mode \in {"HumanGranted", "JIT"} => Approved(q.workflow)
    BY <1>1, <1>3 DEF TaskOK
<1>6. TaskOK(q, kinds[r], approvals[r])
    BY <1>1, <1>3, <1>4, <1>5 DEF TaskOK, Deciding
<1> QED  BY <1>3, <1>6 DEF q

\* A step that moves the state of the swap.
LEMMA SwapMoves ==
    ASSUME ReviewInv, NEW t \in Tasks, NEW r \in Requests, r = tasks[t].request,
           tasks[t].pc \in {"swap"} \cup Building \cup Ending,
           NEW state \in SwapStates, mark_state(r, state),
           NEW q \in Task, tasks' = [tasks EXCEPT ![t] = q],
           \/ q = NoTask /\ state \notin {"approved_waiting_jit", "jit_building"}
           \/ /\ q.request = r /\ q.pc \in Building /\ TaskOK(q, kinds[r], approvals[r])
              /\ tasks[t].pc \in {"swap"} \cup Building,
           UNCHANGED <<now, kinds, signed, boot, crashes, approvals, workflows, signatures, metas>>
    PROVE  ReviewInv'
<1>1. /\ tasks[t] \in Task /\ boot.step = "up" /\ Tables /\ kinds[r] # NULL /\ RowOK(r)
      /\ tasks[t].pc \in {"swap"} \cup Building => LiveOK(r) /\ NoOther(t, r)
    BY AtSwap
<1>2. swaps' = [swaps EXCEPT ![r] = IF swaps[r] = NULL THEN NULL ELSE state]
    BY <1>1 DEF mark_state, Tables
<1>3. /\ swaps' \in [Requests -> SwapStates \cup {NULL}]
      /\ swaps'[r] = NULL \/ swaps'[r] = state
      /\ \A p \in Requests \ {r} : swaps'[p] = swaps[p]
    BY <1>1, <1>2 DEF Tables
<1>4. Tables' /\ RowOK(r)' /\ \A p \in Requests \ {r} : Same(p)
    BY <1>1, <1>3 DEF Tables, RowOK, Waiting, Same
<1>5. tasks'[t] = q
    BY DEF ReviewInv, Typed
<1>6. SwapOK(r)'
    <2>1. NULL \notin {"approved_waiting_jit", "jit_building"}
        BY ReviewNullAssumption DEF SwapStates
    <2> QED  BY <1>3, <1>5, <2>1 DEF SwapOK, HalfBuilt
<1>7. CASE q = NoTask
    BY <1>1, <1>4, <1>6, <1>7, NoTaskFits, GoneFits, OneRequest
<1>8. CASE /\ q.request = r /\ q.pc \in Building /\ TaskOK(q, kinds[r], approvals[r])
           /\ tasks[t].pc \in {"swap"} \cup Building
    <2>1. q.pc \notin {"complete", "park"}
        BY <1>8 DEF Building
    <2>2. Fits(q)'
        BY <1>1, <1>8, <2>1 DEF Fits, LiveOK, Waiting
    <2> QED  BY <1>1, <1>4, <1>6, <1>8, <2>2, OneRequest
<1> QED  BY <1>7, <1>8

\* An approved swap goes on, another one is closed.
LEMMA DecideSwapKeeps ==
    ASSUME ReviewInv, NEW t \in Tasks, DecideSwap(t)
    PROVE  ReviewInv'
<1> DEFINE w == tasks[t].workflow
           q == Going(tasks[t], "jit", "JIT")
<1>1. /\ tasks[t].pc = "swap"
      /\ UNCHANGED <<now, kinds, signed, boot, crashes, approvals, workflows, signatures, metas>>
      /\ IF w.state = "approved"
         THEN /\ mark_state(tasks[t].request, "approved_waiting_jit")
              /\ tasks' = [tasks EXCEPT ![t] = q]
         ELSE /\ mark_state(tasks[t].request, w.state)
              /\ tasks' = [tasks EXCEPT ![t] = NoTask]
    BY DEF DecideSwap, Swapping, Become, End, Going
<1>2. PICK r \in Requests : r = tasks[t].request /\ TaskOK(tasks[t], kinds[r], approvals[r])
    BY <1>1, AtSwap
<1>3. WorkflowOK(w) /\ w.state \in {"approved", "rejected", "expired"}
    BY <1>1, <1>2 DEF TaskOK, is_terminal, WorkflowOK, Workflow
<1>4. CASE w.state = "approved"
    <2>1. Approved(w) /\ "jit" \in Building /\ "approved_waiting_jit" \in SwapStates
        BY <1>3, <1>4 DEF Approved, Building, SwapStates
    <2>2. q \in Task /\ q.pc = "jit" /\ q.request = r /\ TaskOK(q, kinds[r], approvals[r])
        BY <1>1, <1>2, <2>1, SwapGoes
    <2> HIDE DEF q
    <2> QED  BY <1>1, <1>2, <1>4, <2>1, <2>2, SwapMoves
<1>5. CASE w.state # "approved"
    <2>1. w.state \in SwapStates /\ w.state \notin {"approved_waiting_jit", "jit_building"}
        BY <1>3, <1>5 DEF SwapStates
    <2> QED  BY <1>1, <1>2, <1>5, <2>1, NoTaskFits, SwapMoves
<1> QED  BY <1>4, <1>5

\* A swap that is being built keeps its task.
LEMMA JitStartKeeps ==
    ASSUME ReviewInv, NEW t \in Tasks, JitStart(t)
    PROVE  ReviewInv'
<1> DEFINE q == Going(tasks[t], "build", "JIT")
<1>1. /\ tasks[t].pc = "jit" /\ tasks[t].pc \in Building /\ "build" \in Building
      /\ UNCHANGED <<now, kinds, signed, boot, crashes, approvals, workflows, signatures, metas>>
      /\ mark_state(tasks[t].request, "jit_building")
    BY DEF JitStart, Swapping, Building
<1>2. PICK r \in Requests : /\ r = tasks[t].request /\ tasks[t] \in Task
                            /\ TaskOK(tasks[t], kinds[r], approvals[r])
    BY <1>1, AtSwap
<1>3. tasks[t].mode = "JIT" /\ Approved(tasks[t].workflow) /\ "jit_building" \in SwapStates
    BY <1>1, <1>2 DEF TaskOK, SwapStates
<1>4. tasks' = [tasks EXCEPT ![t] = q]
    <2>1. tasks' = [tasks EXCEPT ![t] = [tasks[t] EXCEPT !.pc = "build"]]
        BY DEF JitStart, Goto, ReviewInv, Typed
    <2>2. [tasks[t] EXCEPT !.pc = "build"] = q
        BY <1>2, <1>3 DEF Going, Task
    <2> QED  BY <2>1, <2>2
<1>5. q \in Task /\ q.pc = "build" /\ q.request = r /\ TaskOK(q, kinds[r], approvals[r])
    BY <1>1, <1>2, <1>3, SwapGoes
<1> HIDE DEF q
<1> QED  BY <1>1, <1>2, <1>3, <1>4, <1>5, SwapMoves

\* The last state of a swap is written.
LEMMA JitEndKeeps ==
    ASSUME ReviewInv, NEW t \in Tasks, JitEnd(t)
    PROVE  ReviewInv'
<1>1. /\ tasks[t].pc \in Ending /\ tasks' = [tasks EXCEPT ![t] = NoTask]
      /\ UNCHANGED <<now, kinds, signed, boot, crashes, approvals, workflows, signatures, metas>>
      /\ mark_state(tasks[t].request, tasks[t].pc)
    BY DEF JitEnd, Swapping, Ending, End, Become
<1>2. PICK r \in Requests : r = tasks[t].request
    BY <1>1, AtSwap
<1>3. tasks[t].pc \in SwapStates /\ tasks[t].pc \notin {"approved_waiting_jit", "jit_building"}
    BY <1>1 DEF Ending, SwapStates
<1> QED  BY <1>1, <1>2, <1>3, NoTaskFits, SwapMoves

\* The right to sign is used, or goes to the wallet, or is lost.
LEMMA JitBuildKeeps ==
    ASSUME ReviewInv, NEW t \in Tasks, JitBuild(t)
    PROVE  ReviewInv'
<1>1. /\ tasks[t].pc = "build" /\ tasks[t].pc \in Building
      /\ UNCHANGED <<now, kinds, boot, crashes, approvals, workflows, swaps>>
      /\ \/ /\ Sign(tasks[t].request, tasks[t]) /\ Goto(t, "submitted")
            /\ UNCHANGED <<signatures, metas>>
         \/ /\ insert_signature_and_meta(tasks[t].request, now)
            /\ Goto(t, "awaiting_wallet_signature") /\ UNCHANGED signed
         \/ Goto(t, "jit_build_failed") /\ UNCHANGED <<signed, signatures, metas>>
    BY DEF JitBuild, Swapping, Building
<1>2. PICK r \in Requests :
         /\ r = tasks[t].request /\ tasks[t] \in Task /\ tasks[t].tx = NULL
         /\ boot.step = "up" /\ Tables /\ kinds[r] # NULL /\ RowOK(r) /\ SwapOK(r)
         /\ TaskOK(tasks[t], kinds[r], approvals[r])
         /\ LiveOK(r) /\ NoOther(t, r)
    BY <1>1, AtSwap
<1>3. tasks[t].mode = "JIT" /\ Approved(tasks[t].workflow)
    BY <1>1, <1>2 DEF TaskOK
<1>4. ASSUME NEW pc \in Ending, Goto(t, pc),
             Tables', RowOK(r)', \A p \in Requests \ {r} : Same(p),
             signed[r] # << >> => signed'[r] # << >>
      PROVE  ReviewInv'
    <2>1. /\ Going(tasks[t], pc, "JIT") \in Task /\ Going(tasks[t], pc, "JIT").pc = pc
          /\ Going(tasks[t], pc, "JIT").request = r
          /\ TaskOK(Going(tasks[t], pc, "JIT"), kinds[r], approvals[r])
        <3>1. pc \notin Building
            BY DEF Building, Ending
        <3> QED  BY <1>1, <1>2, <1>3, <3>1, SwapGoes
    <2>2. PICK c \in Task : c = Going(tasks[t], pc, "JIT")
        BY <2>1
    <2>3. tasks' = [tasks EXCEPT ![t] = c]
        <3>1. tasks' = [tasks EXCEPT ![t] = [tasks[t] EXCEPT !.pc = pc]]
            BY <1>4 DEF Goto, ReviewInv, Typed
        <3>2. [tasks[t] EXCEPT !.pc = pc] = c
            BY <1>2, <1>3, <2>2 DEF Going, Task
        <3> QED  BY <3>1, <3>2
    <2>4. c.pc \notin Live /\ c.pc \notin {"complete", "park"}
        BY <2>1, <2>2 DEF Ending, Live, Pipeline, Parking, Building
    <2>5. Fits(c)'
        BY <1>1, <2>1, <2>2, <2>4 DEF Fits
    <2>6. SwapOK(r)'
        <3>1. tasks'[t] = c
            BY <2>3 DEF ReviewInv, Typed
        <3> QED  BY <2>1, <2>2, <3>1 DEF SwapOK
    <2> QED  BY <1>1, <1>2, <1>4, <2>1, <2>2, <2>3, <2>5, <2>6, OneRequest
<1>5. CASE /\ Sign(tasks[t].request, tasks[t]) /\ Goto(t, "submitted")
           /\ UNCHANGED <<signatures, metas>>
    <2> DEFINE s == Made(tasks[t])
    <2>1. signed' = [signed EXCEPT ![r] = Append(@, s)]
        BY <1>2, <1>5 DEF Sign, Made
    <2>2. s \in Signature /\ s.tx = NULL /\ s.mode = "JIT" /\ s.workflow = tasks[t].workflow
        BY <1>2, <1>3, MadeTyped
    <2> HIDE DEF s
    <2>3. SignatureOK(s, kinds[r], approvals[r])
        BY <1>3, <2>2 DEF SignatureOK
    <2>4. /\ signed' \in [Requests -> Seq(Signature)] /\ Len(signed'[r]) = 1
          /\ signed'[r] # << >>
          /\ \A i \in DOMAIN signed'[r] : signed'[r][i] = s
          /\ \A p \in Requests \ {r} : signed'[p] = signed[p]
        <3>1. Tables /\ signed[r] = << >>
            BY <1>2 DEF LiveOK
        <3> QED  BY <2>1, <2>2, <3>1, SignsFirst
    <2>5. Tables' /\ \A p \in Requests \ {r} : Same(p)
        BY <1>1, <1>2, <1>5, <2>4 DEF Tables, Same
    <2>6. RowOK(r)'
        <3>1. \A i \in DOMAIN signed'[r] : SignatureOK(signed'[r][i], kinds[r], approvals[r])
            BY <2>3, <2>4
        <3> QED  BY <1>1, <1>2, <1>5, <2>4, <3>1 DEF RowOK, LiveOK, Waiting
    <2> QED  BY <1>4, <1>5, <2>4, <2>5, <2>6 DEF Ending
<1>6. CASE /\ insert_signature_and_meta(tasks[t].request, now)
           /\ Goto(t, "awaiting_wallet_signature") /\ UNCHANGED signed
    <2> DEFINE row == [state |-> "pending", created |-> now]
    <2>1. signatures' = [signatures EXCEPT ![r] = row] /\ metas' = [metas EXCEPT ![r] = row]
        BY <1>2, <1>6 DEF insert_signature_and_meta
    <2>2. row \in PendingRow /\ row.state = "pending"
        <3>1. now \in Nat
            BY ReviewBoundsAssumption DEF ReviewInv, Typed
        <3> QED  BY <3>1 DEF PendingRow, RowStates
    <2> HIDE DEF row
    <2>2a. row # NULL
        BY <2>2, ReviewNullAssumption DEF PendingRow
    <2>3. /\ signatures' \in [Requests -> PendingRow \cup {NULL}] /\ signatures'[r] = row
          /\ metas' \in [Requests -> PendingRow \cup {NULL}] /\ metas'[r] = row
          /\ \A p \in Requests \ {r} : signatures'[p] = signatures[p] /\ metas'[p] = metas[p]
        BY <1>2, <2>1, <2>2 DEF Tables
    <2>4. Tables' /\ \A p \in Requests \ {r} : Same(p)
        BY <1>1, <1>2, <1>6, <2>3 DEF Tables, Same
    <2>5. RowOK(r)'
        BY <1>1, <1>2, <1>6, <2>2, <2>2a, <2>3 DEF RowOK, LiveOK, Waiting
    <2> QED  BY <1>4, <1>6, <2>4, <2>5 DEF Ending
<1>7. CASE Goto(t, "jit_build_failed") /\ UNCHANGED <<signed, signatures, metas>>
    <2>1. Tables' /\ RowOK(r)' /\ \A p \in Requests \ {r} : Same(p)
        BY <1>1, <1>2, <1>7 DEF Tables, RowOK, Waiting, Same
    <2> QED  BY <1>4, <1>7, <2>1 DEF Ending
<1> QED  BY <1>1, <1>5, <1>6, <1>7

\* The right to sign leaves the row with the answer that turns it.
LEMMA WalletAnswersKeeps ==
    ASSUME ReviewInv, NEW t \in Tasks, NEW r \in Requests, WalletAnswers(t, r)
    PROVE  ReviewInv'
<1> DEFINE s == Made(NoTask)
           q == [NoTask EXCEPT !.pc = "complete", !.request = r]
           row == [signatures[r] EXCEPT !.state = "consumed"]
<1>1. /\ Up(t) /\ Waiting(signatures[r])
      /\ tasks' = [tasks EXCEPT ![t] = q]
      /\ signed' = [signed EXCEPT ![r] = Append(@, s)]
      /\ UNCHANGED <<now, kinds, boot, crashes, approvals, workflows, metas, swaps>>
    BY DEF WalletAnswers, mark_signature_terminal, Pending, Waiting, Become, Sign, Made
<1>2. Tables /\ RowOK(r) /\ NoOther(t, r)
    BY <1>1, NobodyElse DEF ReviewInv, Typed
<1>3. tasks[t] = NoTask /\ tasks[t].pc = "idle" /\ boot.step = "up"
    BY <1>1, IdleIsNoTask
<1>4. /\ signatures' = [signatures EXCEPT ![r] = row]
      /\ signatures[r] \in PendingRow
    <2>1. signatures' = [signatures EXCEPT ![r].state = "consumed"]
        BY DEF WalletAnswers, mark_signature_terminal
    <2> QED  BY <1>1, <1>2, <2>1 DEF Tables, Waiting
<1>5. row \in PendingRow /\ ~Waiting(row)
    BY <1>4 DEF PendingRow, RowStates, Waiting
<1> HIDE DEF row
<1>6. /\ signatures' \in [Requests -> PendingRow \cup {NULL}] /\ signatures'[r] = row
      /\ \A p \in Requests \ {r} : signatures'[p] = signatures[p]
    BY <1>2, <1>4, <1>5 DEF Tables
<1>7. s \in Signature /\ s.tx = NULL /\ s.mode = NULL
    BY NoTaskFits, MadeTyped
<1> HIDE DEF s
<1>8. /\ signed' \in [Requests -> Seq(Signature)] /\ Len(signed'[r]) = 1
      /\ signed'[r] # << >>
      /\ \A i \in DOMAIN signed'[r] : signed'[r][i] = s
      /\ \A p \in Requests \ {r} : signed'[p] = signed[p]
    BY <1>1, <1>2, <1>7, SignsFirst DEF RowOK
<1>9. SignatureOK(s, kinds[r], approvals[r])
    BY <1>7, ReviewNullAssumption DEF SignatureOK
<1>10. Tables' /\ \A p \in Requests \ {r} : Same(p)
    BY <1>1, <1>2, <1>6, <1>8 DEF Tables, Same
<1>11. kinds[r] # NULL /\ ~Waiting(approvals[r])
    BY <1>1, <1>2 DEF RowOK, Waiting
<1>12. RowOK(r)'
    <2>1. \A i \in DOMAIN signed'[r] : SignatureOK(signed'[r][i], kinds[r], approvals[r])
        BY <1>8, <1>9
    <2> QED  BY <1>1, <1>2, <1>5, <1>6, <1>8, <1>11, <2>1 DEF RowOK
<1>13. q \in Task /\ q.pc = "complete" /\ q.request = r /\ q.mode = NULL /\ q.tx = NULL
    BY NoTaskFits DEF Task, PCs
<1> HIDE DEF q
<1>14. TaskOK(q, kinds[r], approvals[r]) /\ q.pc \notin Live
    BY <1>11, <1>13, ReviewNullAssumption
    DEF TaskOK, Pipeline, Parking, Deciding, Building, Live
<1>15. PICK c \in Task : c = q
    BY <1>13
<1>16. Fits(c)'
    BY <1>1, <1>8, <1>13, <1>14, <1>15 DEF Fits
<1>17. SwapOK(r)'
    BY <1>1, <1>3, SwapStays DEF Building, Ending
<1> QED  BY <1>1, <1>2, <1>3, <1>8, <1>10, <1>12, <1>13, <1>14, <1>15, <1>16, <1>17, OneRequest

\* The metadata goes when the wallet's signature is in.
LEMMA CompleteKeeps ==
    ASSUME ReviewInv, NEW t \in Tasks, Complete(t)
    PROVE  ReviewInv'
<1>1. /\ tasks[t].pc = "complete" /\ Goto(t, "submitted")
      /\ tasks[t].pc \notin Building \cup Ending
      /\ UNCHANGED <<now, kinds, signed, boot, crashes, approvals, workflows, signatures, swaps>>
    BY DEF Complete, Swapping, Building, Ending
<1>2. PICK r \in Requests :
         /\ r = tasks[t].request /\ tasks[t] \in Task /\ tasks[t].tx = NULL
         /\ boot.step = "up" /\ Tables /\ kinds[r] # NULL /\ RowOK(r)
         /\ TaskOK(tasks[t], kinds[r], approvals[r]) /\ signed[r] # << >>
         /\ tasks[t].mode # "HumanGranted"
    BY <1>1, AtSwap
<1>3. /\ metas' \in [Requests -> PendingRow \cup {NULL}]
      /\ \A p \in Requests \ {r} : metas'[p] = metas[p]
    <2>1. CASE metas' = metas
        BY <1>2, <2>1 DEF Tables
    <2>2. CASE metas' # metas
        <3> DEFINE row == [metas[r] EXCEPT !.state = "consumed"]
        <3>1. Waiting(metas[r]) /\ metas[r] \in PendingRow
            BY <1>2, <2>2 DEF Complete, mark_completion_meta_terminal, Pending, Waiting, Tables
        <3>2. metas' = [metas EXCEPT ![r] = row]
            BY <1>2, <2>2 DEF Complete, mark_completion_meta_terminal, Tables
        <3>3. row \in PendingRow
            BY <3>1 DEF PendingRow, RowStates
        <3> HIDE DEF row
        <3> QED  BY <1>2, <3>2, <3>3 DEF Tables
    <2> QED  BY <2>1, <2>2
<1>4. Tables' /\ \A p \in Requests \ {r} : Same(p)
    BY <1>1, <1>2, <1>3 DEF Tables, Same
<1>5. RowOK(r)'
    <2>1. ~Waiting(signatures[r])
        BY <1>2 DEF RowOK
    <2> QED  BY <1>1, <1>2, <2>1 DEF RowOK
<1>6. PICK c : c = [tasks[t] EXCEPT !.pc = "submitted"]
    OBVIOUS
<1>7. tasks' = [tasks EXCEPT ![t] = c]
    BY <1>1, <1>6 DEF Goto, ReviewInv, Typed
<1>8. /\ c \in Task /\ c.pc = "submitted" /\ c.request = r /\ c.mode = tasks[t].mode
      /\ c.tx = NULL /\ c.workflow = tasks[t].workflow
    BY <1>2, <1>6 DEF Task, PCs, Ending
<1>9. TaskOK(c, kinds[r], approvals[r]) /\ c.pc \notin Live
    BY <1>2, <1>8 DEF TaskOK, Pipeline, Parking, Deciding, Building, Live
<1>10. Fits(c)'
    BY <1>1, <1>8, <1>9 DEF Fits
<1>11. SwapOK(r)'
    BY <1>1, <1>2, <1>7, SwapStays
<1> QED  BY <1>1, <1>2, <1>4, <1>5, <1>7, <1>8, <1>9, <1>10, <1>11, OneRequest

-----------------------------------------------------------------------------
(* Crash, startup, cleanup, time. *)

\* A crash ends the tasks and leaves the tables as they are.
LEMMA CrashKeeps ==
    ASSUME ReviewInv, Crash
    PROVE  ReviewInv'
<1>1. Typed /\ \A r \in Requests : RowOK(r)
    BY DEF ReviewInv
<1>2. /\ \A t \in Tasks : tasks'[t] = NoTask
      /\ boot'.step = "approvals"
      /\ UNCHANGED <<now, kinds, signed, approvals, workflows, signatures, metas, swaps>>
    BY DEF Crash, pendingVars
<1>3. Typed'
    <2>1. tasks' \in [Tasks -> Task]
        BY NoTaskFits DEF Crash
    <2>2. Tables'
        BY <1>1, <1>2 DEF Typed, Tables
    <2>3. /\ now' \in 0 .. MaxNow /\ crashes' \in 0 .. MaxCrashes
          /\ boot' \in [step : {"approvals", "signatures", "metas", "swaps", "up"},
                        at : 0 .. MaxNow]
        BY <1>1, ReviewBoundsAssumption DEF Crash, Typed
    <2> QED  BY <2>1, <2>2, <2>3 DEF Typed
<1>4. \A t \in Tasks : Fits(tasks[t])'
    BY <1>2, GoneFits
<1>5. OneLive'
    BY <1>2, NoTaskFits DEF OneLive
<1>6. \A r \in Requests : RowOK(r)'
    BY <1>1, <1>2 DEF RowOK, Waiting
<1>7. BootOK'
    BY <1>2 DEF BootOK
<1> QED  BY <1>3, <1>4, <1>5, <1>6, <1>7 DEF ReviewInv

\* What expire_older_than makes of a row, and what it leaves.
LEMMA ApprovalsExpire ==
    ASSUME approvals \in [Requests -> ApprovalRow \cup {NULL}], NEW at, NEW age
    PROVE  LET e == Expired(approvals, at, age)
           IN  /\ e \in [Requests -> ApprovalRow \cup {NULL}]
               /\ \A r \in Requests :
                     /\ approvals[r] = NULL => e[r] = NULL
                     /\ Waiting(e[r]) => Waiting(approvals[r])
                     /\ e[r] # NULL => e[r].parked = approvals[r].parked
<1> DEFINE e == Expired(approvals, at, age)
           old(r) == [approvals[r] EXCEPT !.state = "expired"]
<1>1. ASSUME NEW r \in Requests, approvals[r] # NULL
      PROVE  /\ old(r) \in ApprovalRow /\ ~Waiting(old(r)) /\ old(r).parked = approvals[r].parked
    <2>1. approvals[r] \in ApprovalRow
        BY <1>1
    <2>2. old(r) \in ApprovalRow /\ old(r).state = "expired" /\ old(r).parked = approvals[r].parked
        BY <2>1 DEF ApprovalRow, RowStates
    <2> QED  BY <2>2 DEF Waiting
<1>2. ASSUME NEW r \in Requests
      PROVE  e[r] = IF /\ approvals[r] # NULL /\ approvals[r].state = "pending"
                       /\ approvals[r].created + age <= at
                    THEN old(r) ELSE approvals[r]
    BY DEF Expired, Pending
<1>3. e = [r \in Requests |-> e[r]]
    BY DEF Expired
<1> HIDE DEF e, old
<1>4. ASSUME NEW r \in Requests
      PROVE  /\ e[r] \in ApprovalRow \cup {NULL}
             /\ approvals[r] = NULL => e[r] = NULL
             /\ Waiting(e[r]) => Waiting(approvals[r])
             /\ e[r] # NULL => e[r].parked = approvals[r].parked
    BY <1>1, <1>2
<1>5. e \in [Requests -> ApprovalRow \cup {NULL}]
    BY <1>3, <1>4
<1> QED  BY <1>4, <1>5 DEF e

\* The same for signatures and metadata, which it tells apart by age alone.
LEMMA PendingExpire ==
    ASSUME NEW table \in [Requests -> PendingRow \cup {NULL}], NEW at, NEW age
    PROVE  LET e == Expired(table, at, age)
           IN  /\ e \in [Requests -> PendingRow \cup {NULL}]
               /\ \A r \in Requests :
                     /\ table[r] = NULL => e[r] = NULL
                     /\ Waiting(e[r]) =>
                           /\ Waiting(table[r]) /\ e[r] = table[r]
                           /\ ~(table[r].created + age <= at)
                     /\ ~(table[r].created + age <= at) => e[r] = table[r]
<1> DEFINE e == Expired(table, at, age)
           old(r) == [table[r] EXCEPT !.state = "expired"]
<1>1. ASSUME NEW r \in Requests, table[r] # NULL
      PROVE  old(r) \in PendingRow /\ ~Waiting(old(r))
    <2>1. table[r] \in PendingRow
        BY <1>1
    <2>2. old(r) \in PendingRow /\ old(r).state = "expired"
        BY <2>1 DEF PendingRow, RowStates
    <2> QED  BY <2>2 DEF Waiting
<1>2. ASSUME NEW r \in Requests
      PROVE  e[r] = IF Waiting(table[r]) /\ table[r].created + age <= at
                    THEN old(r) ELSE table[r]
    BY DEF Expired, Pending, Waiting
<1>3. e = [r \in Requests |-> e[r]]
    BY DEF Expired
<1> HIDE DEF e, old
<1>4. ASSUME NEW r \in Requests
      PROVE  /\ e[r] \in PendingRow \cup {NULL}
             /\ table[r] = NULL => e[r] = NULL
             /\ Waiting(e[r]) =>
                   /\ Waiting(table[r]) /\ e[r] = table[r]
                   /\ ~(table[r].created + age <= at)
             /\ ~(table[r].created + age <= at) => e[r] = table[r]
    <2>1. CASE Waiting(table[r]) /\ table[r].created + age <= at
        <3>1. table[r] # NULL
            BY <2>1 DEF Waiting
        <3> QED  BY <1>1, <1>2, <2>1, <3>1
    <2>2. CASE ~(Waiting(table[r]) /\ table[r].created + age <= at)
        BY <1>2, <2>2
    <2> QED  BY <2>1, <2>2
<1>5. e \in [Requests -> PendingRow \cup {NULL}]
    BY <1>3, <1>4
<1> QED  BY <1>4, <1>5 DEF e

\* Rows keep in order when their approval is aged or deleted.
LEMMA ApprovalAges ==
    ASSUME NEW r \in Requests, RowOK(r),
           UNCHANGED <<kinds, signed, workflows, signatures, metas>>,
           approvals[r] = NULL => approvals'[r] = NULL,
           Waiting(approvals'[r]) => Waiting(approvals[r]),
           approvals'[r] # NULL => approvals'[r].parked = approvals[r].parked
    PROVE  RowOK(r)'
<1>1. \A i \in DOMAIN signed[r] : SignatureOK(signed[r][i], kinds[r], approvals'[r])
    BY DEF RowOK, SignatureOK
<1> QED  BY <1>1 DEF RowOK

\* Each statement of the startup: signatures expire before their metadata,
\* with one cutoff, so that no pending signature loses it.
LEMMA StartupKeeps ==
    ASSUME ReviewInv, Startup
    PROVE  ReviewInv'
<1>1. Typed /\ Tables /\ BootOK /\ \A r \in Requests : RowOK(r)
    BY DEF ReviewInv, Typed
<1>2. /\ boot.step # "up" /\ UNCHANGED <<now, kinds, tasks, signed, crashes, workflows>>
      /\ \A t \in Tasks : tasks[t] = NoTask
    BY <1>1 DEF Startup, BootOK
<1>3. (\A t \in Tasks : Fits(tasks[t])') /\ OneLive'
    <2>1. \A t \in Tasks : Fits(tasks[t])'
        BY <1>2, GoneFits
    <2> QED  BY <1>2, <2>1, NoTaskFits DEF OneLive
<1>4. boot.step \in {"approvals", "signatures", "metas", "swaps"}
    BY <1>1, <1>2 DEF Typed
<1>5. /\ boot' \in [step : {"approvals", "signatures", "metas", "swaps", "up"}, at : 0 .. MaxNow]
      /\ boot'.at = boot.at
      /\ boot.step = "approvals" => boot'.step = "signatures"
      /\ boot.step = "signatures" => boot'.step = "metas"
      /\ boot.step = "metas" => boot'.step = "swaps"
      /\ boot.step = "swaps" => boot'.step = "up"
    <2> DEFINE step == CASE boot.step = "approvals" -> "signatures"
                         [] boot.step = "signatures" -> "metas"
                         [] boot.step = "metas" -> "swaps" [] boot.step = "swaps" -> "up"
    <2>1. boot' = [boot EXCEPT !.step = step]
        BY DEF Startup
    <2>2. /\ boot.step = "approvals" => step = "signatures"
          /\ boot.step = "signatures" => step = "metas"
          /\ boot.step = "metas" => step = "swaps"
          /\ boot.step = "swaps" => step = "up"
        BY <1>4
    <2> HIDE DEF step
    <2>3. step \in {"signatures", "metas", "swaps", "up"}
        BY <1>4, <2>2
    <2> QED  BY <1>1, <2>1, <2>2, <2>3 DEF Typed
<1>6. ASSUME Tables', \A r \in Requests : RowOK(r)', BootOK'
      PROVE  ReviewInv'
    <2>1. Typed'
        BY <1>1, <1>2, <1>5, <1>6 DEF Typed
    <2> QED  BY <1>3, <1>6, <2>1 DEF ReviewInv
<1>7. CASE boot.step = "approvals"
    <2>1. /\ approvals' = Expired(approvals, boot.at, MaxAge)
          /\ UNCHANGED <<signatures, metas, swaps>>
        BY <1>7 DEF Startup
    <2>2. /\ approvals' \in [Requests -> ApprovalRow \cup {NULL}]
          /\ \A r \in Requests :
                /\ approvals[r] = NULL => approvals'[r] = NULL
                /\ Waiting(approvals'[r]) => Waiting(approvals[r])
                /\ approvals'[r] # NULL => approvals'[r].parked = approvals[r].parked
        BY <1>1, <2>1, ApprovalsExpire DEF Tables
    <2>3. Tables' /\ \A r \in Requests : RowOK(r)'
        BY <1>1, <1>2, <2>1, <2>2, ApprovalAges DEF Tables
    <2>4. BootOK'
        BY <1>2, <1>5, <1>7 DEF BootOK
    <2> QED  BY <1>6, <2>3, <2>4
<1>8. CASE boot.step = "signatures"
    <2>1. /\ signatures' = Expired(signatures, boot.at, MaxAge)
          /\ UNCHANGED <<approvals, metas, swaps>>
        BY <1>8 DEF Startup
    <2>2. /\ signatures' \in [Requests -> PendingRow \cup {NULL}]
          /\ \A r \in Requests :
                /\ signatures[r] = NULL => signatures'[r] = NULL
                /\ Waiting(signatures'[r]) =>
                      /\ Waiting(signatures[r]) /\ signatures'[r] = signatures[r]
                      /\ ~(signatures[r].created + MaxAge <= boot.at)
        <3>1. signatures \in [Requests -> PendingRow \cup {NULL}]
            BY <1>1 DEF Tables
        <3> DEFINE e == Expired(signatures, boot.at, MaxAge)
        <3>2. /\ e \in [Requests -> PendingRow \cup {NULL}]
              /\ \A r \in Requests :
                    /\ signatures[r] = NULL => e[r] = NULL
                    /\ Waiting(e[r]) =>
                          /\ Waiting(signatures[r]) /\ e[r] = signatures[r]
                          /\ ~(signatures[r].created + MaxAge <= boot.at)
            BY <3>1, PendingExpire
        <3>3. signatures' = e
            BY <2>1
        <3> HIDE DEF e
        <3> QED  BY <3>2, <3>3
    <2>3. Tables' /\ \A r \in Requests : RowOK(r)'
        BY <1>1, <1>2, <2>1, <2>2 DEF Tables, RowOK
    <2>4. ASSUME NEW r \in Requests, Waiting(signatures'[r])
          PROVE  signatures'[r].created + MaxAge > boot.at
        <3>1. signatures[r] \in PendingRow /\ signatures'[r] = signatures[r]
            BY <1>1, <2>2, <2>4 DEF Tables, Waiting
        <3>2. signatures[r].created \in Nat /\ MaxAge \in Nat /\ boot.at \in Nat
            BY <1>1, <3>1, ReviewBoundsAssumption DEF PendingRow, Typed
        <3> QED  BY <2>2, <2>4, <3>1, <3>2
    <2>5. BootOK'
        BY <1>2, <1>5, <1>8, <2>4 DEF BootOK
    <2> QED  BY <1>6, <2>3, <2>5
<1>9. CASE boot.step = "metas"
    <2>1. /\ metas' = Expired(metas, boot.at, MaxAge)
          /\ UNCHANGED <<approvals, signatures, swaps>>
        BY <1>9 DEF Startup
    <2>2. /\ metas' \in [Requests -> PendingRow \cup {NULL}]
          /\ \A r \in Requests :
                ~(metas[r].created + MaxAge <= boot.at) => metas'[r] = metas[r]
        BY <1>1, <2>1, PendingExpire DEF Tables
    <2>3. ASSUME NEW r \in Requests, Waiting(signatures[r])
          PROVE  metas'[r] = metas[r]
        <3>1. metas[r].created = signatures[r].created /\ signatures[r] \in PendingRow
              /\ signatures[r].created + MaxAge > boot.at
            BY <1>1, <1>9, <2>3 DEF RowOK, BootOK, Tables, Waiting
        <3>2. signatures[r].created \in Nat /\ MaxAge \in Nat /\ boot.at \in Nat
            BY <1>1, <3>1, ReviewBoundsAssumption DEF PendingRow, Typed
        <3>3. ~(metas[r].created + MaxAge <= boot.at)
            BY <3>1, <3>2
        <3> QED  BY <2>2, <3>3
    <2>4. Tables' /\ \A r \in Requests : RowOK(r)'
        BY <1>1, <1>2, <2>1, <2>2, <2>3 DEF Tables, RowOK
    <2>5. BootOK'
        BY <1>2, <1>5, <1>9 DEF BootOK
    <2> QED  BY <1>6, <2>4, <2>5
<1>10. CASE boot.step = "swaps"
    <2>1. /\ swaps' = [r \in Requests |->
                          IF swaps[r] \in {"approved_waiting_jit", "jit_building"}
                          THEN "expired" ELSE swaps[r]]
          /\ UNCHANGED <<approvals, signatures, metas>>
        BY <1>10 DEF Startup, expire_stuck
    <2>2. /\ swaps' \in [Requests -> SwapStates \cup {NULL}]
          /\ \A r \in Requests : ~HalfBuilt(r)'
        BY <1>1, <2>1 DEF Tables, SwapStates, HalfBuilt
    <2>3. Tables' /\ \A r \in Requests : RowOK(r)'
        BY <1>1, <1>2, <2>1, <2>2 DEF Tables, RowOK, Waiting
    <2>4. BootOK'
        BY <1>5, <1>10, <2>2 DEF BootOK, SwapOK
    <2> QED  BY <1>6, <2>3, <2>4
<1> QED  BY <1>4, <1>7, <1>8, <1>9, <1>10

\* What purge_terminal deletes, and what it leaves.
LEMMA PurgedRows ==
    ASSUME NEW table, NEW n, NEW keep
    PROVE  LET e == Purged(table, n, keep)
           IN  /\ e = [r \in Requests |-> e[r]]
               /\ \A r \in Requests :
                     e[r] = table[r] \/ (e[r] = NULL /\ ~Waiting(table[r]))
BY DEF Purged, Pending, Waiting

\* A task does not need the row of its approval any more.
LEMMA ParkedGone ==
    ASSUME NEW q, NEW k, NEW a, TaskOK(q, k, a)
    PROVE  TaskOK(q, k, NULL)
<1>1. PipelineOK(q, k, a) => PipelineOK(q, k, NULL)
    BY DEF PipelineOK
<1> QED  BY <1>1 DEF TaskOK

\* purge_terminal deletes nothing that anybody still waits for.
LEMMA PurgeKeeps ==
    ASSUME ReviewInv, Purge
    PROVE  ReviewInv'
<1>1. /\ Typed /\ Tables /\ OneLive /\ BootOK /\ \A r \in Requests : RowOK(r)
      /\ \A t \in Tasks : Fits(tasks[t])
    BY DEF ReviewInv, Typed
<1>2. boot.step = "up" /\ UNCHANGED <<now, kinds, tasks, signed, boot, crashes, workflows, swaps>>
    BY DEF Purge
<1>3. /\ approvals' \in [Requests -> ApprovalRow \cup {NULL}]
      /\ signatures' \in [Requests -> PendingRow \cup {NULL}]
      /\ metas' \in [Requests -> PendingRow \cup {NULL}]
      /\ \A r \in Requests :
            /\ approvals'[r] = approvals[r] \/ (approvals'[r] = NULL /\ ~Waiting(approvals[r]))
            /\ signatures'[r] = signatures[r] \/ (signatures'[r] = NULL /\ ~Waiting(signatures[r]))
            /\ metas'[r] = metas[r] \/ (metas'[r] = NULL /\ ~Waiting(metas[r]))
    <2>1. CASE approvals' = Purged(approvals, now, Retention) /\ UNCHANGED <<signatures, metas>>
        <3> DEFINE e == Purged(approvals, now, Retention)
        <3>1. approvals \in [Requests -> ApprovalRow \cup {NULL}]
            BY <1>1 DEF Tables
        <3>2. /\ e = [r \in Requests |-> e[r]]
              /\ \A r \in Requests : e[r] = approvals[r] \/ (e[r] = NULL /\ ~Waiting(approvals[r]))
            BY PurgedRows
        <3> HIDE DEF e
        <3>3. approvals' = e
            BY <2>1 DEF e
        <3> QED  BY <1>1, <2>1, <3>1, <3>2, <3>3 DEF Tables
    <2>2. CASE signatures' = Purged(signatures, now, Retention) /\ UNCHANGED <<approvals, metas>>
        <3> DEFINE e == Purged(signatures, now, Retention)
        <3>1. signatures \in [Requests -> PendingRow \cup {NULL}]
            BY <1>1 DEF Tables
        <3>2. /\ e = [r \in Requests |-> e[r]]
              /\ \A r \in Requests : e[r] = signatures[r] \/ (e[r] = NULL /\ ~Waiting(signatures[r]))
            BY PurgedRows
        <3> HIDE DEF e
        <3>3. signatures' = e
            BY <2>2 DEF e
        <3> QED  BY <1>1, <2>2, <3>1, <3>2, <3>3 DEF Tables
    <2>3. CASE metas' = Purged(metas, now, Retention) /\ UNCHANGED <<approvals, signatures>>
        <3> DEFINE e == Purged(metas, now, Retention)
        <3>1. metas \in [Requests -> PendingRow \cup {NULL}]
            BY <1>1 DEF Tables
        <3>2. /\ e = [r \in Requests |-> e[r]]
              /\ \A r \in Requests : e[r] = metas[r] \/ (e[r] = NULL /\ ~Waiting(metas[r]))
            BY PurgedRows
        <3> HIDE DEF e
        <3>3. metas' = e
            BY <2>3 DEF e
        <3> QED  BY <1>1, <2>3, <3>1, <3>2, <3>3 DEF Tables
    <2> QED  BY <2>1, <2>2, <2>3 DEF Purge
<1>4. Typed'
    BY <1>1, <1>2, <1>3 DEF Typed, Tables
<1>5. ~Waiting(NULL)
    BY DEF Waiting
<1>6. ASSUME NEW t \in Tasks
      PROVE  Fits(tasks[t])'
    <2> DEFINE q == tasks[t]
               r == tasks[t].request
    <2>1. TaskOK(q, kinds[r], approvals[r])
        BY <1>1 DEF Fits
    <2>2. CASE q.pc = "idle"
        <3>1. q = NoTask
            BY <2>1, <2>2 DEF TaskOK
        <3> QED  BY <1>2, <3>1, GoneFits
    <2>3. CASE q.pc # "idle"
        <3>1. r \in Requests
            BY <2>1, <2>3 DEF TaskOK
        <3>2. TaskOK(q, kinds[r], approvals'[r])
            BY <1>3, <2>1, <3>1, ParkedGone
        <3>3. q.pc \in Live => signed[r] = << >> /\ ~Waiting(approvals'[r]) /\ ~Waiting(signatures'[r])
            BY <1>1, <1>3, <1>5, <3>1 DEF Fits, LiveOK
        <3> QED  BY <1>1, <1>2, <3>2, <3>3 DEF Fits, LiveOK
    <2> QED  BY <2>2, <2>3
<1>7. OneLive' /\ BootOK'
    BY <1>1, <1>2 DEF OneLive, BootOK, SwapOK, HalfBuilt
<1>8. ASSUME NEW r \in Requests
      PROVE  RowOK(r)'
    <2>1. \A i \in DOMAIN signed[r] : SignatureOK(signed[r][i], kinds[r], approvals'[r])
        BY <1>1, <1>3 DEF RowOK, SignatureOK
    <2>2. /\ approvals'[r] # NULL => approvals'[r] = approvals[r]
          /\ signatures'[r] # NULL => signatures'[r] = signatures[r]
          /\ Waiting(metas[r]) => metas'[r] = metas[r]
        BY <1>3
    <2>3. /\ Waiting(approvals'[r]) => approvals'[r] = approvals[r]
          /\ Waiting(signatures'[r]) => signatures'[r] = signatures[r]
          /\ approvals[r] = NULL => approvals'[r] = NULL
          /\ signatures[r] = NULL => signatures'[r] = NULL
        BY <1>3, <1>5
    <2>4. RowOK(r)
        BY <1>1
    <2> QED  BY <1>2, <2>1, <2>2, <2>3, <2>4 DEF RowOK
<1> QED  BY <1>4, <1>6, <1>7, <1>8 DEF ReviewInv

\* Time passes.
LEMMA TickKeeps ==
    ASSUME ReviewInv, Tick \/ UNCHANGED reviewVars
    PROVE  ReviewInv'
<1>1. UNCHANGED <<kinds, tasks, signed, boot, crashes, approvals, workflows, signatures, metas, swaps>>
    BY DEF Tick, reviewVars, pendingVars
<1>2. now' \in 0 .. MaxNow
    BY ReviewBoundsAssumption DEF ReviewInv, Typed, Tick, reviewVars
<1>3. Typed'
    BY <1>1, <1>2 DEF ReviewInv, Typed, Tables
<1>4. \A t \in Tasks : Fits(tasks[t])'
    BY <1>1 DEF ReviewInv, Fits, LiveOK, Waiting
<1>5. OneLive' /\ BootOK'
    BY <1>1 DEF ReviewInv, OneLive, BootOK, SwapOK, HalfBuilt, Waiting
<1>6. \A r \in Requests : RowOK(r)'
    BY <1>1 DEF ReviewInv, RowOK, Waiting
<1> QED  BY <1>3, <1>4, <1>5, <1>6 DEF ReviewInv

-----------------------------------------------------------------------------
(* The theorems. *)

\* Every step keeps the invariant.
LEMMA ReviewSteps ==
    ASSUME ReviewInv, [Next]_reviewVars
    PROVE  ReviewInv'
<1>1. CASE Crash \/ Startup \/ Purge
    BY <1>1, CrashKeeps, StartupKeeps, PurgeKeeps
<1>2. CASE Tick \/ UNCHANGED reviewVars
    BY <1>2, TickKeeps
<1>3. ASSUME NEW t \in Tasks,
             \/ PipelineStep(t)
             \/ CreateWorkflow(t) \/ Park(t)
             \/ UpdateWorkflow(t) \/ \E updated \in BOOLEAN : MarkTerminal(t, updated)
             \/ DecideSwap(t) \/ JitStart(t) \/ JitBuild(t) \/ JitEnd(t) \/ Complete(t)
      PROVE  ReviewInv'
    BY <1>3, PipelineKeeps, CreateWorkflowKeeps, ParkKeeps, UpdateWorkflowKeeps,
       MarkTerminalKeeps, DecideSwapKeeps, JitStartKeeps, JitBuildKeeps, JitEndKeeps,
       CompleteKeeps
<1>4. ASSUME NEW t \in Tasks, NEW r \in Requests,
             \/ ProposeSwap(t, r) \/ WalletAnswers(t, r)
             \/ \E proposal \in Proposals :
                   \/ ReviewAndSign(t, r, proposal)
                   \/ \E mode \in Modes, session \in SessionRules :
                         Propose(t, r, proposal, mode, session)
             \/ \E operator \in Operators, approved \in BOOLEAN :
                   Decide(t, r, operator, approved)
      PROVE  ReviewInv'
    BY <1>4, ProposeSwapKeeps, WalletAnswersKeeps, ReviewAndSignKeeps, ProposeKeeps, DecideKeeps
<1> QED  BY <1>1, <1>2, <1>3, <1>4 DEF Next

\* The invariant holds always.
THEOREM ReviewInvAlways == ReviewSpec => []ReviewInv
BY ReviewInitially, ReviewSteps, PTL DEF ReviewSpec

\* Rows, requests and tasks fit together: every task is for a request that
\* was made, a task in the pipeline has its transaction and its mode, and
\* every parked approval has its workflow.
THEOREM ReviewTypes == ReviewSpec => []ReviewTypeOK
<1>1. ReviewInv => ReviewTypeOK
    <2> SUFFICES ASSUME ReviewInv
                 PROVE  ReviewTypeOK
        OBVIOUS
    <2>1. /\ Typed /\ \A t \in Tasks : Fits(tasks[t])
          /\ \A r \in Requests : RowOK(r)
        BY DEF ReviewInv
    <2>2. ASSUME NEW t \in Tasks
          PROVE  /\ tasks[t].pc = "idle" <=> tasks[t] = NoTask
                 /\ tasks[t].pc \in {"first", "second", "audit", "policy", "sign"} =>
                       tasks[t].tx # NULL /\ tasks[t].mode # NULL
                 /\ tasks[t].request # NULL => kinds[tasks[t].request] # NULL
        <3>1. TaskOK(tasks[t], kinds[tasks[t].request], approvals[tasks[t].request])
            BY <2>1 DEF Fits
        <3>2. NoTask.pc = "idle" /\ NoTask.request = NULL
            BY DEF NoTask
        <3>3. tasks[t].pc \in {"first", "second", "audit", "policy", "sign"} =>
                 tasks[t].tx # NULL /\ tasks[t].mode # NULL
            BY <3>1, ReviewNullAssumption DEF TaskOK, PipelineOK, Pipeline
        <3> QED  BY <3>1, <3>2, <3>3 DEF TaskOK
    <2>3. ASSUME NEW r \in Requests
          PROVE  /\ approvals[r] # NULL => approvals[r].state \in RowStates /\ workflows[r] # NULL
                 /\ signatures[r] # NULL => signatures[r].state \in RowStates
                 /\ metas[r] # NULL => metas[r].state \in RowStates
                 /\ swaps[r] \in SwapStates \cup {NULL}
        BY <2>1 DEF Typed, Tables, RowOK, ApprovalRow, PendingRow
    <2> QED  BY <2>1, <2>2, <2>3 DEF ReviewTypeOK, Typed, Tables
<1> QED  BY <1>1, ReviewInvAlways, PTL

\* Whatever a signer signs was simulated with success, carries the lifetime
\* of its own blockhash, was not blocked and, outside the resume path, needed
\* no human; and the executor signs nothing but its builder's deposit, the
\* very message it showed before.
THEOREM SignedAsReviewedAlways == ReviewSpec => []SignedAsReviewed
<1>1. ReviewInv => SignedAsReviewed
    BY DEF ReviewInv, RowOK, SignatureOK, SignedAsReviewed, Reviewed, submission_bytes
<1> QED  BY <1>1, ReviewInvAlways, PTL

\* The votes of an approved workflow are those of as many operators.
LEMMA QuorumOfOperators ==
    ASSUME NEW w, Approved(w), NEW j \in DOMAIN w.stages
    PROVE  LET stage  == w.stages[j]
               voters == {stage.decisions[k].operator : k \in DOMAIN stage.decisions}
           IN  /\ Cardinality(voters) >= stage.min
               /\ \A k \in DOMAIN stage.decisions :
                     /\ stage.decisions[k].approved
                     /\ stage.roles # {} => stage.decisions[k].role \in stage.roles
<1> DEFINE stage == w.stages[j]
           ds == stage.decisions
           D == DOMAIN ds
           voters == {ds[k].operator : k \in D}
           f == [k \in D |-> ds[k].operator]
<1>1. w \in Workflow /\ StageOK(stage) /\ ~has_rejection(stage) /\ quorum_met(stage)
    BY DEF Approved, WorkflowOK
<1>2. stage \in StageRow
    BY <1>1, ElementOf DEF Workflow
<1>3. ds \in Seq(Votes) /\ stage.min \in Nat
    BY <1>2 DEF StageRow
<1>4. D = 1 .. Len(ds) /\ Len(ds) \in Nat
    BY <1>3
<1>5. \A k \in D : ds[k].approved
    BY <1>1 DEF has_rejection
<1>6. {k \in D : ds[k].approved} = D
    BY <1>5
<1>7. Cardinality(D) >= stage.min
    BY <1>1, <1>6 DEF quorum_met, approval_count
<1>8. \A k \in D : stage.roles # {} => ds[k].role \in stage.roles
    BY <1>1 DEF StageOK
<1>9. f \in Bijection(D, voters)
    <2>1. \A k, l \in D : ds[k].operator = ds[l].operator => k = l
        BY <1>1 DEF StageOK
    <2> HIDE DEF ds, D
    <2>2. f \in Injection(D, voters)
        BY <2>1 DEF Injection, IsInjective
    <2>3. f \in Surjection(D, voters)
        BY <2>2 DEF Injection, Surjection
    <2> QED  BY <2>2, <2>3 DEF Bijection
<1>10. Cardinality(voters) = Cardinality(D)
    <2> HIDE DEF ds, D, voters, f
    <2>1. IsFiniteSet(D)
        BY <1>4, FS_Interval
    <2> QED  BY <1>9, <2>1, FS_Bijection DEF ExistsBijection
<1> QED  BY <1>5, <1>7, <1>8, <1>10

-----------------------------------------------------------------------------
(* The pending row decides.  The right to sign is only ever taken from a row *)
(* that has been consumed, or that never was.                                *)

Spent(row) == row = NULL \/ row.state = "consumed"

\* A task that goes on to a signature; one that only carries a rejection of a
\* swap to its end does not.
Entitled(q) ==
    \/ q.pc \in Pipeline \cup Building
    \/ q.pc = "swap" /\ q.workflow.state = "approved"

GrantInv ==
    /\ \A t \in Tasks : Entitled(tasks[t]) => Spent(approvals[tasks[t].request])
    /\ \A r \in Requests :
          signed[r] # << >> \/ Waiting(signatures[r]) => Spent(approvals[r])

LEMMA NoTaskIsNotEntitled == ~Entitled(NoTask)
BY DEF Entitled, NoTask, Pipeline, Building

\* A step of one task that leaves the pending rows alone.
LEMMA GrantStays ==
    ASSUME ReviewInv, GrantInv, NEW t \in Tasks, NEW q, tasks' = [tasks EXCEPT ![t] = q],
           UNCHANGED approvals,
           Entitled(q) => Spent(approvals[q.request]),
           \A r \in Requests : \/ Spent(approvals[r])
                               \/ /\ signed'[r] = signed[r]
                                  /\ Waiting(signatures'[r]) => Waiting(signatures[r])
    PROVE  GrantInv'
<1>1. \A u \in Tasks : tasks'[u] = IF u = t THEN q ELSE tasks[u]
    BY DEF ReviewInv, Typed
<1>2. \A u \in Tasks : Entitled(tasks'[u]) => Spent(approvals'[tasks'[u].request])
    BY <1>1 DEF GrantInv
<1>3. \A r \in Requests :
         signed'[r] # << >> \/ Waiting(signatures'[r]) => Spent(approvals'[r])
    BY DEF GrantInv
<1>4. \A u \in Tasks : Entitled(tasks[u])' <=> Entitled(tasks'[u])
    BY DEF Entitled
<1> QED  BY <1>2, <1>3, <1>4 DEF GrantInv, Spent, Waiting

\* The task of one request goes on, and signs nothing.
LEMMA GrantGoesOn ==
    ASSUME ReviewInv, GrantInv, NEW t \in Tasks, NEW q, tasks' = [tasks EXCEPT ![t] = q],
           UNCHANGED <<approvals, signed, signatures>>,
           Entitled(q) => Entitled(tasks[t]) /\ q.request = tasks[t].request
    PROVE  GrantInv'
<1>1. Entitled(q) => Spent(approvals[q.request])
    BY DEF GrantInv
<1>2. \A r \in Requests : signed'[r] = signed[r] /\ signatures'[r] = signatures[r]
    OBVIOUS
<1> QED  BY <1>1, <1>2, GrantStays

\* The task of a request whose row is spent signs, or asks a wallet to.
LEMMA GrantIsUsed ==
    ASSUME ReviewInv, GrantInv, NEW t \in Tasks, NEW q, tasks' = [tasks EXCEPT ![t] = q],
           NEW r \in Requests, Spent(approvals[r]), UNCHANGED approvals, ~Entitled(q),
           \A p \in Requests \ {r} : signed'[p] = signed[p] /\ signatures'[p] = signatures[p]
    PROVE  GrantInv'
<1>1. \A p \in Requests : \/ Spent(approvals[p])
                          \/ /\ signed'[p] = signed[p]
                             /\ Waiting(signatures'[p]) => Waiting(signatures[p])
    OBVIOUS
<1> QED  BY <1>1, GrantStays

\* A signature is made for one request.
LEMMA SignsOne ==
    ASSUME ReviewInv, NEW r \in Requests, NEW task, Sign(r, task)
    PROVE  \A p \in Requests \ {r} : signed'[p] = signed[p]
BY DEF Sign, ReviewInv, Typed, Tables

\* A task that is updated is still for its request.
LEMMA SameRequest ==
    ASSUME NEW q \in Task, NEW a, NEW b, NEW c, NEW d, NEW p
    PROVE  /\ [q EXCEPT !.pc = p].request = q.request
           /\ [[q EXCEPT !.tx = a, !.lastValid = b] EXCEPT !.pc = p].request = q.request
           /\ [[q EXCEPT !.tx = a, !.lastValid = b, !.sim = c, !.passed = d]
                  EXCEPT !.pc = p].request = q.request
           /\ [q EXCEPT !.tx = a, !.lastValid = b].request = q.request
           /\ [q EXCEPT !.tx = a, !.lastValid = b, !.sim = c, !.passed = d].request = q.request
           /\ [q EXCEPT !.pc = p, !.audited = a].request = q.request
           /\ [q EXCEPT !.pc = p, !.verdict = a, !.hash = b].request = q.request
           /\ [q EXCEPT !.pc = p, !.mode = a].request = q.request
BY DEF Task

LEMMA GrantPipeline ==
    ASSUME ReviewInv, GrantInv, NEW t \in Tasks, PipelineStep(t)
    PROVE  GrantInv'
<1>1. /\ tasks[t].pc \in Pipeline /\ tasks[t].pc # "idle"
      /\ approvals' = approvals /\ signatures' = signatures
    <2> DEFINE Goal == tasks[t].pc \in Pipeline /\ UNCHANGED pendingVars
    <2>1. ASSUME NEW fee, NEW h, NEW sim, FirstPass(t, fee, h, sim) PROVE Goal
        BY <2>1 DEF FirstPass, Pipeline
    <2>2. ASSUME NEW h, NEW sim, SecondPass(t, h, sim) PROVE Goal
        BY <2>2 DEF SecondPass, Pipeline
    <2>3. ASSUME Audit(t) PROVE Goal
        BY <2>3 DEF Audit, Pipeline
    <2>4. ASSUME NEW spent, EvaluatePolicy(t, spent) PROVE Goal
        BY <2>4 DEF EvaluatePolicy, Pipeline
    <2>5. ASSUME SignOrPark(t) PROVE Goal
        BY <2>5 DEF SignOrPark, Pipeline
    <2>6. Goal
        <3> HIDE DEF Goal
        <3>1. ASSUME tasks[t].pc \in {"second", "audit"}, UNCHANGED pendingVars PROVE Goal
            BY <3>1 DEF Pipeline, Goal
        <3> QED  BY <2>1, <2>2, <2>3, <2>4, <2>5, <3>1 DEF PipelineStep
    <2> QED  BY <2>6 DEF Pipeline, pendingVars
<1>2. tasks[t] \in Task /\ tasks[t].request \in Requests
    BY <1>1, OneTask
<1>3. Entitled(tasks[t]) /\ Spent(approvals[tasks[t].request])
    BY <1>1 DEF Entitled, GrantInv
<1>4. ASSUME NEW q, tasks' = [tasks EXCEPT ![t] = q], signed' = signed,
             Entitled(q) => q.request = tasks[t].request
      PROVE  GrantInv'
    BY <1>1, <1>3, <1>4, GrantGoesOn
<1>5. ASSUME End(t), signed' = signed PROVE GrantInv'
    BY <1>4, <1>5, NoTaskIsNotEntitled DEF End, Become
<1>6. ASSUME NEW fee \in Fees, NEW h \in Fresh, NEW sim, FirstPass(t, fee, h, sim)
      PROVE  GrantInv'
    <2> DEFINE tx == [prepend_compute_budget(tasks[t].tx, DEFAULT_COMPUTE_UNITS, fee)
                         EXCEPT !.blockhash = h]
               task == [tasks[t] EXCEPT !.tx = tx, !.lastValid = h, !.sim = sim,
                                        !.passed = {Body(tx)}]
    <2>1. /\ signed' = signed
          /\ \/ End(t)
             \/ Become(t, [task EXCEPT !.pc = "second"])
             \/ Simulated(t, task)
        BY <1>6 DEF FirstPass
    <2>2. \A p : [task EXCEPT !.pc = p].request = tasks[t].request
        BY <1>2, SameRequest
    <2> HIDE DEF task
    <2>3. ASSUME NEW p, Become(t, [task EXCEPT !.pc = p]) PROVE GrantInv'
        BY <1>4, <2>1, <2>2, <2>3 DEF Become
    <2>4. CASE Simulated(t, task)
        BY <2>3, <2>4 DEF Simulated
    <2> QED  BY <1>5, <2>1, <2>3, <2>4
<1>7. ASSUME NEW h \in Fresh, NEW sim, SecondPass(t, h, sim)
      PROVE  GrantInv'
    <2> DEFINE units  == compute_limit_from_simulation(tasks[t].sim.units)
               tight  == [replace_compute_unit_limit(tasks[t].tx, units) EXCEPT !.blockhash = h]
               failed == [tasks[t] EXCEPT !.tx = Fallback(tight), !.lastValid = h]
               passed == [tasks[t] EXCEPT !.tx = tight, !.lastValid = h, !.sim = sim,
                                          !.passed = tasks[t].passed \cup {Body(tight)}]
    <2>1. signed' = signed /\ (Simulated(t, failed) \/ Simulated(t, passed))
        BY <1>2, <1>7 DEF SecondPass
    <2>2. \A p : /\ [failed EXCEPT !.pc = p].request = tasks[t].request
                 /\ [passed EXCEPT !.pc = p].request = tasks[t].request
        <3> HIDE DEF tight
        <3> QED  BY <1>2, SameRequest
    <2> HIDE DEF failed, passed
    <2>3. ASSUME NEW p, \/ Become(t, [failed EXCEPT !.pc = p])
                        \/ Become(t, [passed EXCEPT !.pc = p])
          PROVE  GrantInv'
        BY <1>4, <2>1, <2>2, <2>3 DEF Become
    <2> QED  BY <2>1, <2>3 DEF Simulated
<1>8. ASSUME Audit(t) PROVE GrantInv'
    <2> DEFINE q == [tasks[t] EXCEPT !.pc = "policy", !.audited = tasks[t].tx]
    <2>1. tasks' = [tasks EXCEPT ![t] = q] /\ signed' = signed
        BY <1>8 DEF Audit, Become
    <2>2. q.request = tasks[t].request
        BY <1>2, SameRequest
    <2> HIDE DEF q
    <2> QED  BY <1>4, <2>1, <2>2
<1>9. ASSUME NEW spent, EvaluatePolicy(t, spent) PROVE GrantInv'
    <2>1. signed' = signed /\ (End(t) \/ \E v : Become(t, ApprovedTransaction(tasks[t], v)))
        BY <1>9 DEF EvaluatePolicy
    <2>2. \A v : ApprovedTransaction(tasks[t], v).request = tasks[t].request
        BY <1>2, SameRequest DEF ApprovedTransaction
    <2> QED  BY <1>4, <1>5, <2>1, <2>2 DEF Become
<1>10. ASSUME SignOrPark(t) PROVE GrantInv'
    <2> DEFINE q == [tasks[t] EXCEPT !.pc = "create"]
    <2>1. \/ tasks' = [tasks EXCEPT ![t] = q] /\ signed' = signed
          \/ End(t) /\ (signed' = signed \/ Sign(tasks[t].request, tasks[t]))
        BY <1>2, <1>10 DEF SignOrPark, Goto, ReviewInv, Typed
    <2>2. q.request = tasks[t].request
        BY <1>2, SameRequest
    <2> HIDE DEF q
    <2>3. CASE tasks' = [tasks EXCEPT ![t] = q] /\ signed' = signed
        BY <1>4, <2>2, <2>3
    <2>4. CASE End(t) /\ Sign(tasks[t].request, tasks[t])
        BY <1>1, <1>2, <1>3, <2>4, SignsOne, GrantIsUsed, NoTaskIsNotEntitled DEF End, Become
    <2> QED  BY <1>5, <2>1, <2>3, <2>4
<1> QED  BY <1>5, <1>6, <1>7, <1>8, <1>9, <1>10 DEF PipelineStep

LEMMA ReviewBegins ==
    ASSUME NEW t, NEW r, NEW tx, NEW mode, Review(t, r, tx, mode)
    PROVE  tasks' = [tasks EXCEPT ![t] = Begun(tasks[t], r, tx, mode)]
BY DEF Review, Become, Begun

\* A request that is new has no row.
LEMMA GrantBegins ==
    ASSUME ReviewInv, GrantInv, NEW t \in Tasks, NEW r \in Requests, Up(t), kinds[r] = NULL,
           UNCHANGED <<approvals, signed, signatures>>,
           \/ UNCHANGED tasks
           \/ \E tx, mode : Review(t, r, tx, mode)
           \/ \E q : tasks' = [tasks EXCEPT ![t] = q] /\ ~Entitled(q)
    PROVE  GrantInv'
<1>1. Spent(approvals[r]) /\ tasks[t] = NoTask /\ NoTask \in Task
    BY IdleIsNoTask, NoTaskFits DEF ReviewInv, RowOK, Spent, Up
<1>2. CASE UNCHANGED tasks
    BY <1>2 DEF GrantInv, Entitled, Spent, Waiting
<1>3. ASSUME NEW tx, NEW mode, Review(t, r, tx, mode) PROVE GrantInv'
    <2> DEFINE q == Begun(tasks[t], r, tx, mode)
    <2>1. tasks' = [tasks EXCEPT ![t] = q]
        BY <1>3, ReviewBegins
    <2>2. q.request = r
        <3>1. tasks[t] \in Task
            BY <1>1
        <3> QED  BY <3>1 DEF Task, Begun
    <2> HIDE DEF q
    <2> QED  BY <1>1, <2>1, <2>2, GrantStays
<1>4. ASSUME NEW q, tasks' = [tasks EXCEPT ![t] = q], ~Entitled(q) PROVE GrantInv'
    BY <1>4, GrantGoesOn
<1> QED  BY <1>2, <1>3, <1>4

\* A task that parks, votes, writes the workflow, ends a swap or notes what a
\* wallet answered is on no way to a signature.
LEMMA NotEntitled ==
    ASSUME NEW q, q.pc \in {"idle", "create", "park", "update", "mark", "complete"} \cup Ending
    PROVE  ~Entitled(q)
BY DEF Entitled, Pipeline, Building, Ending

LEMMA GrantDecide ==
    ASSUME ReviewInv, GrantInv, NEW t \in Tasks, NEW r \in Requests, NEW operator \in Operators,
           NEW approved \in BOOLEAN, Decide(t, r, operator, approved)
    PROVE  GrantInv'
<1> DEFINE q == [NoTask EXCEPT !.pc = "update", !.request = r,
                               !.workflow = Decided(workflows[r], operator, approved)]
<1>1. tasks' = [tasks EXCEPT ![t] = q] /\ UNCHANGED <<approvals, signed, signatures>>
    BY DEF Decide, load, Become, pendingVars
<1>2. q.pc = "update"
    BY NoTaskFits DEF Task
<1> HIDE DEF q
<1> QED  BY <1>1, <1>2, NotEntitled, GrantGoesOn

LEMMA GrantRows ==
    ASSUME ReviewInv, GrantInv, NEW t \in Tasks, CreateWorkflow(t) \/ UpdateWorkflow(t)
    PROVE  GrantInv'
<1>1. tasks[t] \in Task
    BY DEF ReviewInv, Typed
<1>2. PICK pc \in {"park", "mark"} : \/ tasks' = [tasks EXCEPT ![t] = [tasks[t] EXCEPT !.pc = pc]]
                                     \/ tasks' = [tasks EXCEPT ![t] = NoTask]
    BY DEF CreateWorkflow, UpdateWorkflow, Goto, End, Become, ReviewInv, Typed
<1> DEFINE q == [tasks[t] EXCEPT !.pc = pc]
<1>3. q.pc = pc
    BY <1>1 DEF Task
<1>4. tasks' = [tasks EXCEPT ![t] = q] \/ tasks' = [tasks EXCEPT ![t] = NoTask]
    BY <1>2
<1> HIDE DEF q
<1>5. ~Entitled(q)
    BY <1>3, NotEntitled
<1>6. UNCHANGED <<approvals, signed, signatures>>
    BY DEF CreateWorkflow, UpdateWorkflow
<1> QED  BY <1>4, <1>5, <1>6, GrantGoesOn, NoTaskIsNotEntitled

\* The row of a request of which nothing is signed changes, by the only task
\* that may have the right to sign.
LEMMA GrantTurns ==
    ASSUME ReviewInv, GrantInv, NEW t \in Tasks, NEW q, tasks' = [tasks EXCEPT ![t] = q],
           NEW r \in Requests, NoOther(t, r), signed[r] = << >>, ~Waiting(signatures[r]),
           UNCHANGED <<signed, signatures>>,
           \A p \in Requests \ {r} : approvals'[p] = approvals[p],
           Entitled(q) => q.request = r /\ Spent(approvals'[r])
    PROVE  GrantInv'
<1>1. \A u \in Tasks : tasks'[u] = IF u = t THEN q ELSE tasks[u]
    BY DEF ReviewInv, Typed
<1>2. ASSUME NEW u \in Tasks, Entitled(tasks'[u])
      PROVE  Spent(approvals'[tasks'[u].request])
    <2>1. CASE u = t
        BY <1>1, <1>2, <2>1
    <2>2. CASE u # t
        <3>1. tasks'[u] = tasks[u] /\ tasks[u].pc \in Live /\ tasks[u].pc # "idle"
            BY <1>1, <1>2, <2>2 DEF Entitled, Live, Pipeline, Building
        <3>2. tasks[u].request \in Requests \ {r}
            BY <2>2, <3>1, OneTask DEF NoOther, IsLive
        <3> QED  BY <1>2, <3>1, <3>2 DEF GrantInv
    <2> QED  BY <2>1, <2>2
<1>3. ASSUME NEW p \in Requests, signed'[p] # << >> \/ Waiting(signatures'[p])
      PROVE  Spent(approvals'[p])
    BY <1>3 DEF GrantInv
<1>4. \A u \in Tasks : Entitled(tasks[u])' <=> Entitled(tasks'[u])
    BY DEF Entitled
<1> QED  BY <1>2, <1>3, <1>4 DEF GrantInv, Spent, Waiting

\* A request is parked: its task had the right to sign and gives it to the row.
LEMMA GrantPark ==
    ASSUME ReviewInv, GrantInv, NEW t \in Tasks, Park(t)
    PROVE  GrantInv'
<1>1. tasks[t].pc \in Live /\ tasks[t].pc # "idle"
    BY DEF Park, Live, Parking
<1>0. PICK r \in Requests : r = tasks[t].request
    BY <1>1, OneTask
<1>2. LiveOK(r) /\ NoOther(t, r)
    BY <1>0, <1>1, OneTask
<1>3. /\ tasks' = [tasks EXCEPT ![t] = NoTask] /\ UNCHANGED <<signed, signatures>>
      /\ \A p \in Requests \ {r} : approvals'[p] = approvals[p]
    BY <1>0 DEF Park, End, Become, insert_pending_approval, ReviewInv, Typed, Tables
<1> QED  BY <1>2, <1>3, GrantTurns, NoTaskIsNotEntitled DEF LiveOK

\* Whoever turns the row to consumed takes the right to sign; a rejection or
\* the end of the lease gives it to nobody, and who comes late gets nothing.
LEMMA GrantMark ==
    ASSUME ReviewInv, GrantInv, NEW t \in Tasks, NEW updated \in BOOLEAN, MarkTerminal(t, updated)
    PROVE  GrantInv'
<1> DEFINE w == tasks[t].workflow
<1>1. /\ tasks[t].pc = "mark" /\ tasks[t].pc \in Deciding /\ tasks[t].pc # "idle"
      /\ UNCHANGED <<signed, signatures>>
    BY DEF MarkTerminal, Deciding
<1>0. PICK r \in Requests : r = tasks[t].request
    BY <1>1, OneTask
<1>2. /\ tasks[t] \in Task /\ RowOK(r) /\ Tables
      /\ TaskOK(tasks[t], kinds[r], approvals[r])
    BY <1>0, <1>1, OneTask DEF ReviewInv, Typed
<1>3. w.state \in {"approved", "rejected", "expired"}
    BY <1>1, <1>2 DEF TaskOK, is_terminal, WorkflowOK, Workflow
<1>4. CASE ~updated
    <2>1. approvals' = approvals /\ tasks' = [tasks EXCEPT ![t] = NoTask]
        BY <1>4 DEF MarkTerminal, mark_approval_terminal, End, Become
    <2> QED  BY <1>1, <2>1, GrantGoesOn, NoTaskIsNotEntitled
<1>5. CASE updated
    <2>1. Waiting(approvals[r]) /\ approvals[r] \in ApprovalRow
        BY <1>0, <1>2, <1>5 DEF MarkTerminal, mark_approval_terminal, Pending, Waiting, Tables
    <2>2. approvals' = [approvals EXCEPT ![r] = [approvals[r] EXCEPT !.state = RowState[w.state]]]
        BY <1>0, <1>2, <1>5 DEF MarkTerminal, mark_approval_terminal, Tables
    <2>3. w.state = "approved" => Spent(approvals'[r])
        <3>1. [approvals[r] EXCEPT !.state = "consumed"].state = "consumed"
            BY <2>1 DEF ApprovalRow
        <3>2. RowState["approved"] = "consumed"
            BY DEF RowState
        <3> QED  BY <1>2, <2>2, <3>1, <3>2 DEF Spent, Tables
    <2>4. \A p \in Requests \ {r} : approvals'[p] = approvals[p]
        BY <1>2, <2>2 DEF Tables
    <2>5. signed[r] = << >> /\ ~Waiting(signatures[r]) /\ NoOther(t, r)
        BY <1>2, <2>1, NobodyElse DEF RowOK
    <2>6. ASSUME NEW q, tasks' = [tasks EXCEPT ![t] = q],
                 Entitled(q) => q.request = r /\ w.state = "approved"
          PROVE  GrantInv'
        BY <1>1, <2>3, <2>4, <2>5, <2>6, GrantTurns
    <2>7. CASE tasks' = [tasks EXCEPT ![t] = NoTask]
        BY <2>6, <2>7, NoTaskIsNotEntitled
    <2>8. CASE tasks' = [tasks EXCEPT ![t] = [tasks[t] EXCEPT !.pc = "swap"]]
        <3> DEFINE q == [tasks[t] EXCEPT !.pc = "swap"]
        <3>1. q.pc = "swap" /\ q.request = r /\ q.workflow = w
            BY <1>0, <1>2 DEF Task
        <3>2. tasks' = [tasks EXCEPT ![t] = q]
            BY <2>8
        <3> HIDE DEF q
        <3>3. Entitled(q) => w.state = "approved"
            BY <3>1 DEF Entitled, Pipeline, Building
        <3> QED  BY <2>6, <3>1, <3>2, <3>3
    <2>9. CASE w.state = "approved" /\ Review(t, tasks[t].request, approvals[r].parked, "HumanGranted")
        <3> DEFINE q == Begun(tasks[t], r, approvals[r].parked, "HumanGranted")
        <3>1. tasks' = [tasks EXCEPT ![t] = q]
            BY <1>0, <2>9 DEF Review, Become, Begun
        <3>2. q.request = r
            BY <1>2 DEF Task, Begun
        <3> HIDE DEF q
        <3> QED  BY <2>6, <2>9, <3>1, <3>2
    <2> QED  BY <1>0, <1>5, <2>7, <2>8, <2>9 DEF MarkTerminal, Goto, End, Become, ReviewInv, Typed
<1> QED  BY <1>4, <1>5

\* An approved swap goes on with the right that its row gave, and uses it.
LEMMA GrantSwap ==
    ASSUME ReviewInv, GrantInv, NEW t \in Tasks,
           DecideSwap(t) \/ JitStart(t) \/ JitBuild(t) \/ JitEnd(t) \/ Complete(t)
    PROVE  GrantInv'
<1>1. /\ tasks[t].pc \in {"swap", "complete"} \cup Building \cup Ending
      /\ tasks[t].pc # "idle" /\ UNCHANGED approvals
    BY DEF DecideSwap, JitStart, JitBuild, JitEnd, Complete, Swapping, Building, Ending
<1>0. PICK r \in Requests : r = tasks[t].request /\ tasks[t] \in Task
    BY <1>1, OneTask
<1>2. ASSUME NEW pc
      PROVE  LET q == [tasks[t] EXCEPT !.pc = pc] IN q.pc = pc /\ q.request = r
    BY <1>0 DEF Task
<1>3. \A pc : Goto(t, pc) => tasks' = [tasks EXCEPT ![t] = [tasks[t] EXCEPT !.pc = pc]]
    BY DEF Goto, ReviewInv, Typed
<1>4. ASSUME End(t), UNCHANGED <<signed, signatures>> PROVE GrantInv'
    BY <1>1, <1>4, GrantGoesOn, NoTaskIsNotEntitled DEF End, Become
<1>5. CASE DecideSwap(t)
    <2> DEFINE q == Going(tasks[t], "jit", "JIT")
    <2>1. /\ tasks[t].pc = "swap" /\ UNCHANGED <<signed, signatures>>
          /\ \/ tasks[t].workflow.state = "approved" /\ tasks' = [tasks EXCEPT ![t] = q]
             \/ End(t)
        BY <1>5 DEF DecideSwap, Swapping, Become, Going
    <2>2. q.request = r
        BY <1>0 DEF Task, Going
    <2> HIDE DEF q
    <2>3. CASE tasks[t].workflow.state = "approved" /\ tasks' = [tasks EXCEPT ![t] = q]
        <3>1. Entitled(tasks[t])
            BY <2>1, <2>3 DEF Entitled
        <3> QED  BY <1>0, <1>1, <2>1, <2>2, <2>3, <3>1, GrantGoesOn
    <2> QED  BY <1>4, <2>1, <2>3
<1>6. CASE JitStart(t)
    <2> DEFINE q == [tasks[t] EXCEPT !.pc = "build"]
    <2>1. /\ tasks' = [tasks EXCEPT ![t] = q] /\ UNCHANGED <<signed, signatures>>
          /\ tasks[t].pc \in Building
        BY <1>3, <1>6 DEF JitStart, Swapping, Building
    <2>2. q.request = r /\ Entitled(tasks[t])
        BY <1>2, <2>1 DEF Entitled
    <2> HIDE DEF q
    <2> QED  BY <1>0, <1>1, <2>1, <2>2, GrantGoesOn
<1>7. CASE JitBuild(t)
    <2>1. tasks[t].pc \in Building
        BY <1>7 DEF JitBuild, Swapping, Building
    <2>2. Spent(approvals[r])
        BY <1>0, <2>1 DEF GrantInv, Entitled
    <2>3. \A p \in Requests \ {r} : signed'[p] = signed[p] /\ signatures'[p] = signatures[p]
        <3>1. CASE Sign(r, tasks[t]) /\ UNCHANGED signatures
            BY <3>1, SignsOne
        <3>2. CASE insert_signature_and_meta(r, now) /\ UNCHANGED signed
            BY <3>2 DEF insert_signature_and_meta, ReviewInv, Typed, Tables
        <3>3. CASE UNCHANGED <<signed, signatures>>
            BY <3>3
        <3> QED  BY <1>0, <1>7, <3>1, <3>2, <3>3 DEF JitBuild
    <2>4. \E pc \in Ending : Goto(t, pc)
        BY <1>7 DEF JitBuild, Ending
    <2>5. PICK pc \in Ending : tasks' = [tasks EXCEPT ![t] = [tasks[t] EXCEPT !.pc = pc]]
        BY <1>3, <2>4
    <2> DEFINE q == [tasks[t] EXCEPT !.pc = pc]
    <2>6. q.pc = pc /\ tasks' = [tasks EXCEPT ![t] = q]
        BY <1>2, <2>5
    <2> HIDE DEF q
    <2>7. ~Entitled(q)
        BY <2>6, NotEntitled
    <2> QED  BY <1>1, <2>2, <2>3, <2>6, <2>7, GrantIsUsed
<1>8. CASE JitEnd(t)
    BY <1>4, <1>8 DEF JitEnd
<1>9. CASE Complete(t)
    <2> DEFINE q == [tasks[t] EXCEPT !.pc = "submitted"]
    <2>1. tasks' = [tasks EXCEPT ![t] = q] /\ UNCHANGED <<signed, signatures>>
        BY <1>3, <1>9 DEF Complete
    <2>2. q.pc \in Ending
        BY <1>2 DEF Ending
    <2> HIDE DEF q
    <2> QED  BY <1>1, <2>1, <2>2, GrantGoesOn, NotEntitled
<1> QED  BY <1>5, <1>6, <1>7, <1>8, <1>9

\* A wallet signs only what its row waits for, and that row was inserted when
\* the approval was consumed.
LEMMA GrantWallet ==
    ASSUME ReviewInv, GrantInv, NEW t \in Tasks, NEW r \in Requests, WalletAnswers(t, r)
    PROVE  GrantInv'
<1> DEFINE q == [NoTask EXCEPT !.pc = "complete", !.request = r]
<1>1. /\ Waiting(signatures[r]) /\ tasks' = [tasks EXCEPT ![t] = q]
      /\ Sign(r, NoTask) /\ UNCHANGED approvals
    BY DEF WalletAnswers, mark_signature_terminal, Pending, Waiting, Become
<1>2. q.pc = "complete"
    BY NoTaskFits DEF Task
<1> HIDE DEF q
<1>3. ~Entitled(q)
    BY <1>2, NotEntitled
<1>4. \A p \in Requests \ {r} : signatures'[p] = signatures[p]
    BY DEF WalletAnswers, mark_signature_terminal, ReviewInv, Typed, Tables
<1>5. Spent(approvals[r])
    BY <1>1 DEF GrantInv
<1> QED  BY <1>1, <1>3, <1>4, <1>5, SignsOne, GrantIsUsed

\* New requests.
LEMMA GrantNew ==
    ASSUME ReviewInv, GrantInv, NEW t \in Tasks, NEW r \in Requests,
           \/ ProposeSwap(t, r)
           \/ \E proposal \in Proposals :
                 \/ ReviewAndSign(t, r, proposal)
                 \/ \E mode \in Modes, session \in SessionRules :
                       Propose(t, r, proposal, mode, session)
    PROVE  GrantInv'
<1>1. CASE ProposeSwap(t, r)
    <2> DEFINE q == [NoTask EXCEPT !.pc = "create", !.request = r,
                        !.verdict = Verdict("requires_human_approval", AnyApprover)]
    <2>1. /\ Up(t) /\ kinds[r] = NULL /\ UNCHANGED <<approvals, signed, signatures>>
          /\ tasks' = [tasks EXCEPT ![t] = q]
        BY <1>1 DEF ProposeSwap, Become
    <2>2. q.pc = "create"
        BY NoTaskFits DEF Task
    <2> HIDE DEF q
    <2> QED  BY <2>1, <2>2, NotEntitled, GrantBegins
<1>2. ASSUME NEW proposal, ReviewAndSign(t, r, proposal) PROVE GrantInv'
    <2>1. /\ Up(t) /\ kinds[r] = NULL /\ UNCHANGED <<approvals, signed, signatures>>
          /\ \/ UNCHANGED tasks
             \/ \E tx, mode : Review(t, r, tx, mode)
        BY <1>2 DEF ReviewAndSign, pendingVars
    <2> QED  BY <2>1, GrantBegins
<1>3. ASSUME NEW proposal, NEW mode, NEW session, Propose(t, r, proposal, mode, session)
      PROVE  GrantInv'
    <2>1. /\ Up(t) /\ kinds[r] = NULL /\ UNCHANGED <<approvals, signed, signatures>>
          /\ \E tx, m : Review(t, r, tx, m)
        BY <1>3 DEF Propose, pendingVars
    <2> QED  BY <2>1, GrantBegins
<1> QED  BY <1>1, <1>2, <1>3

\* Crash, startup, cleanup and time give no right to sign.
LEMMA GrantOutlives ==
    ASSUME ReviewInv, GrantInv, UNCHANGED signed,
           UNCHANGED tasks \/ \A t \in Tasks : tasks'[t] = NoTask,
           \A r \in Requests : /\ \/ approvals'[r] = approvals[r] \/ approvals'[r] = NULL
                                  \/ Waiting(approvals[r]) /\ \A t \in Tasks : tasks'[t] = NoTask
                               /\ Waiting(signatures'[r]) => Waiting(signatures[r])
    PROVE  GrantInv'
<1>1. ASSUME NEW t \in Tasks, Entitled(tasks'[t])
      PROVE  Spent(approvals'[tasks'[t].request])
    <2>1. tasks'[t] = tasks[t] /\ tasks'[t] # NoTask
        BY <1>1, NoTaskIsNotEntitled
    <2>2. tasks[t].request \in Requests
        BY <1>1, <2>1, NotEntitled, OneTask
    <2> QED  BY <1>1, <2>1, <2>2 DEF GrantInv, Spent
<1>2. ASSUME NEW r \in Requests, signed'[r] # << >> \/ Waiting(signatures'[r])
      PROVE  Spent(approvals'[r])
    <2>1. ~Waiting(approvals[r]) /\ Spent(approvals[r])
        BY <1>2 DEF GrantInv, ReviewInv, RowOK
    <2> QED  BY <2>1 DEF Spent
<1>3. \A t \in Tasks : Entitled(tasks[t])' <=> Entitled(tasks'[t])
    BY DEF Entitled
<1> QED  BY <1>1, <1>2, <1>3 DEF GrantInv, Spent, Waiting

LEMMA GrantTime ==
    ASSUME ReviewInv, GrantInv, Crash \/ Startup \/ Purge \/ Tick \/ UNCHANGED reviewVars
    PROVE  GrantInv'
<1>1. CASE Crash
    <2>1. /\ \A t \in Tasks : tasks'[t] = NoTask
          /\ UNCHANGED <<signed, approvals, signatures>>
        BY <1>1 DEF Crash, pendingVars
    <2> QED  BY <2>1, GrantOutlives
<1>2. CASE Startup
    <2>1. /\ UNCHANGED <<signed, tasks>> /\ \A t \in Tasks : tasks'[t] = NoTask
          /\ approvals' = approvals \/ approvals' = Expired(approvals, boot.at, MaxAge)
          /\ signatures' = signatures \/ signatures' = Expired(signatures, boot.at, MaxAge)
        BY <1>2 DEF Startup, ReviewInv, BootOK
    <2>2. ASSUME NEW r \in Requests
          PROVE  approvals'[r] = approvals[r] \/ Waiting(approvals[r])
        BY <2>1 DEF Expired, Pending, Waiting
    <2>3. signatures \in [Requests -> PendingRow \cup {NULL}]
        BY DEF ReviewInv, Typed, Tables
    <2>4. ASSUME NEW r \in Requests
          PROVE  Waiting(signatures'[r]) => Waiting(signatures[r])
        BY <2>1, <2>3, PendingExpire
    <2> QED  BY <2>1, <2>2, <2>4, GrantOutlives
<1>3. CASE Purge
    <2>1. UNCHANGED <<signed, tasks>>
        BY <1>3 DEF Purge
    <2>2. ASSUME NEW r \in Requests
          PROVE  /\ approvals'[r] = approvals[r] \/ approvals'[r] = NULL
                 /\ Waiting(signatures'[r]) => Waiting(signatures[r])
        <3>1. \/ approvals' = Purged(approvals, now, Retention) /\ signatures' = signatures
              \/ signatures' = Purged(signatures, now, Retention) /\ approvals' = approvals
              \/ UNCHANGED <<approvals, signatures>>
            BY <1>3 DEF Purge
        <3> QED  BY <3>1, PurgedRows DEF Waiting
    <2> QED  BY <2>1, <2>2, GrantOutlives
<1>4. CASE Tick \/ UNCHANGED reviewVars
    <2>1. UNCHANGED <<signed, tasks, approvals, signatures>>
        BY <1>4 DEF Tick, reviewVars, pendingVars
    <2> QED  BY <2>1, GrantOutlives
<1> QED  BY <1>1, <1>2, <1>3, <1>4

LEMMA GrantSteps ==
    ASSUME ReviewInv, GrantInv, [Next]_reviewVars
    PROVE  GrantInv'
<1>1. CASE Crash \/ Startup \/ Purge \/ Tick \/ UNCHANGED reviewVars
    BY <1>1, GrantTime
<1>2. ASSUME NEW t \in Tasks,
             \/ PipelineStep(t)
             \/ CreateWorkflow(t) \/ Park(t)
             \/ UpdateWorkflow(t) \/ \E updated \in BOOLEAN : MarkTerminal(t, updated)
             \/ DecideSwap(t) \/ JitStart(t) \/ JitBuild(t) \/ JitEnd(t) \/ Complete(t)
      PROVE  GrantInv'
    BY <1>2, GrantPipeline, GrantRows, GrantPark, GrantMark, GrantSwap
<1>3. ASSUME NEW t \in Tasks, NEW r \in Requests,
             \/ ProposeSwap(t, r) \/ WalletAnswers(t, r)
             \/ \E proposal \in Proposals :
                   \/ ReviewAndSign(t, r, proposal)
                   \/ \E mode \in Modes, session \in SessionRules :
                         Propose(t, r, proposal, mode, session)
             \/ \E operator \in Operators, approved \in BOOLEAN :
                   Decide(t, r, operator, approved)
      PROVE  GrantInv'
    BY <1>3, GrantNew, GrantWallet, GrantDecide
<1> QED  BY <1>1, <1>2, <1>3 DEF Next

\* The right to sign is only ever taken from a row that was consumed.
THEOREM GrantInvAlways == ReviewSpec => []GrantInv
<1>1. ReviewInit => GrantInv
    <2> SUFFICES ASSUME ReviewInit PROVE GrantInv
        OBVIOUS
    <2>1. /\ \A t \in Tasks : tasks[t] = NoTask
          /\ \A r \in Requests : approvals[r] = NULL
        BY DEF ReviewInit, PendingInit, Empty
    <2> QED  BY <2>1, NoTaskIsNotEntitled DEF GrantInv, Spent
<1>2. ReviewInv /\ GrantInv /\ [Next]_reviewVars => GrantInv'
    BY GrantSteps
<1> QED  BY <1>1, <1>2, ReviewInvAlways, PTL DEF ReviewSpec

-----------------------------------------------------------------------------
(* What is signed. *)

\* Nothing is signed of a request whose row waits, or ended rejected or
\* expired.  What is signed after a human decision is what was parked for it,
\* and in the workflow its handler decided on every stage had its approvals
\* from different operators of its roles and no rejection.
THEOREM SignedAsApprovedAlways == ReviewSpec => []SignedAsApproved
<1>1. ReviewInv /\ GrantInv => SignedAsApproved
    <2> SUFFICES ASSUME ReviewInv, GrantInv, NEW r \in Requests, NEW i \in DOMAIN signed[r]
                 PROVE  LET s == signed[r][i]
                        IN  /\ approvals[r] # NULL => approvals[r].state = "consumed"
                            /\ (s.mode = "HumanGranted" /\ approvals[r] # NULL) =>
                                  Body(s.tx) = Body(approvals[r].parked)
                            /\ s.mode \in {"HumanGranted", "JIT"} => Approved(s.workflow)
        BY QuorumOfOperators DEF SignedAsApproved
    <2>1. signed[r] # << >>
        OBVIOUS
    <2>2. approvals[r] # NULL => approvals[r].state = "consumed"
        BY <2>1 DEF GrantInv, Spent
    <2>3. SignatureOK(signed[r][i], kinds[r], approvals[r])
        BY DEF ReviewInv, RowOK
    <2> QED  BY <2>2, <2>3 DEF SignatureOK
<1> QED  BY <1>1, ReviewInvAlways, GrantInvAlways, PTL

\* One request is signed at most once, whoever decides it at the same time
\* and whatever a restart finds.
THEOREM SignedOnceAlways == ReviewSpec => []SignedOnce
<1>1. ReviewInv => SignedOnce
    BY DEF ReviewInv, RowOK, SignedOnce
<1> QED  BY <1>1, ReviewInvAlways, PTL

\* At every statement of a startup a pending signature has its metadata, and
\* once it is up every swap half built has its task.
THEOREM RecoveryIsWholeAlways == ReviewSpec => []RecoveryIsWhole
<1>1. ReviewInv => RecoveryIsWhole
    <2> SUFFICES ASSUME ReviewInv
                 PROVE  RecoveryIsWhole
        OBVIOUS
    <2>1. Pending(signatures) \subseteq Pending(metas)
        BY DEF ReviewInv, RowOK, Waiting, Pending
    <2>2. boot.step = "up" =>
             \A r \in Requests :
                 swaps[r] \in {"approved_waiting_jit", "jit_building"} =>
                     \E t \in Tasks : tasks[t].request = r
        BY DEF ReviewInv, BootOK, SwapOK, HalfBuilt
    <2> QED  BY <2>1, <2>2 DEF RecoveryIsWhole
<1> QED  BY <1>1, ReviewInvAlways, PTL

=============================================================================
