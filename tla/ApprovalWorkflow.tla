-------------------------- MODULE ApprovalWorkflow --------------------------
(***************************************************************************)
(* The approval workflow (crates/types/src/approval.rs): ordered stages,   *)
(* each with the roles that may decide it and the approvals it needs, as   *)
(* pure operators on a workflow.                                           *)
(***************************************************************************)
EXTENDS Naturals, Sequences, FiniteSets, Null

StageDecision(operator, role, approved) ==
    [operator |-> operator, role |-> role, approved |-> approved]

Stage(spec) == [roles |-> spec.roles, min |-> spec.min, decisions |-> << >>]

\* single_stage, or a stage for each entry of an approval chain.  A lease of
\* no seconds is none.
NewWorkflow(stages, now, lease) ==
    [state   |-> "pending",
     stages  |-> [i \in DOMAIN stages |-> Stage(stages[i])],
     expires |-> IF lease > 0 THEN now + lease ELSE NULL]

is_expired(workflow, now) == workflow.expires # NULL /\ now > workflow.expires

is_terminal(workflow) == workflow.state # "pending"

approval_count(stage) ==
    Cardinality({i \in DOMAIN stage.decisions : stage.decisions[i].approved})

quorum_met(stage) == approval_count(stage) >= stage.min

has_rejection(stage) == \E i \in DOMAIN stage.decisions : ~stage.decisions[i].approved

is_pending(stage) == ~quorum_met(stage) /\ ~has_rejection(stage)

has_operator_voted(stage, operator) ==
    \E i \in DOMAIN stage.decisions : stage.decisions[i].operator = operator

\* The index of the first stage that needs decisions, NULL if none does.
current_stage(workflow) ==
    LET open == {i \in DOMAIN workflow.stages : is_pending(workflow.stages[i])}
    IN  IF open = {} THEN NULL ELSE CHOOSE i \in open : \A j \in open : i <= j

\* Mutant: the workflow is approved when its current stage is.
apply_decision_OneStage(workflow, decision) ==
    LET i      == current_stage(workflow)
        stages == [workflow.stages EXCEPT ![i].decisions = Append(@, decision)]
    IN  IF is_terminal(workflow) \/ i = NULL THEN workflow
        ELSE [workflow EXCEPT !.stages = stages,
                !.state = IF ~decision.approved THEN "rejected"
                          ELSE IF quorum_met(stages[i]) THEN "approved" ELSE @]

\* Any rejection ends the workflow; it is approved with its last quorum.
apply_decision(workflow, decision) ==
    LET i      == current_stage(workflow)
        stages == [workflow.stages EXCEPT ![i].decisions = Append(@, decision)]
    IN  IF is_terminal(workflow) \/ i = NULL THEN workflow
        ELSE [workflow EXCEPT !.stages = stages,
                !.state = IF ~decision.approved THEN "rejected"
                          ELSE IF \A j \in DOMAIN stages : quorum_met(stages[j])
                               THEN "approved" ELSE @]

expire(workflow) ==
    [workflow EXCEPT !.state = IF @ = "pending" THEN "expired" ELSE @]

=============================================================================
