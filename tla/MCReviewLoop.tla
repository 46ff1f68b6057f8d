----------------------------- MODULE MCReviewLoop -----------------------------
(***************************************************************************)
(* A draft that a reviewer role sends back or lets through to publishing:  *)
(* the graph of templates/workflow/execution-minimal.yaml with a terminal  *)
(* executor after it.                                                      *)
(***************************************************************************)
EXTENDS WorkflowEngine

CONSTANTS r1, r2    \* runners

MCPhases == {"draft", "review", "publish"}
MCExecutors == {"draft", "publish"}
MCOnComplete ==
  [p \in MCPhases |-> IF p = "draft" THEN {"review"} ELSE {}]
MCOnApprove ==
  [p \in MCPhases |-> IF p = "review" THEN {"publish"} ELSE {}]
MCCanRequestChangesFrom ==
  [p \in MCPhases |-> IF p = "review" THEN {"draft"} ELSE {}]
MCPhaseCap == [p \in MCPhases |-> 0]

OneRunner == {r1}
TwoRunners == {r1, r2}

\* One session, each runner with an engine of its own.
MCSessionOf == [r \in Runners |-> "s"]
MCEngineOf == [r \in Runners |-> r]

\* An engine is known by the metadata it was built with.
MCMetadataOf == [e \in Engines |-> e]
NoPack == [s \in Sessions |-> FALSE]

Executes(scores, choices, handoffs, questions) ==
  [confidence_score : scores, chosen_next : choices, handoff : handoffs,
   pending_question : questions]

\* Below the threshold with a handoff, above it without.
FewExecutions ==
  Executes({70}, {NoPhase}, {TRUE}, {FALSE})
    \cup Executes({90}, {NoPhase}, {FALSE}, {FALSE})
Approvals == [decision : {"APPROVE"}, target_phase : {NoPhase},
              chosen_next : {NoPhase}]
NamedSendBacks == [decision : {"REQUEST_CHANGES"}, target_phase : {"draft"},
                   chosen_next : {NoPhase}]
BareSendBacks == [decision : {"REQUEST_CHANGES"}, target_phase : {NoPhase},
                  chosen_next : {NoPhase}]
FairReviews == Approvals \cup NamedSendBacks
AnyReviews == Approvals \cup BareSendBacks

===============================================================================
