------------------------------- MODULE MCRouting -------------------------------
(***************************************************************************)
(* Branches: a triage with two ways on, a review that can send back to     *)
(* either and whose approval ends the run, with a cap of its own, as in    *)
(* templates/workflow/execution-multi-phase.yaml.                          *)
(***************************************************************************)
EXTENDS WorkflowEngine

CONSTANT r1

MCPhases == {"triage", "fix", "explain", "check"}
MCExecutors == MCPhases \ {"check"}
MCOnComplete ==
  [p \in MCPhases |-> CASE p = "triage" -> {"fix", "explain"}
                        [] p = "check" -> {}
                        [] OTHER -> {"check"}]
MCOnApprove == [p \in MCPhases |-> {}]
MCCanRequestChangesFrom ==
  [p \in MCPhases |-> IF p = "check" THEN {"fix", "explain"} ELSE {}]
MCPhaseCap == [p \in MCPhases |-> IF p = "check" THEN 3 ELSE 0]

OneRunner == {r1}
MCSessionOf == [r \in Runners |-> "s"]
MCEngineOf == [r \in Runners |-> r]
MCMetadataOf == [x \in Engines |-> x]
NoPack == [s \in Sessions |-> FALSE]

\* Below the floor, below the threshold, above it; with or without a handoff;
\* without a choice and with one, which the graph allows after triage only: at
\* max_iterations a triage that has chosen moves on, a fix fails.
MCExecutionResults ==
  [confidence_score : {40, 70, 90}, chosen_next : {"fix"}, handoff : {TRUE},
   pending_question : {FALSE}]
    \cup [confidence_score : {70, 90}, chosen_next : {NoPhase}, handoff : BOOLEAN,
          pending_question : {FALSE}]

\* Every send-back names a target, one of them where none may go.
MCReviewResults ==
  [decision : {"APPROVE"}, target_phase : {NoPhase}, chosen_next : {NoPhase, "fix"}]
    \cup [decision : {"REQUEST_CHANGES"}, target_phase : {"fix", "explain", "triage"},
          chosen_next : {NoPhase}]

===============================================================================
