------------------------------ MODULE MCHumanGate ------------------------------
(***************************************************************************)
(* Discovery with a person's approval before the finalize phase: the end   *)
(* of templates/discovery/discovery-full.yaml.                             *)
(***************************************************************************)
EXTENDS WorkflowEngine

CONSTANTS r1, s1, e    \* a runner, its session, its engine

MCPhases == {"research", "human_review", "finalize"}
MCExecutors == {"research", "finalize"}
MCHuman == {"human_review"}
MCOnComplete ==
  [p \in MCPhases |-> IF p = "research" THEN {"human_review"} ELSE {}]
MCOnApprove ==
  [p \in MCPhases |-> IF p = "human_review" THEN {"finalize"} ELSE {}]
MCCanRequestChangesFrom ==
  [p \in MCPhases |-> IF p = "human_review" THEN {"research"} ELSE {}]
MCPhaseCap == [p \in MCPhases |-> 0]

OneRunner == {r1}
OneSession == {s1}
OneEngine == {e}
MCSessionOf == [r \in Runners |-> s1]
MCEngineOf == [r \in Runners |-> e]
MCMetadataOf == [x \in Engines |-> x]
WithPack == [s \in Sessions |-> TRUE]

Executes(scores, handoffs, questions) ==
  [confidence_score : scores, chosen_next : {NoPhase}, handoff : handoffs,
   pending_question : questions]

\* Two results with a handoff, one without, one that asks a question.
DiscoveryExecutions ==
  Executes({70, 90}, {TRUE}, {FALSE}) \cup Executes({90}, {FALSE}, {FALSE})
    \cup Executes({70}, {TRUE}, {TRUE})
\* Every iteration is good enough; some ask a question first.
AskingExecutions == Executes({90}, {TRUE}, BOOLEAN)

\* Approval, sending back, and a target the graph does not allow.
Answers ==
  [decision : Decisions, target_phase : {NoPhase}]
    \cup [decision : {"APPROVE"}, target_phase : {"research"}]

===============================================================================
