---------------------------- MODULE MCTracedEngine ----------------------------
(***************************************************************************)
(* A small discovery with both kinds of review: a draft that a reviewer    *)
(* role and then a person let through or send back, and a finalize phase   *)
(* that hands off into the context pack.                                   *)
(***************************************************************************)
EXTENDS TracedEngine

CONSTANT r1, s1

MCPhases == {"draft", "check", "sign", "finalize"}
MCExecutors == {"draft", "finalize"}
MCHuman == {"sign"}
MCOnComplete ==
  [p \in MCPhases |-> IF p = "draft" THEN {"check"} ELSE {}]
MCOnApprove ==
  [p \in MCPhases |-> CASE p = "check" -> {"sign"}
                        [] p = "sign" -> {"finalize"}
                        [] OTHER -> {}]
MCCanRequestChangesFrom ==
  [p \in MCPhases |-> IF p \in {"check", "sign"} THEN {"draft"} ELSE {}]
MCPhaseCap == [p \in MCPhases |-> 0]

OneRunner == {r1}
OneSession == {s1}
MCSessionOf == [r \in Runners |-> s1]
MCEngineOf == [r \in Runners |-> r]
MCMetadataOf == [x \in Engines |-> x]
WithPack == [s \in Sessions |-> TRUE]

\* Below the threshold with a question, above it with and without a handoff.
MCExecutionResults ==
  [confidence_score : {90}, chosen_next : {NoPhase}, handoff : BOOLEAN,
   pending_question : {FALSE}]
    \cup [confidence_score : {70}, chosen_next : {NoPhase}, handoff : {FALSE},
          pending_question : BOOLEAN]

\* An approval, a send-back to the draft, one to a phase out of its reach.
MCReviewResults ==
  [decision : {"APPROVE"}, target_phase : {NoPhase}, chosen_next : {NoPhase}]
    \cup [decision : {"REQUEST_CHANGES"}, target_phase : {"draft", "sign"},
          chosen_next : {NoPhase}]
Answers == [decision : Decisions, target_phase : {NoPhase}]

===============================================================================
