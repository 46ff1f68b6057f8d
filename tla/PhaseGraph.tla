------------------------------ MODULE PhaseGraph ------------------------------
(***************************************************************************)
(* The validated phase graph an engine executes (workflow/graph.py) and    *)
(* the routing decisions taken over it (workflow/engine.py).  The graph is *)
(* fixed for the whole life of an engine, so it is a set of CONSTANTS.     *)
(* Target lists are sets: the engine tests them for emptiness, length and  *)
(* membership only.                                                        *)
(***************************************************************************)
EXTENDS Integers, FiniteSets

CONSTANTS
  Phases,                  \* phase_ids of the graph
  FirstPhase,              \* graph.first_phase
  Executors,               \* the phases of kind "executor"; the others review
  Human,                   \* the phases with human = True
  OnComplete,              \* executor phase -> its on_complete targets
  OnApprove,               \* review phase -> its on_approve targets
  CanRequestChangesFrom,   \* review phase -> its can_request_changes_from
  NoPhase,                 \* None, where a phase_id is optional
  BadTarget                \* outcome of a routing that raises TransitionError

Reviews == Phases \ Executors

(***************************************************************************)
(* What PhaseGraph._validate guarantees of a graph it accepts: at least    *)
(* one phase, every target defined, no on_approve or                       *)
(* can_request_changes_from on an executor, no on_complete on a review.    *)
(***************************************************************************)
ValidGraph ==
  /\ FirstPhase \in Phases
  /\ Executors \subseteq Phases
  /\ Human \subseteq Phases
  /\ OnComplete \in [Phases -> SUBSET Phases]
  /\ OnApprove \in [Phases -> SUBSET Phases]
  /\ CanRequestChangesFrom \in [Phases -> SUBSET Phases]
  /\ \A p \in Executors : OnApprove[p] = {} /\ CanRequestChangesFrom[p] = {}
  /\ \A p \in Phases \ Executors : OnComplete[p] = {}
  /\ NoPhase \notin Phases
  /\ BadTarget \notin Phases
  /\ NoPhase # BadTarget

ASSUME GraphAssumption == ValidGraph

(***************************************************************************)
(* _resolve_target: the next phase among targets given the role's choice.  *)
(* No target: None.  One target: that one, unless the role named another.  *)
(* Several targets: the role must name one of them.                        *)
(***************************************************************************)
IsSingleton(targets) == \E t \in targets : targets = {t}

\* Mutant of Resolve: a choice is not checked.
ResolveTrusting(targets, chosen) ==
  IF targets = {} THEN NoPhase
  ELSE IF IsSingleton(targets) /\ chosen = NoPhase
       THEN CHOOSE t \in targets : TRUE
  ELSE IF chosen # NoPhase THEN chosen ELSE BadTarget

Resolve(targets, chosen) ==
  IF targets = {} THEN NoPhase
  ELSE IF IsSingleton(targets) /\ chosen = NoPhase
       THEN CHOOSE t \in targets : TRUE
  ELSE IF chosen \in targets THEN chosen ELSE BadTarget

(***************************************************************************)
(* Where a decision of review phase p leads (_resolve_review_transition    *)
(* for a reviewer role, _apply_committed_review for a person).  Sending    *)
(* work back from a phase that has nowhere to send it is an error.         *)
(***************************************************************************)
ReviewRoute(p, decision, chosen) ==
  IF decision = "APPROVE" THEN Resolve(OnApprove[p], chosen)
  ELSE IF CanRequestChangesFrom[p] = {} THEN BadTarget
  ELSE Resolve(CanRequestChangesFrom[p], chosen)

===============================================================================
