----------------------------- MODULE SessionState -----------------------------
(***************************************************************************)
(* The durable session record (contracts/state.py) together with the       *)
(* revision the store keeps next to it (StoredSession in ports/state.py),  *)
(* and the pure functions of workflow/engine.py that read or extend it.    *)
(*                                                                         *)
(* Abstracted: summaries, timestamps and role ids carry no control;        *)
(* completed_at is set exactly by _finalize_state, so it is determined by  *)
(* the status; an artifact reference is determined by phase and number.    *)
(***************************************************************************)
EXTENDS PhaseGraph, Sequences

CONSTANTS
  Scores,        \* the confidence_scores roles report
  Metadata,      \* values of run metadata
  NoMetadata,    \* None among them
  Threshold,     \* confidence_threshold
  Floor,         \* confidence_floor, 0 standing for None
  MaxIterations  \* max_iterations

ASSUME PolicyAssumption ==
  /\ Scores \subseteq 0..100
  /\ Threshold \in 0..100
  /\ Floor \in Int
  /\ MaxIterations \in Nat
  /\ NoMetadata \in Metadata

Decisions == {"APPROVE", "REQUEST_CHANGES"}
Terminal == {"completed", "abandoned", "failed"}
Statuses == {"absent", "initialized", "in_progress"} \cup Terminal
Choices == Phases \cup {NoPhase}

(***************************************************************************)
(* IterationEntry: handoff tells whether handoff_context_ref is set.       *)
(* ReviewEntry: PENDING is the stub a human review leaves behind.          *)
(***************************************************************************)
IterationEntry ==
  [iteration : Nat, phase_id : Phases, confidence_score : Scores,
   handoff : BOOLEAN]

ReviewEntry ==
  [review : Nat, phase_id : Phases, decision : Decisions \cup {"PENDING"},
   target_phase : Choices]

Session ==
  [status : Statuses, current_phase : Phases,
   phase_iterations : Seq(IterationEntry), reviews : Seq(ReviewEntry),
   feedback_loops : Nat, run_metadata : Metadata,
   revision : Nat]

\* No session of that id in the store: StateStore.load raises.
Absent ==
  [status |-> "absent", current_phase |-> FirstPhase,
   phase_iterations |-> <<>>, reviews |-> <<>>, feedback_loops |-> 0,
   run_metadata |-> NoMetadata, revision |-> 0]

\* StateStore.initialize
Initialized == [Absent EXCEPT !.status = "initialized"]

\* What StateStore.save stores: the next revision.
Revised(session) == [session EXCEPT !.revision = @ + 1]

\* Entries of phase p in a log; _count_iterations and _count_reviews.
EntriesOf(log, p) == {i \in DOMAIN log : log[i].phase_id = p}

CountOf(log, p) == Cardinality(EntriesOf(log, p))

\* The rank of an entry among those of its phase; only properties use it.
UpTo(log, i) == {j \in EntriesOf(log, log[i].phase_id) : j <= i}

Ordinal(log, i) == Cardinality(UpTo(log, i))

\* Mutant of NewIteration: numbered over the whole session.
NewIterationOfSession(session, result) ==
  [iteration |-> Len(session.phase_iterations) + 1,
   phase_id |-> session.current_phase,
   confidence_score |-> result.confidence_score, handoff |-> result.handoff]

\* _build_iteration_entry
NewIteration(session, result) ==
  [iteration |-> CountOf(session.phase_iterations, session.current_phase) + 1,
   phase_id |-> session.current_phase,
   confidence_score |-> result.confidence_score, handoff |-> result.handoff]

\* _commit_iteration_state
WithIteration(session, result) ==
  [session EXCEPT !.phase_iterations = Append(@, NewIteration(session, result))]

\* _build_review_entry for a reviewer's decision, the PENDING stub of
\* _run_review for a person's.
NewReview(session, decision, target) ==
  [review |-> CountOf(session.reviews, session.current_phase) + 1,
   phase_id |-> session.current_phase, decision |-> decision,
   target_phase |-> target]

WithReview(session, decision, target) ==
  [session EXCEPT !.reviews = Append(@, NewReview(session, decision, target))]

\* Mutant of WithDecision: every review is a feedback loop.
WithCountedReview(session, decision, target) ==
  [WithReview(session, decision, target) EXCEPT !.feedback_loops = @ + 1]

\* _commit_review_state: feedback_loops counts the reviewer's send-backs.
WithDecision(session, decision, target) ==
  [WithReview(session, decision, target) EXCEPT
     !.feedback_loops = IF decision = "REQUEST_CHANGES" THEN @ + 1 ELSE @]

\* A person's answer in the place of the i-th review entry, a stub.
WithAnswer(session, i, decision, target) ==
  [session EXCEPT !.reviews[i] = [@ EXCEPT !.decision = decision,
                                           !.target_phase = target]]

\* Mutant of Outcome: one iteration too many.
OutcomeInclusive(p, score, n) ==
  IF OnComplete[p] = {} THEN "route"
  ELSE IF score < Floor THEN "fail"
  ELSE IF score >= Threshold THEN "route"
  ELSE IF n <= MaxIterations THEN "repeat"
  ELSE IF IsSingleton(OnComplete[p]) THEN "fail" ELSE "route"

(***************************************************************************)
(* How the loop of _run_executor goes on once an iteration is committed:   *)
(* n is the number of iterations of the phase, the new one included.       *)
(***************************************************************************)
Outcome(p, score, n) ==
  IF OnComplete[p] = {} THEN "route"
  ELSE IF score < Floor THEN "fail"
  ELSE IF score >= Threshold THEN "route"
  ELSE IF n < MaxIterations THEN "repeat"
  ELSE IF IsSingleton(OnComplete[p]) THEN "fail" ELSE "route"

===============================================================================
