---------------------------- MODULE WorkflowEngine ----------------------------
(***************************************************************************)
(* WorkflowEngine and AsyncWorkflowEngine (workflow/engine.py): run()      *)
(* calls that drive sessions through the phase graph over a durable store, *)
(* with interruptions, concurrent calls and decisions injected by people.  *)
(*                                                                         *)
(* A runner is one caller of run(); it calls again whenever it likes.  The *)
(* two engines take the same steps; the sync one has no context pack       *)
(* (HasPack FALSE).  A step ends at each durable write, which is where an  *)
(* await suspends the call and where a crash or an exception may fall;     *)
(* emitting the event of a write is part of that gap.  Everything a call   *)
(* holds in memory is in run[r] and is lost when the call ends.            *)
(***************************************************************************)
EXTENDS SessionState

CONSTANTS
  Sessions,           \* session ids
  Runners,            \* callers of run()
  Engines,            \* engine objects
  SessionOf,          \* runner -> the session it runs
  EngineOf,           \* runner -> the engine it calls
  MetadataOf,         \* engine -> the metadata it was built with
  HasPack,            \* session -> has a context_id, its engine a pack writer
  FinalizePhase,      \* the phase called "finalize", NoPhase if there is none
  AdhocQuestions,     \* adhoc_questions
  MaxFeedbackRounds,  \* max_feedback_rounds of the engine
  PhaseCap,           \* review phase -> max_feedback_rounds, 0 for None and 0
  ExecutionResults,   \* what an executor may return
  ReviewResults,      \* what a reviewer may return
  HumanDecisions,     \* what a person may inject
  NoResult            \* no role has answered yet

CONSTANTS             \* bounds of the model, not of the code
  MaxWork,            \* iterations a session may commit
  MaxReviews,         \* review entries a session may hold
  MaxInterrupts       \* pauses, cancellations, crashes and exceptions

ExecutionResult ==
  [confidence_score : Scores, chosen_next : Choices, handoff : BOOLEAN,
   pending_question : BOOLEAN]

ReviewResult ==
  [decision : Decisions, target_phase : Choices, chosen_next : Choices]

HumanDecision == [decision : Decisions, target_phase : Choices]

ASSUME EngineAssumption ==
  /\ SessionOf \in [Runners -> Sessions]
  /\ EngineOf \in [Runners -> Engines]
  /\ MetadataOf \in [Engines -> Metadata]
  /\ HasPack \in [Sessions -> BOOLEAN]
  /\ FinalizePhase \in Choices
  /\ AdhocQuestions \in BOOLEAN
  /\ MaxFeedbackRounds \in Nat
  /\ PhaseCap \in [Phases -> Nat]
  /\ ExecutionResults \subseteq ExecutionResult
  /\ ReviewResults \subseteq ReviewResult
  /\ HumanDecisions \subseteq HumanDecision
  /\ {MaxWork, MaxReviews, MaxInterrupts} \subseteq Nat

VARIABLES
  store,       \* session -> the durable record, revision included
  artifacts,   \* session -> handoffs and decisions in the artifact store
  pack,        \* session -> its context pack
  run,         \* runner -> the run() call in flight
  applied,     \* engine -> _applied_human_reviews
  metadata,    \* engine -> _metadata
  interrupts,  \* interruptions so far
  departures   \* history: session -> phase -> times a person's decision on
               \* it was acted upon; read by properties only

vars == <<store, artifacts, pack, run, applied, metadata, interrupts,
          departures>>
world == <<artifacts, pack, applied, metadata, interrupts, departures>>

-------------------------------------------------------------------------------
NoScore == -1    \* nothing written yet

\* No call in flight.
Idle == [pc |-> "idle", stored |-> Absent, result |-> NoResult,
         previous |-> {}]

EmptyPack == [files |-> NoScore, handoff |-> NoScore, questions |-> 0,
              locked |-> FALSE]

Init ==
  /\ store = [s \in Sessions |-> Absent]
  /\ artifacts = [s \in Sessions |-> [handoffs |-> {}, decisions |-> {}]]
  /\ pack = [s \in Sessions |-> EmptyPack]
  /\ run = [r \in Runners |-> Idle]
  /\ applied = [e \in Engines |-> {}]
  /\ metadata = MetadataOf
  /\ interrupts = 0
  /\ departures = [s \in Sessions |-> [p \in Phases |-> 0]]

At(r, pc) == run[r].pc = pc
State(r) == run[r].stored
PhaseOf(r) == State(r).current_phase

Leave(r) == run' = [run EXCEPT ![r] = Idle]

\* The call goes on at pc; a role's result is of no use past its own phase step.
NextCall(r, pc, state) ==
  IF pc = "idle" THEN Idle
  ELSE [pc |-> pc, stored |-> state, previous |-> {},
        result |-> IF pc \in {"committed", "judged"}
                   THEN run[r].result ELSE NoResult]

Continue(r, pc, state) == run' = [run EXCEPT ![r] = NextCall(r, pc, state)]

\* The dispatch on phase.kind in the loop of run(); a finished session ends it.
Dispatch(state) ==
  IF state.status # "in_progress" THEN "idle"
  ELSE IF state.current_phase \in Executors THEN "work" ELSE "review"

(***************************************************************************)
(* _save: StateStore.save with the revision the call last saw.  When       *)
(* another call got in between, ConcurrencyError ends this one.            *)
(***************************************************************************)
Fresh(r) == store[SessionOf[r]].revision = State(r).revision

\* Mutant of Save: the last writer wins.
SaveUnchecked(r, state, pc) ==
  /\ store' = [store EXCEPT ![SessionOf[r]] = Revised(state)]
  /\ Continue(r, pc, Revised(state))

Save(r, state, pc) ==
  \/ /\ Fresh(r)
     /\ store' = [store EXCEPT ![SessionOf[r]] = Revised(state)]
     /\ Continue(r, pc, Revised(state))
  \/ /\ ~Fresh(r)
     /\ Leave(r)
     /\ UNCHANGED store

\* _transition_to
Transition(r, to) ==
  LET state == [State(r) EXCEPT !.current_phase = to]
  IN Save(r, state, Dispatch(state))

\* Mutants of Finalize: every end is a completion; every end locks the pack.
FinalizeCompleted(r, status) ==
  Save(r, [State(r) EXCEPT !.status = "completed"],
       IF HasPack[SessionOf[r]] THEN "lock" ELSE "idle")
FinalizeLocksAll(r, status) ==
  Save(r, [State(r) EXCEPT !.status = status],
       IF HasPack[SessionOf[r]] THEN "lock" ELSE "idle")

\* _finalize, up to the pack: a completed discovery still has it to lock.
Finalize(r, status) ==
  Save(r, [State(r) EXCEPT !.status = status],
       IF status = "completed" /\ HasPack[SessionOf[r]] THEN "lock" ELSE "idle")

\* Mutant of Route: any target is followed.
RouteAnywhere(r, target) ==
  \/ target # NoPhase /\ Transition(r, target)
  \/ target = NoPhase /\ Finalize(r, "completed")

\* The end of a phase: move on, complete, or TransitionError.
Route(r, target) ==
  \/ target \in Phases /\ Transition(r, target)
  \/ target = NoPhase /\ Finalize(r, "completed")
  \/ target = BadTarget /\ Leave(r) /\ UNCHANGED store

-------------------------------------------------------------------------------
\* Mutant of Open: the engine remembers earlier calls.
OpenRemembering(r) ==
  LET s == SessionOf[r] IN
  /\ At(r, "idle")
  /\ Continue(r, IF store[s].status = "absent" THEN "missing" ELSE "opened",
              store[s])
  /\ UNCHANGED <<store, world>>

\* run() up to its first read of the store.
Open(r) ==
  LET s == SessionOf[r] IN
  /\ At(r, "idle")
  /\ applied' = [applied EXCEPT ![EngineOf[r]] = {}]
  /\ Continue(r, IF store[s].status = "absent" THEN "missing" ELSE "opened",
              store[s])
  /\ UNCHANGED <<store, artifacts, pack, metadata, interrupts, departures>>

\* StateStore.initialize, an error if another call has been faster.
Initialize(r) ==
  LET s == SessionOf[r] IN
  /\ At(r, "missing")
  /\ \/ /\ store[s].status = "absent"
        /\ store' = [store EXCEPT ![s] = Initialized]
        /\ Continue(r, "opened", Initialized)
     \/ /\ store[s].status # "absent"
        /\ Leave(r)
        /\ UNCHANGED store
  /\ UNCHANGED world

\* _start_run
Start(r) ==
  LET state == [State(r) EXCEPT !.status = "in_progress",
                                !.run_metadata = metadata[EngineOf[r]]]
  IN
  /\ At(r, "opened")
  /\ State(r).status = "initialized"
  /\ Save(r, state, Dispatch(state))
  /\ UNCHANGED world

\* Mutant of Resume: the engine keeps the metadata it has.
ResumeKeepingMetadata(r) ==
  /\ At(r, "opened")
  /\ State(r).status = "in_progress"
  /\ Continue(r, Dispatch(State(r)), State(r))
  /\ UNCHANGED <<store, world>>

\* A session already in progress: the engine takes over its metadata.
Resume(r) ==
  /\ At(r, "opened")
  /\ State(r).status = "in_progress"
  /\ metadata' = [metadata EXCEPT ![EngineOf[r]] = State(r).run_metadata]
  /\ Continue(r, Dispatch(State(r)), State(r))
  /\ UNCHANGED <<store, artifacts, pack, applied, interrupts, departures>>

\* A terminal session is handed back as it is.
ReturnTerminal(r) ==
  /\ At(r, "opened")
  /\ State(r).status \in Terminal
  /\ Leave(r)
  /\ UNCHANGED <<store, world>>

-------------------------------------------------------------------------------
(***************************************************************************)
(* _run_executor.  Iterations are counted over the whole log, earlier      *)
(* visits to the phase and earlier run() calls included.                   *)
(***************************************************************************)

\* Mutants of Put: numbered from 0; what is there stays there.
PutFromZero(files, p, n, content) ==
  files \cup {[phase_id |-> p, number |-> n - 1, content |-> content]}
PutOnce(files, p, n, content) ==
  IF \E f \in files : f.phase_id = p /\ f.number = n THEN files
  ELSE files \cup {[phase_id |-> p, number |-> n, content |-> content]}

\* Artifact n of phase p: written anew under a name it may already have.
Put(files, p, n, content) ==
  {f \in files : f.phase_id # p \/ f.number # n}
    \cup {[phase_id |-> p, number |-> n, content |-> content]}

\* Mutant of PreviousDecision: the first one.
FirstDecision(reviews, p) ==
  LET sent == {i \in DOMAIN reviews :
                 /\ reviews[i].decision = "REQUEST_CHANGES"
                 /\ reviews[i].target_phase = p
                 /\ reviews[i].phase_id \notin Human}
  IN {i \in sent : \A j \in sent : i <= j}

\* _history_for_phase: the latest send-back with findings that names p.  A
\* person's entry has no findings_ref.  At most one position of the log.
PreviousDecision(reviews, p) ==
  LET sent == {i \in DOMAIN reviews :
                 /\ reviews[i].decision = "REQUEST_CHANGES"
                 /\ reviews[i].target_phase = p
                 /\ reviews[i].phase_id \notin Human}
  IN {i \in sent : \A j \in sent : j <= i}

\* The role runs, and its handoff is saved before the iteration is committed.
Execute(r) ==
  LET s == SessionOf[r]
      p == PhaseOf(r)
      n == CountOf(State(r).phase_iterations, p) + 1
  IN
  /\ At(r, "work")
  /\ Len(State(r).phase_iterations) < MaxWork
  /\ \E result \in ExecutionResults :
       /\ artifacts' =
            IF result.handoff
            THEN [artifacts EXCEPT ![s].handoffs =
                    Put(@, p, n, result.confidence_score)]
            ELSE artifacts
       /\ run' = [run EXCEPT
                    ![r].pc = IF HasPack[s] THEN "produced" ELSE "published",
                    ![r].result = result,
                    ![r].previous = PreviousDecision(State(r).reviews, p)]
  /\ UNCHANGED <<store, pack, applied, metadata, interrupts, departures>>

\* Mutant of NeedsHandoff: a handoff is asked for only where there is one.
HasHandoff(r) ==
  HasPack[SessionOf[r]] /\ PhaseOf(r) = FinalizePhase /\ run[r].result.handoff

\* The finalize phase of a discovery must hand off into the pack.
NeedsHandoff(r) == HasPack[SessionOf[r]] /\ PhaseOf(r) = FinalizePhase

\* write_discovery_file for the files of the result; the score stands for what
\* is written.
PublishFiles(r) ==
  /\ At(r, "produced")
  /\ pack' = [pack EXCEPT ![SessionOf[r]].files = run[r].result.confidence_score]
  /\ run' = [run EXCEPT ![r].pc = IF NeedsHandoff(r) THEN "filed" ELSE "published"]
  /\ UNCHANGED <<store, artifacts, applied, metadata, interrupts, departures>>

\* write_discovery_file for discovery/handoff-context.json
PublishHandoff(r) ==
  LET result == run[r].result IN
  /\ At(r, "filed")
  /\ result.handoff
  /\ pack' = [pack EXCEPT ![SessionOf[r]].handoff = result.confidence_score]
  /\ run' = [run EXCEPT ![r].pc = "published"]
  /\ UNCHANGED <<store, artifacts, applied, metadata, interrupts, departures>>

AbandonWithoutHandoff(r) ==
  /\ At(r, "filed")
  /\ ~run[r].result.handoff
  /\ Finalize(r, "abandoned")
  /\ UNCHANGED world

CommitIteration(r) ==
  /\ At(r, "published")
  /\ Save(r, WithIteration(State(r), run[r].result), "committed")
  /\ UNCHANGED world

\* A question stops the run after the iteration that asks it; with
\* adhoc_questions off it is a ConfigurationError at the same place.
StopForQuestion(r) ==
  LET s == SessionOf[r] IN
  /\ At(r, "committed")
  /\ run[r].result.pending_question
  /\ pack' = IF AdhocQuestions /\ HasPack[s]
             THEN [pack EXCEPT ![s].questions = @ + 1] ELSE pack
  /\ Leave(r)
  /\ UNCHANGED <<store, artifacts, applied, metadata, interrupts, departures>>

\* What the committed iteration leads to.
Verdict(r) ==
  Outcome(PhaseOf(r), run[r].result.confidence_score,
          CountOf(State(r).phase_iterations, PhaseOf(r)))

Concluding(r, outcome) ==
  /\ At(r, "committed")
  /\ ~run[r].result.pending_question
  /\ Verdict(r) = outcome

Repeat(r) ==
  /\ Concluding(r, "repeat")
  /\ Continue(r, "work", State(r))
  /\ UNCHANGED <<store, world>>

GiveUp(r) ==
  /\ Concluding(r, "fail")
  /\ Finalize(r, "failed")
  /\ UNCHANGED world

LeaveExecutor(r) ==
  /\ Concluding(r, "route")
  /\ Route(r, Resolve(OnComplete[PhaseOf(r)], run[r].result.chosen_next))
  /\ UNCHANGED world

-------------------------------------------------------------------------------
(***************************************************************************)
(* _run_review.  A person's decision is found in the record, in the place  *)
(* of the stub that asked for it; a reviewer role is asked at once.        *)
(***************************************************************************)

\* Mutant of Committed: the stub counts as a decision.
CommittedOrPending(reviews, p, n) ==
  {i \in DOMAIN reviews : reviews[i].phase_id = p /\ reviews[i].review = n}

\* _find_committed_human_review: the n-th review of p, once decided.
Committed(reviews, p, n) ==
  {i \in DOMAIN reviews : /\ reviews[i].phase_id = p
                          /\ reviews[i].review = n
                          /\ reviews[i].decision # "PENDING"}

\* Mutant of ToApply: without the loop-back guard.
ToApplyAgain(r) ==
  LET p == PhaseOf(r)
      n == CountOf(State(r).reviews, p) + 1
  IN IF Committed(State(r).reviews, p, n) # {} THEN n
     ELSE IF p \in Human /\ Committed(State(r).reviews, p, n - 1) # {}
          THEN n - 1 ELSE 0

\* The number of the decided review to act upon, 0 if there is none.  The
\* engine remembers what it has acted upon since the last run() on it began.
ToApply(r) ==
  LET p == PhaseOf(r)
      n == CountOf(State(r).reviews, p) + 1
      last == <<p, n - 1>>
  IN IF Committed(State(r).reviews, p, n) # {} THEN n
     ELSE IF /\ p \in Human
             /\ last \notin applied[EngineOf[r]]
             /\ Committed(State(r).reviews, p, n - 1) # {}
          THEN n - 1 ELSE 0

\* _apply_committed_review.  The decision counts as acted upon even if the
\* transition then fails.
ApplyDecision(r) ==
  LET s == SessionOf[r]
      p == PhaseOf(r)
      n == ToApply(r)
      entry == State(r).reviews[CHOOSE i \in Committed(State(r).reviews, p, n) :
                                  TRUE]
  IN
  /\ At(r, "review")
  /\ n # 0
  /\ Route(r, ReviewRoute(p, entry.decision, entry.target_phase))
  /\ applied' = [applied EXCEPT ![EngineOf[r]] = @ \cup {<<p, n>>}]
  /\ departures' = IF store' = store THEN departures
                   ELSE [departures EXCEPT ![s][p] = @ + 1]
  /\ UNCHANGED <<artifacts, pack, metadata, interrupts>>

\* The PENDING stub, after which the call returns.
AskHuman(r) ==
  /\ At(r, "review")
  /\ ToApply(r) = 0
  /\ PhaseOf(r) \in Human
  /\ Len(State(r).reviews) < MaxReviews
  /\ Save(r, WithReview(State(r), "PENDING", NoPhase), "idle")
  /\ UNCHANGED world

\* Where a reviewer's result leads: a send-back names target_phase, an
\* approval chosen_next.
ReviewerRoute(p, result) ==
  ReviewRoute(p, result.decision,
              IF result.decision = "APPROVE"
              THEN result.chosen_next ELSE result.target_phase)

\* The reviewer runs; its decision must be routable before it is saved.
InvokeReviewer(r) ==
  LET s == SessionOf[r]
      p == PhaseOf(r)
      n == CountOf(State(r).reviews, p) + 1
  IN
  /\ At(r, "review")
  /\ ToApply(r) = 0
  /\ p \notin Human
  /\ Len(State(r).reviews) < MaxReviews
  /\ \E result \in ReviewResults :
       \/ /\ ReviewerRoute(p, result) = BadTarget
          /\ Leave(r)
          /\ UNCHANGED artifacts
       \/ /\ ReviewerRoute(p, result) # BadTarget
          /\ artifacts' = [artifacts EXCEPT ![s].decisions =
                             Put(@, p, n, result.decision)]
          /\ run' = [run EXCEPT ![r].pc = "reviewed", ![r].result = result]
  /\ UNCHANGED <<store, pack, applied, metadata, interrupts, departures>>

CommitReview(r) ==
  LET result == run[r].result IN
  /\ At(r, "reviewed")
  /\ Save(r, WithDecision(State(r), result.decision, result.target_phase),
          "judged")
  /\ UNCHANGED world

\* phase.max_feedback_rounds or self._max_feedback_rounds
CapOf(p) == IF PhaseCap[p] # 0 THEN PhaseCap[p] ELSE MaxFeedbackRounds

\* Mutants of CapReached: one round too many; no cap on the phase, no cap.
CapExceeded(r) ==
  /\ run[r].result.decision = "REQUEST_CHANGES"
  /\ State(r).feedback_loops > CapOf(PhaseOf(r))
PhaseCapReached(r) ==
  /\ run[r].result.decision = "REQUEST_CHANGES"
  /\ PhaseCap[PhaseOf(r)] # 0
  /\ State(r).feedback_loops >= PhaseCap[PhaseOf(r)]

CapReached(r) ==
  /\ run[r].result.decision = "REQUEST_CHANGES"
  /\ State(r).feedback_loops >= CapOf(PhaseOf(r))

ConcludeReview(r) ==
  /\ At(r, "judged")
  /\ \/ CapReached(r) /\ Finalize(r, "abandoned")
     \/ ~CapReached(r) /\ Route(r, ReviewerRoute(PhaseOf(r), run[r].result))
  /\ UNCHANGED world

-------------------------------------------------------------------------------
\* The second half of _finalize: context_pack_writer.finalize(lock=True).
LockPack(r) ==
  /\ At(r, "lock")
  /\ pack' = [pack EXCEPT ![SessionOf[r]].locked = TRUE]
  /\ Leave(r)
  /\ UNCHANGED <<store, artifacts, applied, metadata, interrupts, departures>>

(***************************************************************************)
(* _check_signal, at the top of the executor loop and after a committed    *)
(* review: PAUSE leaves the session in progress, CANCEL abandons it.       *)
(***************************************************************************)
MayInterrupt == interrupts < MaxInterrupts /\ interrupts' = interrupts + 1

Pause(r) ==
  /\ MayInterrupt
  /\ run[r].pc \in {"work", "judged"}
  /\ Leave(r)
  /\ UNCHANGED <<store, artifacts, pack, applied, metadata, departures>>

Cancel(r) ==
  /\ MayInterrupt
  /\ run[r].pc \in {"work", "judged"}
  /\ Finalize(r, "abandoned")
  /\ UNCHANGED <<artifacts, pack, applied, metadata, departures>>

\* A crash, or an exception out of a role, a validation, a store, the pack
\* writer or the observer: run() ends, the durable state stays as it is.
Interrupt(r) ==
  /\ MayInterrupt
  /\ ~At(r, "idle")
  /\ Leave(r)
  /\ UNCHANGED <<store, artifacts, pack, applied, metadata, departures>>

\* A person's decision, put in the place of a stub by a tool that loads the
\* record and saves it again.
Inject(s) ==
  /\ store[s].status = "in_progress"
  /\ \E i \in DOMAIN store[s].reviews, d \in HumanDecisions :
       /\ store[s].reviews[i].decision = "PENDING"
       /\ store' = [store EXCEPT
                      ![s] = Revised(WithAnswer(@, i, d.decision,
                                                d.target_phase))]
  /\ UNCHANGED <<run, world>>

\* A step of the call itself, as opposed to what befalls it.
Step(r) ==
  \/ Initialize(r) \/ Start(r) \/ Resume(r) \/ ReturnTerminal(r)
  \/ Execute(r) \/ PublishFiles(r) \/ PublishHandoff(r)
  \/ AbandonWithoutHandoff(r) \/ CommitIteration(r)
  \/ StopForQuestion(r) \/ Repeat(r) \/ GiveUp(r) \/ LeaveExecutor(r)
  \/ ApplyDecision(r) \/ AskHuman(r) \/ InvokeReviewer(r) \/ CommitReview(r)
  \/ ConcludeReview(r) \/ LockPack(r)

Next ==
  \/ \E r \in Runners :
       Open(r) \/ Step(r) \/ Pause(r) \/ Cancel(r) \/ Interrupt(r)
  \/ \E s \in Sessions : Inject(s)

Spec == Init /\ [][Next]_vars

\* Callers retry until the session is over, and a call in flight goes on; the
\* interruptions of the model are finitely many.  People owe no answer.
FairSpec ==
  Spec /\ \A r \in Runners : WF_vars(Open(r)) /\ WF_vars(Step(r))

-------------------------------------------------------------------------------
(***************************************************************************)
(* Properties                                                              *)
(***************************************************************************)
Pcs == {"idle", "missing", "opened", "work", "produced", "filed", "published",
        "committed", "review", "reviewed", "judged", "lock"}

Call == [pc : Pcs, stored : Session, previous : SUBSET Nat,
         result : ExecutionResult \cup ReviewResult \cup {NoResult}]

Handoff == [phase_id : Phases, number : Nat, content : Scores]
Decision == [phase_id : Phases, number : Nat, content : Decisions]
Pack == [files : Scores \cup {NoScore}, handoff : Scores \cup {NoScore},
         questions : Nat, locked : BOOLEAN]

\* Every variable keeps its type: no run() call, whatever it meets, writes a
\* record that contracts/state.py would refuse to load.
TypeOK ==
  /\ store \in [Sessions -> Session]
  /\ artifacts \in [Sessions -> [handoffs : SUBSET Handoff,
                                 decisions : SUBSET Decision]]
  /\ pack \in [Sessions -> Pack]
  /\ run \in [Runners -> Call]
  /\ applied \in [Engines -> SUBSET (Phases \X Nat)]
  /\ metadata \in [Engines -> Metadata]
  /\ interrupts \in 0..MaxInterrupts
  /\ departures \in [Sessions -> [Phases -> Nat]]

\* The engine implements the durable session: whatever calls overlap, crash or
\* retry, each change of the record is one its own contents justify.
Durable == INSTANCE DurableSession
DurableSpec == Durable!Spec

\* A call whose revision is the stored one holds the stored record: this is
\* what the optimistic revision check of save() rests on.
SnapshotCurrent ==
  \A r \in Runners :
     /\ State(r).revision <= store[SessionOf[r]].revision
     /\ ~At(r, "idle") /\ ~At(r, "missing") /\ Fresh(r)
          => State(r) = store[SessionOf[r]]

\* What a call knows at each of its places: which phase it is in, whose result it
\* holds, and that the entry it has just saved is the last of the record.
Working == {"work", "produced", "filed", "published", "committed"}
Reviewing == {"review", "reviewed", "judged"}

EndsWithIteration(log, p, result) ==
  /\ log # <<>>
  /\ log[Len(log)].phase_id = p
  /\ log[Len(log)].confidence_score = result.confidence_score

EndsWithReview(log, p, result) ==
  /\ log # <<>>
  /\ log[Len(log)].phase_id = p
  /\ log[Len(log)].decision = result.decision

Formed(c) ==
  LET state == c.stored
      p == state.current_phase
  IN
  /\ c.pc \notin {"idle", "missing"} => state.status # "absent"
  /\ c.pc \in Working \cup Reviewing => state.status = "in_progress"
  /\ c.pc \in Working => p \in Executors
  /\ c.pc \in Reviewing => p \in Reviews
  /\ c.pc \in Working \ {"work"} => c.result \in ExecutionResult
  /\ c.pc \in Reviewing \ {"review"} => c.result \in ReviewResult /\ p \notin Human
  /\ c.pc = "committed" => EndsWithIteration(state.phase_iterations, p, c.result)
  /\ c.pc = "judged" => EndsWithReview(state.reviews, p, c.result)
  /\ c.pc = "lock" => state.status = "completed"

AbsentBare == \A s \in Sessions : store[s].status = "absent" => store[s] = Absent

\* The invariant behind the revision check: a call's memory fits its place in
\* the code, and is the record itself while its revision is the stored one.
Inv == TypeOK /\ (\A r \in Runners : Formed(run[r])) /\ AbsentBare /\ SnapshotCurrent

\* The n-th entry of a phase carries the number n, in both logs: artifact
\* names, the lookup of a person's decision and the iteration limit all count
\* on it, across calls that resume, overlap and lose the race to save.
EntriesNumbered ==
  \A s \in Sessions :
     /\ \A i \in DOMAIN store[s].phase_iterations :
          store[s].phase_iterations[i].iteration =
            Ordinal(store[s].phase_iterations, i)
     /\ \A i \in DOMAIN store[s].reviews :
          store[s].reviews[i].review = Ordinal(store[s].reviews, i)

\* feedback_loops is the number of send-backs by reviewer roles in the log: no
\* retry, lost race or person's decision makes the two drift apart.
FeedbackLoopsCounted ==
  \A s \in Sessions :
     store[s].feedback_loops =
       Cardinality({i \in DOMAIN store[s].reviews :
                      /\ store[s].reviews[i].decision = "REQUEST_CHANGES"
                      /\ store[s].reviews[i].phase_id \notin Human})

\* What the artifact of that phase and number holds: at most one content.
Contents(files, p, number) ==
  {f.content : f \in {g \in files : g.phase_id = p /\ g.number = number}}

\* Every reference resolves, and to what its entry reports: an iteration with a
\* handoff and a role's review name an artifact that was saved before them and
\* holds their content, though a retry may have written it before.  With one
\* runner a crash between the two writes never leaves another's content under a
\* committed name (_artifact_writer.save_handoff, save_decision).
ArtifactsMatch ==
  \A s \in Sessions :
     /\ \A it \in {store[s].phase_iterations[i] : i \in DOMAIN store[s].phase_iterations} :
          it.handoff => Contents(artifacts[s].handoffs, it.phase_id, it.iteration)
                          = {it.confidence_score}
     /\ \A rev \in {store[s].reviews[i] : i \in DOMAIN store[s].reviews} :
          rev.phase_id \notin Human =>
            Contents(artifacts[s].decisions, rev.phase_id, rev.review) = {rev.decision}

SentBack(reviews, p) ==
  {i \in DOMAIN reviews :
     /\ reviews[i].decision = "REQUEST_CHANGES"
     /\ reviews[i].phase_id \notin Human
     /\ ReviewRoute(reviews[i].phase_id, "REQUEST_CHANGES",
                    reviews[i].target_phase) = p}

\* An executor at work on a phase a reviewer has sent back is shown the latest
\* such decision (history.previous_decision), also after a resume.
FindingsReachExecutor ==
  \A r \in Runners :
     run[r].pc \in {"produced", "filed", "published"} =>
       \A i \in SentBack(State(r).reviews, PhaseOf(r)) :
          \E j \in run[r].previous : i <= j

\* The metadata a role is given with its request is the session's own, through
\* resumes on engines built with other metadata.
MetadataIsSessions ==
  \A r \in Runners :
     run[r].pc \in {"work", "review"} =>
       metadata[EngineOf[r]] = State(r).run_metadata

SendBacks(s) ==
  {i \in DOMAIN store[s].reviews :
     store[s].reviews[i].decision = "REQUEST_CHANGES"}

\* The iterations of a phase stay within max_iterations, plus one for each time
\* the phase may have been entered again: sent back, or interrupted.
IterationBudget ==
  \A s \in Sessions, p \in Executors :
     CountOf(store[s].phase_iterations, p)
       <= MaxIterations + Cardinality(SendBacks(s)) + interrupts

\* The send-backs of a session exceed the cap of the phases that count them
\* by no more than the interruptions: the one that reaches the cap abandons the
\* session unless its run is cut short before the cap is tested.
FeedbackCapped ==
  \A s \in Sessions :
     \E p \in Reviews \ Human : store[s].feedback_loops <= CapOf(p) + interrupts

\* A person is asked again each time the session comes back to a human phase:
\* it never leaves the phase more often than decisions on it were injected.
DecisionsUsedOnce ==
  \A s \in Sessions, p \in Human :
     departures[s][p] <=
       Cardinality({i \in EntriesOf(store[s].reviews, p) :
                      store[s].reviews[i].decision # "PENDING"})

\* The decisions people have taken.
Decided(reviews) ==
  {i \in DOMAIN reviews : reviews[i].phase_id \in Human
                          /\ reviews[i].decision # "PENDING"}

\* Within one run a decision is acted upon once: a session leaves a human phase
\* more often than people have decided only as often as an interruption or a
\* question has ended a run, however many human phases it goes through.
ReuseNeedsStop ==
  \A s \in Sessions, p \in Human :
     departures[s][p] <=
       Cardinality(Decided(store[s].reviews)) + interrupts + pack[s].questions

\* The engine passes over a decision as already acted upon only if the session
\* has indeed been moved on by a decision on that phase.
AppliedMeansActed ==
  \A r \in Runners :
     LET p == PhaseOf(r)
         n == CountOf(State(r).reviews, p)
     IN (/\ At(r, "review")
         /\ p \in Human
         /\ Committed(State(r).reviews, p, n) # {}
         /\ <<p, n>> \in applied[EngineOf[r]])
          => departures[SessionOf[r]][p] > 0

\* A completed discovery that went through its finalize phase left in the pack
\* the handoff of the last iteration committed there.
CompletedPackHandsOff ==
  \A s \in Sessions :
     HasPack[s] /\ store[s].status = "completed" =>
       \A i \in EntriesOf(store[s].phase_iterations, FinalizePhase) :
          (\A j \in EntriesOf(store[s].phase_iterations, FinalizePhase) : j <= i)
            => pack[s].handoff = store[s].phase_iterations[i].confidence_score

\* Once locked, a pack is never written again, and only the pack of a completed
\* session is locked.
LockedPackFrozen ==
  [][\A s \in Sessions :
       /\ pack[s].locked => pack'[s] = pack[s]
       /\ pack'[s].locked => store'[s].status = "completed"]_vars

\* Under fair callers every session of an automated workflow comes to an end:
\* no loop of iterations, send-backs and retries goes on for ever.
Terminates == \A s \in Sessions : <>(store[s].status \in Terminal)

===============================================================================
