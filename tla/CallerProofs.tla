------------------------------ MODULE CallerProofs ------------------------------
(***************************************************************************)
(* What an engine promises a careful caller, for every graph, policy and   *)
(* number of sessions, runners and engines: a session has one caller at a  *)
(* time (OneCaller), or an engine object is not shared (OwnEngine).  Each  *)
(* theorem names the hypothesis it rests on; without it the property has   *)
(* counterexamples, calls that overlap on one session or on one engine.    *)
(***************************************************************************)
EXTENDS SessionRecordProofs

OneCaller == \A q, r \in Runners : SessionOf[q] = SessionOf[r] => q = r
OwnEngine == \A q, r \in Runners : EngineOf[q] = EngineOf[r] => q = r

-------------------------------------------------------------------------------
(***************************************************************************)
(* The effects of a step of one call: on the other calls and sessions, and *)
(* of its saves and moves on its own.                                      *)
(***************************************************************************)
CallOf(r) == Open(r) \/ Step(r) \/ Pause(r) \/ Cancel(r) \/ Interrupt(r)

\* A step of a call, of a person, or none.
LEMMA NextCases ==
  ASSUME [Next]_vars
  PROVE  \/ UNCHANGED vars
         \/ \E r \in Runners : CallOf(r)
         \/ \E s \in Sessions : Inject(s)
BY DEF Next, CallOf

\* A save that is lost ends the call; one that is won stores the next revision
\* and the call goes on with it.
LEMMA SaveOutcome ==
  ASSUME Core, NEW r \in Runners, NEW state \in Session, NEW pc \in Pcs,
         Save(r, state, pc)
  PROVE  /\ \A q \in Runners \ {r} : run'[q] = run[q]
         /\ \A s \in Sessions \ {SessionOf[r]} : store'[s] = store[s]
         /\ \/ ~Fresh(r) /\ run'[r] = Idle /\ UNCHANGED store
            \/ /\ Fresh(r)
               /\ store'[SessionOf[r]] = Revised(state)
               /\ pc = "idle" => run'[r] = Idle
               /\ pc # "idle" =>
                    /\ run'[r].pc = pc
                    /\ run'[r].stored = Revised(state)
                    /\ pc \in {"committed", "judged"} =>
                         run'[r].result = run[r].result
<1>1. SessionOf[r] \in Sessions /\ Revised(state) \in Session
  BY CallFacts, RevisedFacts
<1>2. CASE ~Fresh(r) /\ Leave(r) /\ UNCHANGED store
  BY <1>2 DEF Leave, Core, CallsTyped
<1>3. CASE /\ Fresh(r)
           /\ store' = [store EXCEPT ![SessionOf[r]] = Revised(state)]
           /\ Continue(r, pc, Revised(state))
  <2> DEFINE call == NextCall(r, pc, Revised(state))
  <2>1. /\ pc = "idle" => call = Idle
        /\ pc # "idle" =>
             /\ call.pc = pc
             /\ call.stored = Revised(state)
             /\ pc \in {"committed", "judged"} => call.result = run[r].result
    BY <1>1, NextCallType DEF Core
  <2>2. run' = [run EXCEPT ![r] = call]
    BY <1>3 DEF Continue
  <2> HIDE DEF call
  <2>3. run'[r] = call /\ \A q \in Runners \ {r} : run'[q] = run[q]
    BY <2>2 DEF Core, CallsTyped
  <2>4. /\ store'[SessionOf[r]] = Revised(state)
        /\ \A s \in Sessions \ {SessionOf[r]} : store'[s] = store[s]
    BY <1>1, <1>3 DEF Core, StoreTyped
  <2> QED
    BY <1>3, <2>1, <2>3, <2>4
<1> QED
  BY <1>2, <1>3 DEF Save

\* What a transition or an end of the session leaves of the held record.
SameLogs(before, after) ==
  /\ after.phase_iterations = before.phase_iterations
  /\ after.reviews = before.reviews
  /\ after.feedback_loops = before.feedback_loops
  /\ after.run_metadata = before.run_metadata

Moves(r) ==
  \/ \E target : Route(r, target)
  \/ \E status \in Terminal : Finalize(r, status)

\* An end of the session that is saved leaves it in the phase it is in.
LEMMA EndOutcome ==
  ASSUME Core, NEW r \in Runners, NEW status \in Terminal, Finalize(r, status)
  PROVE  /\ \A q \in Runners \ {r} : run'[q] = run[q]
         /\ \A s \in Sessions \ {SessionOf[r]} : store'[s] = store[s]
         /\ \/ run'[r] = Idle /\ UNCHANGED store
            \/ /\ Fresh(r)
               /\ store'[SessionOf[r]] \in Session
               /\ SameLogs(State(r), store'[SessionOf[r]])
               /\ store'[SessionOf[r]].revision = State(r).revision + 1
               /\ store'[SessionOf[r]].status = status
               /\ store'[SessionOf[r]].current_phase = PhaseOf(r)
               /\ \/ run'[r] = Idle
                  \/ /\ run'[r].pc = "lock"
                     /\ run'[r].stored = store'[SessionOf[r]]
<1>1. State(r) \in Session /\ PhaseOf(r) = State(r).current_phase
  BY CallFacts
<1> DEFINE state == [State(r) EXCEPT !.status = status]
           pc == IF status = "completed" /\ HasPack[SessionOf[r]]
                 THEN "lock" ELSE "idle"
<1>2. /\ state \in Session /\ SameLogs(State(r), state)
      /\ state.status = status /\ state.revision = State(r).revision
      /\ state.current_phase = PhaseOf(r)
  BY <1>1 DEF Session, SameLogs, Statuses
<1>3. Save(r, state, pc)
  BY DEF Finalize
<1>4. pc \in {"lock", "idle"}
  OBVIOUS
<1> HIDE DEF state, pc
<1>5. /\ Revised(state) \in Session /\ SameLogs(State(r), Revised(state))
      /\ Revised(state).status = status
      /\ Revised(state).current_phase = PhaseOf(r)
      /\ Revised(state).revision = State(r).revision + 1
  BY <1>2, RevisedFacts DEF SameLogs
<1> QED
  BY <1>2, <1>3, <1>4, <1>5, SaveOutcome DEF Pcs

\* A call that moves its session on ends, or holds what it has stored.
LEMMA MoveOutcome ==
  ASSUME Core, NEW r \in Runners, Moves(r), State(r).status = "in_progress"
  PROVE  /\ \A q \in Runners \ {r} : run'[q] = run[q]
         /\ \A s \in Sessions \ {SessionOf[r]} : store'[s] = store[s]
         /\ \/ run'[r] = Idle /\ UNCHANGED store
            \/ /\ Fresh(r)
               /\ store'[SessionOf[r]] \in Session
               /\ SameLogs(State(r), store'[SessionOf[r]])
               /\ store'[SessionOf[r]].revision = State(r).revision + 1
               /\ \/ store'[SessionOf[r]].status = "in_progress"
                  \/ /\ store'[SessionOf[r]].status \in Terminal
                     /\ store'[SessionOf[r]].current_phase = PhaseOf(r)
               /\ \/ run'[r] = Idle
                  \/ /\ run'[r].pc \in {"work", "review", "lock"}
                     /\ run'[r].stored = store'[SessionOf[r]]
               /\ store'[SessionOf[r]].status = "in_progress"
                    <=> run'[r].pc \in {"work", "review"}
<1>1. State(r) \in Session /\ PhaseOf(r) = State(r).current_phase
  BY CallFacts
<1>2. ASSUME NEW to \in Phases, Transition(r, to)
      PROVE  /\ \A q \in Runners \ {r} : run'[q] = run[q]
             /\ \A s \in Sessions \ {SessionOf[r]} : store'[s] = store[s]
             /\ \/ run'[r] = Idle /\ UNCHANGED store
                \/ /\ Fresh(r)
                   /\ store'[SessionOf[r]] \in Session
                   /\ SameLogs(State(r), store'[SessionOf[r]])
                   /\ store'[SessionOf[r]].revision = State(r).revision + 1
                   /\ store'[SessionOf[r]].status = "in_progress"
                   /\ run'[r].pc \in {"work", "review"}
                   /\ run'[r].stored = store'[SessionOf[r]]
  <2> DEFINE state == [State(r) EXCEPT !.current_phase = to]
  <2>1. /\ state \in Session /\ SameLogs(State(r), state)
        /\ state.status = "in_progress" /\ state.revision = State(r).revision
    BY <1>1 DEF Session, SameLogs
  <2>2. Save(r, state, Dispatch(state))
    BY <1>2 DEF Transition
  <2> HIDE DEF state
  <2>3. Dispatch(state) \in {"work", "review"}
    BY <2>1 DEF Dispatch
  <2>4. /\ Revised(state) \in Session /\ SameLogs(State(r), Revised(state))
        /\ Revised(state).status = "in_progress"
        /\ Revised(state).revision = State(r).revision + 1
    BY <2>1, RevisedFacts DEF SameLogs
  <2> QED
    BY <2>1, <2>2, <2>3, <2>4, SaveOutcome DEF Pcs
<1>3. CASE \E status \in Terminal : Finalize(r, status)
  BY <1>1, <1>3, EndOutcome, IdleFormed DEF Terminal
<1>4. ASSUME Leave(r), UNCHANGED store
      PROVE  /\ \A q \in Runners \ {r} : run'[q] = run[q]
             /\ run'[r] = Idle
  BY <1>4 DEF Leave, Core, CallsTyped
<1>5. CASE \E target : Route(r, target)
  <2>1. PICK target : Route(r, target)
    BY <1>5
  <2>2. CASE target \in Phases /\ Transition(r, target)
    BY <2>2, <1>2
  <2>3. CASE target = NoPhase /\ Finalize(r, "completed")
    BY <2>3, EndOutcome, IdleFormed DEF Terminal
  <2>4. CASE target = BadTarget /\ Leave(r) /\ UNCHANGED store
    BY <2>4, <1>4
  <2> QED
    BY <2>1, <2>2, <2>3, <2>4 DEF Route
<1> QED
  BY <1>3, <1>5 DEF Moves

\* A step of a call leaves the memory of other calls, other sessions and the
\* memory of other engines alone.
OthersStay(r) ==
  /\ \A q \in Runners \ {r} : run'[q] = run[q]
  /\ \A s \in Sessions \ {SessionOf[r]} :
       /\ store'[s] = store[s]
       /\ artifacts'[s] = artifacts[s]
       /\ pack'[s] = pack[s]
       /\ departures'[s] = departures[s]
  /\ \A e \in Engines \ {EngineOf[r]} :
       /\ applied'[e] = applied[e]
       /\ metadata'[e] = metadata[e]

LEMMA SaveLocal ==
  ASSUME Core, NEW r \in Runners, NEW state, NEW pc, Save(r, state, pc)
  PROVE  /\ \A q \in Runners \ {r} : run'[q] = run[q]
         /\ \A s \in Sessions \ {SessionOf[r]} : store'[s] = store[s]
BY DEF Save, Continue, Leave, Core, CallsTyped, StoreTyped

LEMMA MoveLocal ==
  ASSUME Core, NEW r \in Runners, Moves(r)
  PROVE  /\ \A q \in Runners \ {r} : run'[q] = run[q]
         /\ \A s \in Sessions \ {SessionOf[r]} : store'[s] = store[s]
<1>1. CASE \E state, pc : Save(r, state, pc)
  BY <1>1, SaveLocal
<1>2. CASE Leave(r) /\ UNCHANGED store
  BY <1>2 DEF Leave, Core, CallsTyped
<1> QED
  BY <1>1, <1>2 DEF Moves, Route, Transition, Finalize

\* The actions of a call by their effect: it ends, goes on with what it holds,
\* saves another entry, or moves its session on.
Ending(r) ==
  ReturnTerminal(r) \/ StopForQuestion(r) \/ LockPack(r) \/ Pause(r) \/ Interrupt(r)
Proceeding(r) ==
  Execute(r) \/ PublishFiles(r) \/ PublishHandoff(r) \/ InvokeReviewer(r)
Committing(r) == CommitIteration(r) \/ AskHuman(r) \/ CommitReview(r)
Moving(r) ==
  \/ AbandonWithoutHandoff(r) \/ GiveUp(r) \/ LeaveExecutor(r)
  \/ ApplyDecision(r) \/ ConcludeReview(r) \/ Cancel(r)

LEMMA CallCases ==
  ASSUME NEW r \in Runners, CallOf(r)
  PROVE  \/ Open(r) \/ Initialize(r) \/ Start(r) \/ Resume(r) \/ Repeat(r)
         \/ Ending(r) \/ Proceeding(r) \/ Committing(r) \/ Moving(r)
BY DEF CallOf, Step, Ending, Proceeding, Committing, Moving

LEMMA EndingOutcome ==
  ASSUME Core, NEW r \in Runners, Ending(r)
  PROVE  run'[r] = Idle /\ UNCHANGED <<store, artifacts, metadata>>
<1>1. Leave(r) /\ UNCHANGED <<store, artifacts, metadata>>
  BY DEF Ending, ReturnTerminal, StopForQuestion, LockPack, Pause, Interrupt, world
<1> QED
  BY <1>1 DEF Leave, Core, CallsTyped

LEMMA ProceedingOutcome ==
  ASSUME Core, NEW r \in Runners, Proceeding(r)
  PROVE  /\ run[r].pc \in {"work", "produced", "filed", "review"}
         /\ run'[r] = Idle \/ run'[r].stored = run[r].stored
         /\ UNCHANGED <<store, metadata>>
<1>1. /\ run' = [run EXCEPT ![r] = run'[r]] /\ run \in [Runners -> Call]
      /\ run[r] \in Call
  BY DEF Proceeding, Execute, PublishFiles, PublishHandoff, InvokeReviewer,
     Leave, Core, CallsTyped
<1>2. CASE Execute(r)
  BY <1>1, <1>2 DEF Execute, Call, At
<1>3. CASE PublishFiles(r) \/ PublishHandoff(r)
  BY <1>1, <1>3 DEF PublishFiles, PublishHandoff, Call, At
<1>4. CASE InvokeReviewer(r)
  BY <1>1, <1>4 DEF InvokeReviewer, Leave, Call, At
<1> QED
  BY <1>2, <1>3, <1>4 DEF Proceeding

\* An entry is added to one of the logs, the rest of the record stays.
LEMMA CommittingOutcome ==
  ASSUME Core, NEW r \in Runners, Committing(r)
  PROVE  /\ run[r].pc \in {"published", "review", "reviewed"}
         /\ UNCHANGED world
         /\ \E state \in Session, pc \in {"committed", "judged", "idle"} :
              /\ Save(r, state, pc) /\ state.run_metadata = State(r).run_metadata
              /\ pc = "judged" => CommitReview(r)
<1>1. Formed(run[r]) /\ State(r) = run[r].stored /\ State(r) \in Session
  BY CallFacts
<1>2. CASE CommitIteration(r)
  <2>1. /\ run[r].result.confidence_score \in Scores
        /\ run[r].result.handoff \in BOOLEAN
    BY <1>1, <1>2 DEF CommitIteration, At, Formed, Working, ExecutionResult
  <2> QED
    BY <1>1, <1>2, <2>1, WithIterationFacts DEF CommitIteration, At
<1>3. CASE CommitReview(r)
  <2>1. /\ run[r].result.decision \in Decisions
        /\ run[r].result.target_phase \in Choices
    BY <1>1, <1>3 DEF CommitReview, At, Formed, Reviewing, ReviewResult
  <2> QED
    BY <1>1, <1>3, <2>1, WithDecisionFacts DEF CommitReview, At
<1>4. CASE AskHuman(r)
  <2> DEFINE state == WithReview(State(r), "PENDING", NoPhase)
  <2>1. State(r) \in Session /\ NoPhase \in Choices
    BY <1>1 DEF Choices
  <2>2. state \in Session /\ state.run_metadata = State(r).run_metadata
    BY <2>1, WithReviewFacts
  <2>3. Save(r, state, "idle") /\ run[r].pc = "review" /\ UNCHANGED world
    BY <1>4 DEF AskHuman, At
  <2> HIDE DEF state
  <2> QED
    BY <2>2, <2>3
<1> QED
  BY <1>2, <1>3, <1>4 DEF Committing

LEMMA MovingOutcome ==
  ASSUME Core, NEW r \in Runners, Moving(r)
  PROVE  /\ run[r].pc \in {"work", "filed", "committed", "review", "judged"}
         /\ Moves(r) /\ State(r).status = "in_progress"
         /\ UNCHANGED <<artifacts, pack, metadata>>
<1>1. /\ run[r].pc \in {"work", "filed", "committed", "review", "judged"}
      /\ UNCHANGED <<artifacts, pack, metadata>>
  BY DEF Moving, AbandonWithoutHandoff, GiveUp, LeaveExecutor, ApplyDecision,
     ConcludeReview, Cancel, Concluding, At, world
<1>2. Moves(r)
  BY DEF Moving, AbandonWithoutHandoff, GiveUp, LeaveExecutor, ApplyDecision,
     ConcludeReview, Cancel, Moves, Terminal
<1>3. State(r).status = "in_progress"
  BY <1>1, CallFacts DEF Formed, Working, Reviewing
<1> QED
  BY <1>1, <1>2, <1>3

LEMMA LocalStep ==
  ASSUME Inv, NEW r \in Runners, CallOf(r)
  PROVE  OthersStay(r)
<1>1. Core /\ RestTyped
  BY InvParts
<1>2. CASE \/ Open(r) \/ Initialize(r) \/ Resume(r) \/ Repeat(r)
           \/ Ending(r) \/ Proceeding(r)
  <2>1. /\ \A q \in Runners \ {r} : run'[q] = run[q]
        /\ \A s \in Sessions \ {SessionOf[r]} : store'[s] = store[s]
    BY <1>1, <1>2
    DEF Core, CallsTyped, StoreTyped, Ending, Proceeding, Initialize, Open,
        Resume, ReturnTerminal, Repeat, StopForQuestion, LockPack, Pause,
        Interrupt, Execute, PublishFiles, PublishHandoff, InvokeReviewer,
        Continue, Leave
  <2>2. \A s \in Sessions \ {SessionOf[r]} :
          /\ artifacts'[s] = artifacts[s] /\ pack'[s] = pack[s]
          /\ departures'[s] = departures[s]
    BY <1>1, <1>2
    DEF RestTyped, Ending, Proceeding, Initialize, Open, Resume, ReturnTerminal,
        Repeat, StopForQuestion, LockPack, Pause, Interrupt, Execute,
        PublishFiles, PublishHandoff, InvokeReviewer, world
  <2>3. \A e \in Engines \ {EngineOf[r]} :
          applied'[e] = applied[e] /\ metadata'[e] = metadata[e]
    BY <1>1, <1>2
    DEF RestTyped, Ending, Proceeding, Initialize, Open, Resume, ReturnTerminal,
        Repeat, StopForQuestion, LockPack, Pause, Interrupt, Execute,
        PublishFiles, PublishHandoff, InvokeReviewer, world
  <2> QED
    BY <2>1, <2>2, <2>3 DEF OthersStay
<1>3. CASE Start(r) \/ Committing(r)
  <2>1. (\E state, pc : Save(r, state, pc)) /\ UNCHANGED world
    BY <1>1, <1>3, CommittingOutcome DEF Start
  <2> QED
    BY <1>1, <2>1, SaveLocal DEF OthersStay, world
<1>4. CASE Moving(r)
  <2>1. /\ \A q \in Runners \ {r} : run'[q] = run[q]
        /\ \A s \in Sessions \ {SessionOf[r]} : store'[s] = store[s]
        /\ UNCHANGED <<artifacts, pack, metadata>>
    BY <1>1, <1>4, MovingOutcome, MoveLocal
  <2>2. /\ \A s \in Sessions \ {SessionOf[r]} : departures'[s] = departures[s]
        /\ \A e \in Engines \ {EngineOf[r]} : applied'[e] = applied[e]
    BY <1>1, <1>4
    DEF RestTyped, Moving, AbandonWithoutHandoff, GiveUp, LeaveExecutor,
        ApplyDecision, ConcludeReview, Cancel, world
  <2> QED
    BY <2>1, <2>2 DEF OthersStay
<1> QED
  BY <1>2, <1>3, <1>4, CallCases

-------------------------------------------------------------------------------
(***************************************************************************)
(* Engines of their own: MetadataHeld and ActedUpon are inductive.         *)
(***************************************************************************)
MetadataHeld ==
  \A r \in Runners :
     run[r].pc \in Working \cup Reviewing =>
       metadata[EngineOf[r]] = State(r).run_metadata

ActedUpon ==
  \A r \in Runners, p \in Phases, n \in Nat :
     ~At(r, "idle") /\ <<p, n>> \in applied[EngineOf[r]]
       => departures[SessionOf[r]][p] > 0

\* A call at work or at a review has the metadata of its record, and hands it
\* on to the next.
LEMMA MetadataOwn ==
  ASSUME Inv, MetadataHeld, NEW r \in Runners, CallOf(r),
         run'[r].pc \in Working \cup Reviewing
  PROVE  metadata'[EngineOf[r]] = run'[r].stored.run_metadata
<1>1. /\ Core /\ RestTyped /\ run[r] \in Call /\ Formed(run[r])
      /\ State(r) = run[r].stored /\ State(r) \in Session
      /\ EngineOf[r] \in Engines
      /\ run[r].pc \in Working \cup Reviewing =>
           metadata[EngineOf[r]] = State(r).run_metadata
  BY InvParts, CallFacts, EngineAssumption DEF MetadataHeld
<1>2. Idle.pc \notin Working \cup Reviewing
  BY IdleFormed DEF Working, Reviewing
<1>3. run'[r] # Idle
  BY <1>2
<1>4. CASE Open(r) \/ Initialize(r)
  <2>1. run'[r] = Idle \/ run'[r].pc \in {"missing", "opened"}
    BY <1>1, <1>4 DEF Open, Initialize, Leave, Continue, Core, CallsTyped, NextCall
  <2> QED
    BY <1>3, <2>1 DEF Working, Reviewing
<1>5. CASE Start(r)
  <2> DEFINE state == [State(r) EXCEPT !.status = "in_progress",
                                       !.run_metadata = metadata[EngineOf[r]]]
  <2>1. metadata[EngineOf[r]] \in Metadata
    BY <1>1 DEF RestTyped
  <2>2. /\ state \in Session /\ state.run_metadata = metadata[EngineOf[r]]
        /\ state.status = "in_progress"
    BY <1>1, <2>1 DEF Session, Statuses
  <2>3. Save(r, state, Dispatch(state)) /\ UNCHANGED metadata
    BY <1>5 DEF Start, world
  <2> HIDE DEF state
  <2>4. Dispatch(state) \in Pcs \ {"idle"}
    BY <2>2 DEF Dispatch, Pcs
  <2>5. run'[r].stored = Revised(state)
    BY <1>1, <1>3, <2>2, <2>3, <2>4, SaveOutcome
  <2> QED
    BY <2>2, <2>3, <2>5, RevisedFacts
<1>6. CASE Resume(r)
  <2>1. metadata'[EngineOf[r]] = State(r).run_metadata
    BY <1>1, <1>6 DEF Resume, RestTyped
  <2>2. run'[r] = NextCall(r, Dispatch(State(r)), State(r))
    BY <1>1, <1>6 DEF Resume, Continue, Core, CallsTyped
  <2> QED
    BY <1>3, <2>1, <2>2 DEF NextCall
<1>7. CASE Proceeding(r)
  BY <1>1, <1>3, <1>7, ProceedingOutcome DEF Working, Reviewing
<1>8. CASE Repeat(r)
  <2>1. run[r].pc \in Working /\ UNCHANGED metadata
    BY <1>8 DEF Repeat, Concluding, At, Working, world
  <2>2. run'[r].stored = State(r)
    BY <1>1, <1>8 DEF Repeat, Continue, NextCall, Core, CallsTyped
  <2> QED
    BY <1>1, <2>1, <2>2
<1>9. CASE Committing(r)
  <2>1. run[r].pc \in Working \cup Reviewing /\ UNCHANGED metadata
    BY <1>1, <1>9, CommittingOutcome DEF Working, Reviewing, world
  <2>2. PICK state \in Session, pc \in {"committed", "judged", "idle"} :
          Save(r, state, pc) /\ state.run_metadata = State(r).run_metadata
    BY <1>1, <1>9, CommittingOutcome
  <2>3. run'[r].stored = Revised(state)
    BY <1>1, <1>3, <2>2, SaveOutcome DEF Pcs
  <2> QED
    BY <1>1, <2>1, <2>2, <2>3, RevisedFacts
<1>10. CASE Moving(r)
  <2>1. run[r].pc \in Working \cup Reviewing /\ UNCHANGED metadata
    BY <1>1, <1>10, MovingOutcome DEF Working, Reviewing
  <2>2. SameLogs(State(r), run'[r].stored)
    BY <1>1, <1>3, <1>10, MovingOutcome, MoveOutcome
  <2> QED
    BY <1>1, <2>1, <2>2 DEF SameLogs
<1>11. CASE Ending(r)
  BY <1>1, <1>3, <1>11, EndingOutcome
<1> QED
  BY <1>4, <1>5, <1>6, <1>7, <1>8, <1>9, <1>10, <1>11, CallCases

LEMMA MetadataNext ==
  ASSUME OwnEngine, Inv, MetadataHeld, [Next]_vars
  PROVE  MetadataHeld'
<1>1. CASE UNCHANGED vars
  BY <1>1 DEF vars, MetadataHeld, State
<1>2. CASE \E s \in Sessions : Inject(s)
  BY <1>2 DEF Inject, world, MetadataHeld, State
<1>3. ASSUME NEW r \in Runners, CallOf(r) PROVE MetadataHeld'
  <2> SUFFICES ASSUME NEW q \in Runners, run'[q].pc \in Working \cup Reviewing
               PROVE  metadata'[EngineOf[q]] = run'[q].stored.run_metadata
    BY DEF MetadataHeld, State
  <2>1. CASE q = r
    BY <1>3, <2>1, MetadataOwn
  <2>2. CASE q # r
    <3>1. EngineOf[q] \in Engines \ {EngineOf[r]}
      BY <2>2, EngineAssumption DEF OwnEngine
    <3>2. run'[q] = run[q] /\ metadata'[EngineOf[q]] = metadata[EngineOf[q]]
      BY <1>3, <2>2, <3>1, LocalStep DEF OthersStay
    <3> QED
      BY <3>2 DEF MetadataHeld, State
  <2> QED
    BY <2>1, <2>2
<1> QED
  BY <1>1, <1>2, <1>3, NextCases

\* An engine that is not shared by two callers gives each role the metadata of
\* the session it works on, through starts, resumes and other calls.
THEOREM MetadataCorrect ==
  ASSUME OwnEngine
  PROVE  Spec => []MetadataIsSessions
<1>1. Init => MetadataHeld
  BY IdleFormed DEF Init, MetadataHeld, Working, Reviewing
<1>2. Inv /\ MetadataHeld /\ [Next]_vars => MetadataHeld'
  BY MetadataNext
<1>3. MetadataHeld => MetadataIsSessions
  BY DEF MetadataHeld, MetadataIsSessions, Working, Reviewing
<1> QED
  BY <1>1, <1>2, <1>3, Invariance, PTL DEF Spec

\* The history only grows, and only what is acted upon is remembered.
LEMMA DeparturesGrow ==
  ASSUME Inv, NEW r \in Runners, CallOf(r), NEW s \in Sessions, NEW p \in Phases
  PROVE  /\ departures[s][p] \in Nat /\ departures'[s][p] \in Nat
         /\ departures'[s][p] >= departures[s][p]
         /\ ~Open(r) /\ ~ApplyDecision(r) => applied' = applied
         /\ ~ApplyDecision(r) => departures' = departures
<1>1. /\ RestTyped /\ Core /\ SessionOf[r] \in Sessions
      /\ departures[s][p] \in Nat
  BY InvParts, CallFacts DEF RestTyped
<1>2. CASE ApplyDecision(r)
  BY <1>1, <1>2 DEF ApplyDecision, RestTyped
<1>3. CASE ~ApplyDecision(r)
  <2>1. departures' = departures /\ (~Open(r) => applied' = applied)
    BY <1>3 DEF CallOf, Step, Open, Initialize, Start, Resume, ReturnTerminal,
       Execute, PublishFiles, PublishHandoff, AbandonWithoutHandoff,
       CommitIteration, StopForQuestion, Repeat, GiveUp, LeaveExecutor,
       AskHuman, InvokeReviewer, CommitReview, ConcludeReview, LockPack, Pause,
       Cancel, Interrupt, world
  <2> QED
    BY <1>1, <2>1
<1> QED
  BY <1>2, <1>3

LEMMA ActedOwn ==
  ASSUME Inv, ActedUpon, NEW r \in Runners, CallOf(r), ~At(r, "idle")',
         NEW p \in Phases, NEW n \in Nat, <<p, n>> \in applied'[EngineOf[r]]
  PROVE  departures'[SessionOf[r]][p] > 0
<1> DEFINE s == SessionOf[r]
<1>1. /\ Core /\ RestTyped /\ s \in Sessions /\ EngineOf[r] \in Engines
      /\ State(r) \in Session /\ PhaseOf(r) \in Phases
      /\ departures[s][p] \in Nat
      /\ departures'[s][p] >= departures[s][p]
      /\ departures'[s][p] \in Nat
  BY InvParts, CallFacts, EngineAssumption, DeparturesGrow
<1>2. run'[r] # Idle
  BY IdleFormed DEF At
<1>3. CASE Open(r)
  <2>1. applied'[EngineOf[r]] = {}
    BY <1>1, <1>3 DEF Open, RestTyped
  <2> QED
    BY <2>1
<1>4. CASE ApplyDecision(r)
  <2>1. State(r).status = "in_progress" /\ ~At(r, "idle")
    BY <1>1, <1>4, AtReview DEF ApplyDecision, At, Reviewing
  <2>2. Fresh(r) /\ store'[s].revision = State(r).revision + 1
    BY <1>1, <1>2, <1>4, <2>1, MovingOutcome, MoveOutcome DEF Moving
  <2>3. store' # store
    BY <1>1, <2>2 DEF Fresh, Session
  <2>4. departures'[s][PhaseOf(r)] = departures[s][PhaseOf(r)] + 1
    BY <1>1, <1>4, <2>3 DEF ApplyDecision, RestTyped
  <2>5. departures[s][PhaseOf(r)] \in Nat
    BY <1>1 DEF RestTyped
  <2>6. <<p, n>> \in applied[EngineOf[r]] \/ p = PhaseOf(r)
    BY <1>1, <1>4 DEF ApplyDecision, RestTyped
  <2>7. CASE p = PhaseOf(r)
    BY <2>4, <2>5, <2>7
  <2>8. CASE <<p, n>> \in applied[EngineOf[r]]
    BY <1>1, <2>1, <2>8 DEF ActedUpon
  <2> QED
    BY <2>6, <2>7, <2>8
<1>5. CASE ~Open(r) /\ ~ApplyDecision(r)
  <2>1. <<p, n>> \in applied[EngineOf[r]]
    BY <1>5, <1>1, DeparturesGrow
  <2>2. ~At(r, "idle")
    BY <1>5 DEF CallOf, Step, Initialize, Start, Resume, ReturnTerminal,
       Execute, PublishFiles, PublishHandoff, AbandonWithoutHandoff,
       CommitIteration, StopForQuestion, Repeat, GiveUp, LeaveExecutor,
       AskHuman, InvokeReviewer, CommitReview, ConcludeReview, LockPack, Pause,
       Cancel, Interrupt, Concluding, At
  <2> QED
    BY <1>1, <2>1, <2>2 DEF ActedUpon
<1> QED
  BY <1>3, <1>4, <1>5

LEMMA ActedNext ==
  ASSUME OwnEngine, Inv, ActedUpon, [Next]_vars
  PROVE  ActedUpon'
<1>1. CASE UNCHANGED vars
  BY <1>1 DEF vars, ActedUpon, At
<1>2. CASE \E s \in Sessions : Inject(s)
  BY <1>2 DEF Inject, world, ActedUpon, At
<1>3. ASSUME NEW r \in Runners, CallOf(r) PROVE ActedUpon'
  <2> SUFFICES ASSUME NEW q \in Runners, NEW p \in Phases, NEW n \in Nat,
                      ~At(q, "idle")', <<p, n>> \in applied'[EngineOf[q]]
               PROVE  departures'[SessionOf[q]][p] > 0
    BY DEF ActedUpon
  <2>1. CASE q = r
    BY <1>3, <2>1, ActedOwn
  <2>2. CASE q # r
    <3>1. /\ EngineOf[q] \in Engines \ {EngineOf[r]}
          /\ SessionOf[q] \in Sessions
      BY <2>2, EngineAssumption DEF OwnEngine
    <3>2. run'[q] = run[q] /\ applied'[EngineOf[q]] = applied[EngineOf[q]]
      BY <1>3, <2>2, <3>1, LocalStep DEF OthersStay
    <3>3. departures[SessionOf[q]][p] > 0
      BY <3>2 DEF ActedUpon, At
    <3> QED
      BY <1>3, <3>1, <3>3, DeparturesGrow
  <2> QED
    BY <2>1, <2>2
<1> QED
  BY <1>1, <1>2, <1>3, NextCases

\* An engine that is not shared never passes over a person's decision as already
\* acted upon unless the session was moved on by a decision on that phase.
THEOREM AppliedCorrect ==
  ASSUME OwnEngine
  PROVE  Spec => []AppliedMeansActed
<1>1. Init => ActedUpon
  BY IdleFormed DEF Init, ActedUpon, At
<1>2. Inv /\ ActedUpon /\ [Next]_vars => ActedUpon'
  BY ActedNext
<1>3. Inv /\ ActedUpon => AppliedMeansActed
  <2> SUFFICES ASSUME Inv, ActedUpon, NEW r \in Runners, At(r, "review"),
                      <<PhaseOf(r), CountOf(State(r).reviews, PhaseOf(r))>>
                        \in applied[EngineOf[r]]
               PROVE  departures[SessionOf[r]][PhaseOf(r)] > 0
    BY DEF AppliedMeansActed
  <2>1. /\ PhaseOf(r) \in Phases
        /\ State(r).reviews \in Seq(ReviewEntry)
        /\ ~At(r, "idle")
    BY InvParts, CallFacts DEF Session, At
  <2>2. CountOf(State(r).reviews, PhaseOf(r)) \in Nat
    BY <2>1, EntriesFinite
  <2> QED
    BY <2>1, <2>2 DEF ActedUpon
<1> QED
  BY <1>1, <1>2, <1>3, Invariance, PTL DEF Spec

-------------------------------------------------------------------------------
(***************************************************************************)
(* One caller for each session: its call holds the stored record but for   *)
(* the answers people may have put in the place of stubs meanwhile.        *)
(***************************************************************************)
Behind(held, stored) ==
  /\ held.status = stored.status
  /\ held.current_phase = stored.current_phase
  /\ held.phase_iterations = stored.phase_iterations
  /\ held.feedback_loops = stored.feedback_loops
  /\ DOMAIN held.reviews = DOMAIN stored.reviews
  /\ \A i \in DOMAIN held.reviews :
       held.reviews[i].phase_id = stored.reviews[i].phase_id

AllBehind ==
  \A r \in Runners :
     ~At(r, "idle") /\ ~At(r, "missing")
       => Behind(State(r), store[SessionOf[r]])

LEMMA BehindSelf == ASSUME NEW session PROVE Behind(session, session)
BY DEF Behind

\* After a step a call has ended, or holds what is stored, or holds what it held
\* while the record stays.
LEMMA HeldAfter ==
  ASSUME Inv, NEW r \in Runners, CallOf(r)
  PROVE  \/ run'[r].pc \in {"idle", "missing"}
         \/ run'[r].stored = store'[SessionOf[r]]
         \/ /\ UNCHANGED store
            /\ ~At(r, "idle") /\ ~At(r, "missing")
            /\ run'[r].stored = run[r].stored
<1>1. /\ Core /\ RestTyped /\ run[r] \in Call /\ Formed(run[r])
      /\ State(r) = run[r].stored /\ State(r) \in Session
      /\ SessionOf[r] \in Sessions
  BY InvParts, CallFacts
<1>2. CASE run'[r] = Idle
  BY <1>2, IdleFormed
<1>3. CASE Open(r)
  BY <1>1, <1>3 DEF Open, Continue, NextCall, Core, CallsTyped
<1>4. CASE Initialize(r)
  BY <1>1, <1>4, IdleFormed
  DEF Initialize, Continue, Leave, NextCall, Core, CallsTyped, StoreTyped
<1>5. CASE Start(r)
  <2> DEFINE state == [State(r) EXCEPT !.status = "in_progress",
                                       !.run_metadata = metadata[EngineOf[r]]]
  <2>1. state \in Session /\ state.status = "in_progress"
    BY <1>1, EngineAssumption DEF RestTyped, Session, Statuses
  <2>2. Save(r, state, Dispatch(state))
    BY <1>5 DEF Start
  <2> HIDE DEF state
  <2>3. Dispatch(state) \in Pcs
    BY DEF Dispatch, Pcs
  <2> QED
    BY <1>1, <1>2, <2>1, <2>2, <2>3, SaveOutcome
<1>6. CASE Resume(r) \/ Repeat(r)
  <2>1. /\ \E pc : run'[r] = NextCall(r, pc, State(r))
        /\ UNCHANGED store /\ ~At(r, "idle") /\ ~At(r, "missing")
    BY <1>1, <1>6 DEF Resume, Repeat, Continue, Concluding, At, Core, CallsTyped
  <2> QED
    BY <1>1, <2>1, IdleFormed DEF NextCall
<1>7. CASE Proceeding(r)
  BY <1>1, <1>2, <1>7, ProceedingOutcome DEF At
<1>8. CASE Committing(r)
  <2>1. PICK state \in Session, pc \in {"committed", "judged", "idle"} :
          Save(r, state, pc)
    BY <1>1, <1>8, CommittingOutcome
  <2> QED
    BY <1>1, <1>2, <2>1, SaveOutcome DEF Pcs
<1>9. CASE Moving(r)
  BY <1>1, <1>2, <1>9, MovingOutcome, MoveOutcome
<1>10. CASE Ending(r)
  BY <1>1, <1>2, <1>10, EndingOutcome
<1> QED
  BY <1>3, <1>4, <1>5, <1>6, <1>7, <1>8, <1>9, <1>10, CallCases

\* What a person's answer to a stub leaves of the record.
LEMMA InjectOutcome ==
  ASSUME Inv, AllKept, NEW s \in Sessions, Inject(s)
  PROVE  /\ UNCHANGED <<run, artifacts, pack, applied, metadata, interrupts,
                        departures>>
         /\ \A t \in Sessions \ {s} : store'[t] = store[t]
         /\ store[s].status = "in_progress"
         /\ Behind(store[s], store'[s])
         /\ \E i \in DOMAIN store[s].reviews :
              /\ store[s].reviews[i].decision = "PENDING"
              /\ store[s].reviews[i].phase_id \in Human
              /\ DOMAIN store'[s].reviews = DOMAIN store[s].reviews
              /\ store'[s].reviews[i].phase_id \in Human
              /\ \A j \in DOMAIN store[s].reviews \ {i} :
                   store'[s].reviews[j] = store[s].reviews[j]
<1>1. PICK i \in DOMAIN store[s].reviews, d \in HumanDecisions :
        /\ store[s].reviews[i].decision = "PENDING"
        /\ store' = [store EXCEPT
                       ![s] = Revised(WithAnswer(@, i, d.decision, d.target_phase))]
  BY DEF Inject
<1> DEFINE state == WithAnswer(store[s], i, d.decision, d.target_phase)
<1>2. /\ store \in [Sessions -> Session]
      /\ store[s] \in Session /\ WellKept(store[s])
      /\ d.decision \in Decisions /\ d.target_phase \in Choices
  BY InvParts, EngineAssumption DEF Core, StoreTyped, AllKept, HumanDecision
<1>3. /\ state \in Session
      /\ DOMAIN state.reviews = DOMAIN store[s].reviews
      /\ \A j \in DOMAIN store[s].reviews :
           /\ state.reviews[j].phase_id = store[s].reviews[j].phase_id
           /\ j # i => state.reviews[j] = store[s].reviews[j]
      /\ state.phase_iterations = store[s].phase_iterations
      /\ state.status = store[s].status
      /\ state.current_phase = store[s].current_phase
      /\ state.feedback_loops = store[s].feedback_loops
  BY <1>2, WithAnswerFacts
<1>4. /\ store'[s] = Revised(state)
      /\ \A t \in Sessions \ {s} : store'[t] = store[t]
  BY <1>1, <1>2
<1> HIDE DEF state
<1>5. Behind(store[s], store'[s]) /\ store'[s].reviews = state.reviews
  BY <1>3, <1>4, RevisedFacts DEF Behind
<1>6. store[s].reviews[i].phase_id \in Human
  BY <1>1, <1>2 DEF WellKept, StubsHuman
<1> QED
  BY <1>1, <1>3, <1>4, <1>5, <1>6 DEF Inject, world

LEMMA BehindNext ==
  ASSUME OneCaller, Inv, AllKept, AllBehind, [Next]_vars
  PROVE  AllBehind'
<1>1. CASE UNCHANGED vars
  BY <1>1 DEF vars, AllBehind, State, At
<1>2. ASSUME NEW s \in Sessions, Inject(s) PROVE AllBehind'
  <2> SUFFICES ASSUME NEW q \in Runners, ~At(q, "idle"), ~At(q, "missing")
               PROVE  Behind(State(q), store'[SessionOf[q]])
    BY <1>2 DEF AllBehind, Inject, State, At
  <2>1. Behind(State(q), store[SessionOf[q]]) /\ SessionOf[q] \in Sessions
    BY EngineAssumption DEF AllBehind
  <2>2. CASE SessionOf[q] = s
    BY <1>2, <2>1, <2>2, InjectOutcome DEF Behind
  <2>3. CASE SessionOf[q] # s
    BY <1>2, <2>1, <2>3, InjectOutcome
  <2> QED
    BY <2>2, <2>3
<1>3. ASSUME NEW r \in Runners, CallOf(r) PROVE AllBehind'
  <2> SUFFICES ASSUME NEW q \in Runners, run'[q].pc \notin {"idle", "missing"}
               PROVE  Behind(run'[q].stored, store'[SessionOf[q]])
    BY DEF AllBehind, State, At
  <2>1. CASE q = r
    BY <1>3, <2>1, HeldAfter, BehindSelf DEF AllBehind, State
  <2>2. CASE q # r
    <3>1. SessionOf[q] \in Sessions \ {SessionOf[r]}
      BY <2>2, EngineAssumption DEF OneCaller
    <3>2. run'[q] = run[q] /\ store'[SessionOf[q]] = store[SessionOf[q]]
      BY <1>3, <2>2, <3>1, LocalStep DEF OthersStay
    <3> QED
      BY <3>2 DEF AllBehind, State, At
  <2> QED
    BY <2>1, <2>2
<1> QED
  BY <1>1, <1>2, <1>3, NextCases

LEMMA CallerBehind ==
  ASSUME OneCaller
  PROVE  Spec => []AllBehind
<1>1. Init => AllBehind
  BY IdleFormed DEF Init, AllBehind, At
<1>2. Inv /\ AllKept /\ AllBehind /\ [Next]_vars => AllBehind'
  BY BehindNext
<1> QED
  BY <1>1, <1>2, Invariance, Kept, PTL DEF Spec

\* Only the pack of a completed session is locked.
LockedDone == \A s \in Sessions : pack[s].locked => store[s].status = "completed"

\* A session that is over is never written again: whoever could still save it
\* holds a record that is not over.
LEMMA OverStays ==
  ASSUME Inv, AllKept, [Next]_vars, NEW s \in Sessions,
         store[s].status \in Terminal
  PROVE  store'[s] = store[s]
<1>1. store[s].status \notin {"absent", "initialized", "in_progress"}
  BY DEF Terminal
<1>2. CASE UNCHANGED vars
  BY <1>2 DEF vars
<1>3. ASSUME NEW t \in Sessions, Inject(t) PROVE store'[s] = store[s]
  BY <1>1, <1>3, InjectOutcome
<1>4. ASSUME NEW r \in Runners, CallOf(r) PROVE store'[s] = store[s]
  <2>1. /\ Core /\ State(r) \in Session /\ RestTyped
        /\ ~At(r, "idle") /\ ~At(r, "missing") /\ Fresh(r)
             => State(r) = store[SessionOf[r]]
    BY InvParts, CallFacts DEF Core, SnapshotCurrent
  <2>2. CASE s # SessionOf[r]
    BY <1>4, <2>2, LocalStep DEF OthersStay
  <2>3. CASE s = SessionOf[r]
    <3>1. CASE Open(r) \/ Resume(r) \/ Repeat(r)
      BY <3>1 DEF Open, Resume, Repeat
    <3>2. CASE Initialize(r)
      BY <1>1, <2>3, <3>2 DEF Initialize
    <3>3. CASE Start(r)
      <4>1. \E state, pc : Save(r, state, pc)
        BY <3>3 DEF Start
      <4>2. ~At(r, "idle") /\ ~At(r, "missing") /\ State(r).status = "initialized"
        BY <3>3 DEF Start, At
      <4>3. ~Fresh(r)
        BY <1>1, <2>1, <2>3, <4>2
      <4> QED
        BY <4>1, <4>3 DEF Save
    <3>4. CASE Ending(r) \/ Proceeding(r)
      BY <2>1, <3>4, EndingOutcome, ProceedingOutcome
    <3>5. CASE Committing(r) \/ Moving(r)
      <4>1. /\ run[r].pc \in Working \cup Reviewing
            /\ \/ Moves(r)
               \/ \E state, pc : Save(r, state, pc)
        BY <2>1, <3>5, CommittingOutcome, MovingOutcome DEF Working, Reviewing
      <4>2. State(r).status = "in_progress" /\ ~At(r, "idle") /\ ~At(r, "missing")
        BY <2>1, <4>1, CallFacts DEF Formed, At, Working, Reviewing
      <4>3. ~Fresh(r)
        BY <1>1, <2>1, <2>3, <4>2
      <4> QED
        BY <4>1, <4>3 DEF Save, Moves, Route, Transition, Finalize
    <3> QED
      BY <1>4, <3>1, <3>2, <3>3, <3>4, <3>5, CallCases
  <2> QED
    BY <2>2, <2>3
<1> QED
  BY <1>2, <1>3, <1>4, NextCases

\* What a step of a call does to the pack of its session: nothing once the
\* session is over, but for the lock of a completed one.
LEMMA PackStep ==
  ASSUME Inv, AllBehind, NEW r \in Runners, CallOf(r)
  PROVE  LET s == SessionOf[r] IN
         \/ pack' = pack
         \/ store[s].status = "in_progress" /\ pack'[s].locked = pack[s].locked
         \/ /\ store[s].status = "completed" /\ pack'[s].locked
            /\ pack[s].locked => pack'[s] = pack[s]
<1>1. /\ Core /\ RestTyped /\ Formed(run[r]) /\ State(r) = run[r].stored
      /\ SessionOf[r] \in Sessions /\ pack[SessionOf[r]] \in Pack
  BY InvParts, CallFacts DEF RestTyped
<1>2. CASE PublishFiles(r) \/ PublishHandoff(r) \/ StopForQuestion(r)
  <2>1. run[r].pc \in {"produced", "filed", "committed"}
    BY <1>2 DEF PublishFiles, PublishHandoff, StopForQuestion, At
  <2>2. store[SessionOf[r]].status = "in_progress"
    BY <1>1, <2>1 DEF AllBehind, Behind, Formed, Working, At
  <2>3. pack'[SessionOf[r]].locked = pack[SessionOf[r]].locked
    BY <1>1, <1>2 DEF PublishFiles, PublishHandoff, StopForQuestion, RestTyped, Pack
  <2> QED
    BY <2>2, <2>3
<1>3. CASE LockPack(r)
  <2>1. store[SessionOf[r]].status = "completed"
    BY <1>1, <1>3 DEF LockPack, AllBehind, Behind, Formed, At
  <2>2. pack'[SessionOf[r]] = [pack[SessionOf[r]] EXCEPT !.locked = TRUE]
    BY <1>1, <1>3 DEF LockPack, RestTyped
  <2>3. pack[SessionOf[r]].locked \in BOOLEAN
    BY <1>1 DEF Pack
  <2>4. pack'[SessionOf[r]].locked
    BY <1>1, <2>2 DEF Pack
  <2>5. pack[SessionOf[r]].locked => pack'[SessionOf[r]] = pack[SessionOf[r]]
    BY <1>1, <2>2 DEF Pack
  <2> QED
    BY <2>1, <2>4, <2>5
<1>4. CASE ~(\/ PublishFiles(r) \/ PublishHandoff(r) \/ StopForQuestion(r)
             \/ LockPack(r))
  BY <1>1, <1>4, CommittingOutcome, MovingOutcome, CallCases
  DEF Ending, Proceeding, Open, Initialize, Start, Resume, Repeat,
      ReturnTerminal, Pause, Interrupt, Execute, InvokeReviewer, world
<1> QED
  BY <1>2, <1>3, <1>4

LEMMA LockedNext ==
  ASSUME OneCaller, Inv, AllKept, AllBehind, LockedDone, [Next]_vars
  PROVE  \A s \in Sessions :
           /\ pack[s].locked => pack'[s] = pack[s]
           /\ pack'[s].locked => store'[s].status = "completed"
<1> SUFFICES ASSUME NEW s \in Sessions
             PROVE  /\ pack[s].locked => pack'[s] = pack[s]
                    /\ pack'[s].locked => store'[s].status = "completed"
  OBVIOUS
<1>1. store[s].status = "completed" => store'[s] = store[s]
  BY OverStays DEF Terminal
<1>2. CASE pack'[s] = pack[s]
  BY <1>1, <1>2 DEF LockedDone
<1>3. CASE UNCHANGED vars \/ \E t \in Sessions : Inject(t)
  BY <1>2, <1>3 DEF vars, Inject, world
<1>4. ASSUME NEW r \in Runners, CallOf(r), pack'[s] # pack[s]
      PROVE  /\ pack[s].locked => pack'[s] = pack[s]
             /\ pack'[s].locked => store'[s].status = "completed"
  <2>1. s = SessionOf[r]
    BY <1>4, LocalStep DEF OthersStay
  <2>2. CASE /\ store[s].status = "in_progress"
             /\ pack'[s].locked = pack[s].locked
    BY <2>2 DEF LockedDone
  <2>3. CASE /\ store[s].status = "completed"
             /\ pack[s].locked => pack'[s] = pack[s]
    BY <1>1, <2>3
  <2> QED
    BY <1>4, <2>1, <2>2, <2>3, PackStep
<1> QED
  BY <1>2, <1>3, <1>4, NextCases

\* With one caller for each session, only the pack of a completed session is
\* ever locked, and nothing is written to it from then on: not by the call that
\* locks it, a retry of it, nor a run() on the session that is over.
THEOREM LockedPackCorrect ==
  ASSUME OneCaller
  PROVE  Spec => LockedPackFrozen
<1>1. Init => LockedDone
  BY DEF Init, LockedDone, EmptyPack
<1>2. Inv /\ AllKept /\ AllBehind /\ LockedDone /\ [Next]_vars =>
        /\ LockedDone'
        /\ [\A s \in Sessions :
              /\ pack[s].locked => pack'[s] = pack[s]
              /\ pack'[s].locked => store'[s].status = "completed"]_vars
  BY LockedNext DEF LockedDone
<1> QED
  BY <1>1, <1>2, Invariance, Kept, CallerBehind, PTL DEF Spec, LockedPackFrozen

\* The artifact of a result that is not committed yet is there under the name
\* the commit will refer to.
Ready(r) ==
  LET s == SessionOf[r]
      p == PhaseOf(r)
      result == run[r].result
  IN
  /\ run[r].pc \in {"produced", "filed", "published"} /\ result.handoff =>
       Contents(artifacts[s].handoffs, p,
                CountOf(State(r).phase_iterations, p) + 1)
         = {result.confidence_score}
  /\ At(r, "reviewed") =>
       Contents(artifacts[s].decisions, p, CountOf(State(r).reviews, p) + 1)
         = {result.decision}

ArtifactReady == \A r \in Runners : Ready(r)

\* Writing an artifact replaces what its name held, and that only.
LEMMA PutContents ==
  ASSUME NEW files, NEW p, NEW n, NEW content
  PROVE  /\ Contents(Put(files, p, n, content), p, n) = {content}
         /\ \A q, m : q # p \/ m # n =>
              Contents(Put(files, p, n, content), q, m) = Contents(files, q, m)
<1> DEFINE new == [phase_id |-> p, number |-> n, content |-> content]
<1>1. /\ new.phase_id = p /\ new.number = n /\ new.content = content
      /\ Put(files, p, n, content)
           = {f \in files : f.phase_id # p \/ f.number # n} \cup {new}
  BY DEF Put
<1> HIDE DEF new
<1> QED
  BY <1>1 DEF Contents

\* The numbers of the entries of a phase do not exceed their count.
LEMMA NumbersBelow ==
  ASSUME NEW session \in Session, WellKept(session)
  PROVE  /\ \A i \in DOMAIN session.phase_iterations :
              session.phase_iterations[i].iteration
                # CountOf(session.phase_iterations,
                          session.phase_iterations[i].phase_id) + 1
         /\ \A i \in DOMAIN session.reviews :
              session.reviews[i].review
                # CountOf(session.reviews, session.reviews[i].phase_id) + 1
<1>1. /\ session.phase_iterations \in Seq(IterationEntry)
      /\ session.reviews \in Seq(ReviewEntry)
  BY DEF Session
<1>2. ASSUME NEW i \in DOMAIN session.phase_iterations
      PROVE  session.phase_iterations[i].iteration
               # CountOf(session.phase_iterations,
                         session.phase_iterations[i].phase_id) + 1
  <2>1. /\ Ordinal(session.phase_iterations, i) \in Nat
        /\ Ordinal(session.phase_iterations, i)
             <= CountOf(session.phase_iterations,
                        session.phase_iterations[i].phase_id)
        /\ CountOf(session.phase_iterations,
                   session.phase_iterations[i].phase_id) \in Nat
    BY <1>1, OrdinalLast, EntriesFinite
  <2>2. session.phase_iterations[i].iteration
          = Ordinal(session.phase_iterations, i)
    BY DEF WellKept, Numbered
  <2> QED
    BY <2>1, <2>2
<1>3. ASSUME NEW i \in DOMAIN session.reviews
      PROVE  session.reviews[i].review
               # CountOf(session.reviews, session.reviews[i].phase_id) + 1
  <2>1. /\ Ordinal(session.reviews, i) \in Nat
        /\ Ordinal(session.reviews, i)
             <= CountOf(session.reviews, session.reviews[i].phase_id)
        /\ CountOf(session.reviews, session.reviews[i].phase_id) \in Nat
    BY <1>1, OrdinalLast, EntriesFinite
  <2>2. session.reviews[i].review = Ordinal(session.reviews, i)
    BY DEF WellKept, Numbered
  <2> QED
    BY <2>1, <2>2
<1> QED
  BY <1>2, <1>3

\* ArtifactsMatch, one session and one log at a time.
HandoffsMatch(session, files) ==
  \A i \in DOMAIN session.phase_iterations :
     LET it == session.phase_iterations[i] IN
     it.handoff =>
       Contents(files, it.phase_id, it.iteration) = {it.confidence_score}

DecisionsMatch(session, files) ==
  \A i \in DOMAIN session.reviews :
     LET rev == session.reviews[i] IN
     rev.phase_id \notin Human =>
       Contents(files, rev.phase_id, rev.review) = {rev.decision}

Matching(s) ==
  /\ HandoffsMatch(store[s], artifacts[s].handoffs)
  /\ DecisionsMatch(store[s], artifacts[s].decisions)

LEMMA MatchingIs == ArtifactsMatch <=> \A s \in Sessions : Matching(s)
<1> DEFINE Its(s) == {store[s].phase_iterations[i] : i \in DOMAIN store[s].phase_iterations}
           Revs(s) == {store[s].reviews[i] : i \in DOMAIN store[s].reviews}
           ItMatches(s, it) ==
             it.handoff => Contents(artifacts[s].handoffs, it.phase_id, it.iteration)
                             = {it.confidence_score}
           RevMatches(s, rev) ==
             rev.phase_id \notin Human =>
               Contents(artifacts[s].decisions, rev.phase_id, rev.review)
                 = {rev.decision}
<1>1. ArtifactsMatch <=> \A s \in Sessions : /\ \A it \in Its(s) : ItMatches(s, it)
                                             /\ \A rev \in Revs(s) : RevMatches(s, rev)
  BY DEF ArtifactsMatch
<1>2. \A s \in Sessions :
        Matching(s) <=>
          /\ \A i \in DOMAIN store[s].phase_iterations :
               ItMatches(s, store[s].phase_iterations[i])
          /\ \A i \in DOMAIN store[s].reviews : RevMatches(s, store[s].reviews[i])
  BY DEF Matching, HandoffsMatch, DecisionsMatch
<1> HIDE DEF ItMatches, RevMatches
<1>3. \A s \in Sessions :
        /\ (\A it \in Its(s) : ItMatches(s, it)) <=>
             \A i \in DOMAIN store[s].phase_iterations :
               ItMatches(s, store[s].phase_iterations[i])
        /\ (\A rev \in Revs(s) : RevMatches(s, rev)) <=>
             \A i \in DOMAIN store[s].reviews : RevMatches(s, store[s].reviews[i])
  OBVIOUS
<1> QED
  BY <1>1, <1>2, <1>3

\* The counts a call goes by are those of the stored record.
LEMMA CountsBehind ==
  ASSUME NEW held, NEW stored, Behind(held, stored), NEW p
  PROVE  /\ CountOf(held.phase_iterations, p) = CountOf(stored.phase_iterations, p)
         /\ CountOf(held.reviews, p) = CountOf(stored.reviews, p)
<1>1. EntriesOf(held.reviews, p) = EntriesOf(stored.reviews, p)
  BY DEF Behind, EntriesOf
<1> QED
  BY <1>1 DEF Behind, CountOf

\* A role's artifact goes where no committed entry looks.
LEMMA MatchPut ==
  ASSUME Inv, AllKept, AllBehind, NEW r \in Runners, Matching(SessionOf[r]),
         Execute(r) \/ InvokeReviewer(r)
  PROVE  Matching(SessionOf[r])'
<1> DEFINE s == SessionOf[r]
           p == PhaseOf(r)
           n == CountOf(State(r).phase_iterations, p) + 1
           m == CountOf(State(r).reviews, p) + 1
<1>1. /\ Core /\ RestTyped /\ s \in Sessions /\ store[s] \in Session
      /\ WellKept(store[s]) /\ UNCHANGED store
  BY InvParts, CallFacts DEF Core, StoreTyped, AllKept, Execute, InvokeReviewer
<1>2. Behind(State(r), store[s])
  BY DEF AllBehind, At, Execute, InvokeReviewer
<1>3. /\ n = CountOf(store[s].phase_iterations, p) + 1
      /\ m = CountOf(store[s].reviews, p) + 1
  BY <1>2, CountsBehind
<1>4. /\ artifacts \in [Sessions -> [handoffs : SUBSET Handoff,
                                     decisions : SUBSET Decision]]
      /\ artifacts[s] \in [handoffs : SUBSET Handoff, decisions : SUBSET Decision]
  BY <1>1 DEF RestTyped
<1>5. CASE artifacts' = artifacts
  BY <1>1, <1>5 DEF Matching, HandoffsMatch, DecisionsMatch
<1>6. CASE Execute(r) /\ artifacts' # artifacts
  <2>1. PICK result \in ExecutionResults :
          artifacts' = [artifacts EXCEPT ![s].handoffs =
                          Put(@, p, n, result.confidence_score)]
    BY <1>6 DEF Execute
  <2> HIDE DEF n, m, p, s
  <2>2. /\ artifacts'[s].handoffs
             = Put(artifacts[s].handoffs, p, n, result.confidence_score)
        /\ artifacts'[s].decisions = artifacts[s].decisions
    BY <1>1, <1>4, <2>1
  <2>3. HandoffsMatch(store[s], artifacts'[s].handoffs)
    BY <1>1, <1>3, <2>2, PutContents, NumbersBelow DEF Matching, HandoffsMatch, s
  <2> QED
    BY <1>1, <2>2, <2>3 DEF Matching, HandoffsMatch, DecisionsMatch, s
<1>7. CASE InvokeReviewer(r) /\ artifacts' # artifacts
  <2>1. PICK result \in ReviewResults :
          artifacts' = [artifacts EXCEPT ![s].decisions =
                          Put(@, p, m, result.decision)]
    BY <1>7 DEF InvokeReviewer
  <2> HIDE DEF n, m, p, s
  <2>2. /\ artifacts'[s].decisions
             = Put(artifacts[s].decisions, p, m, result.decision)
        /\ artifacts'[s].handoffs = artifacts[s].handoffs
    BY <1>1, <1>4, <2>1
  <2>3. DecisionsMatch(store[s], artifacts'[s].decisions)
    BY <1>1, <1>3, <2>2, PutContents, NumbersBelow DEF Matching, DecisionsMatch, s
  <2> QED
    BY <1>1, <2>2, <2>3 DEF Matching, HandoffsMatch, DecisionsMatch, s
<1> QED
  BY <1>5, <1>6, <1>7

\* The artifact of a commit is ready when its entry refers to it.
LEMMA MatchCommit ==
  ASSUME Inv, AllKept, AllBehind, ArtifactReady, NEW r \in Runners,
         Matching(SessionOf[r]), Committing(r)
  PROVE  Matching(SessionOf[r])'
<1> DEFINE s == SessionOf[r]
           p == PhaseOf(r)
<1>1. /\ Core /\ s \in Sessions /\ Formed(run[r]) /\ State(r) \in Session
      /\ UNCHANGED artifacts
      /\ State(r) = run[r].stored /\ p = State(r).current_phase
  BY InvParts, CallFacts, CommittingOutcome DEF world
<1>2. CASE UNCHANGED store
  BY <1>1, <1>2 DEF Matching, HandoffsMatch, DecisionsMatch
<1>3. CASE CommitIteration(r) /\ store' # store
  <2> DEFINE result == run[r].result
             state == WithIteration(State(r), result)
             e == NewIteration(State(r), result)
             log == State(r).phase_iterations
  <2>1. /\ run[r].pc = "published" /\ Save(r, state, "committed")
        /\ result.confidence_score \in Scores /\ result.handoff \in BOOLEAN
    BY <1>1, <1>3 DEF CommitIteration, At, Formed, Working, ExecutionResult
  <2>2. /\ e \in IterationEntry /\ e.phase_id = p
        /\ e.iteration = CountOf(log, p) + 1
        /\ e.confidence_score = result.confidence_score
        /\ e.handoff = result.handoff
        /\ state \in Session
        /\ state.phase_iterations = Append(log, e)
        /\ state.reviews = State(r).reviews
        /\ log \in Seq(IterationEntry)
    BY <1>1, <2>1, WithIterationFacts DEF NewIteration, Session
  <2>3. e.handoff => Contents(artifacts[s].handoffs, e.phase_id, e.iteration)
                       = {e.confidence_score}
    BY <2>1, <2>2 DEF ArtifactReady, Ready
  <2> HIDE DEF result, state, e, log, p, s
  <2>4. /\ store[s] = State(r)
        /\ store'[s].phase_iterations = Append(log, e)
        /\ store'[s].reviews = store[s].reviews
    <3>1. Fresh(r) /\ store'[s] = Revised(state)
      BY <1>1, <1>3, <2>1, <2>2, SaveOutcome DEF Pcs, s
    <3>2. store[s] = State(r)
      BY <1>1, <2>1, <3>1 DEF Core, SnapshotCurrent, At, s
    <3> QED
      BY <2>2, <3>1, <3>2, RevisedFacts
  <2>5. /\ DOMAIN log = 1..Len(log) /\ Len(log) \in Nat
        /\ DOMAIN Append(log, e) = 1..(Len(log) + 1)
        /\ \A i \in 1..Len(log) : Append(log, e)[i] = log[i]
        /\ Append(log, e)[Len(log) + 1] = e
    BY <2>2
  <2>6. log = store[s].phase_iterations
    BY <2>4 DEF log
  <2>7. HandoffsMatch(store'[s], artifacts[s].handoffs)
    <3> SUFFICES ASSUME NEW i \in DOMAIN Append(log, e), Append(log, e)[i].handoff
                 PROVE  Contents(artifacts[s].handoffs, Append(log, e)[i].phase_id,
                                 Append(log, e)[i].iteration)
                          = {Append(log, e)[i].confidence_score}
      BY <2>4 DEF HandoffsMatch
    <3>1. CASE i = Len(log) + 1
      BY <2>3, <2>5, <3>1
    <3>2. CASE i \in DOMAIN log
      BY <2>5, <2>6, <3>2 DEF Matching, HandoffsMatch, s
    <3> QED
      BY <2>5, <3>1, <3>2
  <2> QED
    BY <1>1, <2>4, <2>7 DEF Matching, DecisionsMatch, s
<1>4. CASE (CommitReview(r) \/ AskHuman(r)) /\ store' # store
  <2> DEFINE log == State(r).reviews
  <2>1. PICK state \in Session, e \in ReviewEntry, pc \in {"judged", "idle"} :
          /\ Save(r, state, pc)
          /\ run[r].pc \in {"review", "reviewed"}
          /\ state.phase_iterations = State(r).phase_iterations
          /\ state.reviews = Append(log, e)
          /\ e.phase_id \notin Human =>
               Contents(artifacts[s].decisions, e.phase_id, e.review) = {e.decision}
    <3>1. CASE CommitReview(r)
      <4> DEFINE result == run[r].result
                 state == WithDecision(State(r), result.decision, result.target_phase)
                 e == NewReview(State(r), result.decision, result.target_phase)
      <4>1. /\ run[r].pc = "reviewed" /\ Save(r, state, "judged")
            /\ result.decision \in Decisions /\ result.target_phase \in Choices
        BY <1>1, <3>1 DEF CommitReview, At, Formed, Reviewing, ReviewResult
      <4>2. e.review = CountOf(log, p) + 1
        BY <1>1 DEF NewReview
      <4> HIDE DEF result
      <4>3. /\ e \in ReviewEntry /\ e.phase_id = p /\ e.decision = result.decision
            /\ state \in Session /\ state.reviews = Append(log, e)
            /\ state.phase_iterations = State(r).phase_iterations
        BY <1>1, <4>1, WithDecisionFacts
      <4> HIDE DEF state, e
      <4>4. Contents(artifacts[s].decisions, e.phase_id, e.review) = {e.decision}
        BY <4>1, <4>2, <4>3 DEF ArtifactReady, Ready, At, result
      <4> QED
        BY <4>1, <4>3, <4>4
    <3>2. CASE AskHuman(r)
      <4> DEFINE state == WithReview(State(r), "PENDING", NoPhase)
                 e == NewReview(State(r), "PENDING", NoPhase)
      <4>1. /\ State(r) \in Session /\ NoPhase \in Choices
            /\ "PENDING" \in Decisions \cup {"PENDING"}
        BY <1>1 DEF Choices
      <4>2. e \in ReviewEntry /\ e.phase_id = State(r).current_phase
        BY <4>1, WithReviewFacts
      <4>3. /\ state \in Session /\ state.reviews = Append(log, e)
            /\ state.phase_iterations = State(r).phase_iterations
        BY <4>1, WithReviewFacts
      <4>4. Save(r, state, "idle") /\ run[r].pc = "review" /\ p \in Human
        BY <3>2 DEF AskHuman, At
      <4> HIDE DEF state, e
      <4> QED
        BY <1>1, <4>2, <4>3, <4>4
    <3> QED
      BY <1>4, <3>1, <3>2
  <2> HIDE DEF p, s
  <2>2. /\ store[s] = State(r)
        /\ store'[s].reviews = Append(log, e)
        /\ store'[s].phase_iterations = store[s].phase_iterations
    <3>1. Fresh(r) /\ store'[s] = Revised(state)
      BY <1>1, <1>4, <2>1, SaveOutcome DEF Pcs, s
    <3>2. store[s] = State(r)
      BY <1>1, <2>1, <3>1 DEF Core, SnapshotCurrent, At, s
    <3> QED
      BY <2>1, <3>1, <3>2, RevisedFacts
  <2>3. log \in Seq(ReviewEntry) /\ log = store[s].reviews
    BY <1>1, <2>2 DEF Session
  <2> HIDE DEF log
  <2>4. /\ DOMAIN log = 1..Len(log) /\ Len(log) \in Nat
        /\ DOMAIN Append(log, e) = 1..(Len(log) + 1)
        /\ \A i \in 1..Len(log) : Append(log, e)[i] = log[i]
        /\ Append(log, e)[Len(log) + 1] = e
    BY <2>3
  <2>5. DecisionsMatch(store'[s], artifacts[s].decisions)
    <3> SUFFICES ASSUME NEW i \in DOMAIN Append(log, e),
                        Append(log, e)[i].phase_id \notin Human
                 PROVE  Contents(artifacts[s].decisions, Append(log, e)[i].phase_id,
                                 Append(log, e)[i].review)
                          = {Append(log, e)[i].decision}
      BY <2>2 DEF DecisionsMatch
    <3>1. CASE i = Len(log) + 1
      BY <2>1, <2>4, <3>1
    <3>2. CASE i \in DOMAIN log
      BY <2>3, <2>4, <3>2 DEF Matching, DecisionsMatch, s
    <3> QED
      BY <2>4, <3>1, <3>2
  <2> QED
    BY <1>1, <2>2, <2>5 DEF Matching, HandoffsMatch, s
<1> QED
  BY <1>2, <1>3, <1>4 DEF Committing

\* Any other step of a call leaves both logs and the artifacts alone.
LEMMA MatchRest ==
  ASSUME Inv, NEW r \in Runners, CallOf(r), Matching(SessionOf[r]),
         ~Execute(r), ~InvokeReviewer(r), ~Committing(r)
  PROVE  Matching(SessionOf[r])'
<1> DEFINE s == SessionOf[r]
<1>1. /\ Core /\ RestTyped /\ s \in Sessions /\ State(r) \in Session
      /\ store[s] \in Session
  BY InvParts, CallFacts DEF Core, StoreTyped
<1>2. artifacts' = artifacts
  BY <1>1, CallCases, MovingOutcome, EndingOutcome
  DEF Open, Initialize, Start, Resume, Repeat, Proceeding, PublishFiles,
      PublishHandoff, world
<1>3. /\ store'[s].phase_iterations = store[s].phase_iterations
      /\ store'[s].reviews = store[s].reviews
  <2>1. CASE UNCHANGED store
    BY <2>1
  <2>2. CASE Initialize(r)
    BY <1>1, <2>2, AbsentType
    DEF Initialize, Core, StoreTyped, AbsentBare
  <2>3. CASE Start(r) /\ Fresh(r)
    <3> DEFINE state == [State(r) EXCEPT !.status = "in_progress",
                                         !.run_metadata = metadata[EngineOf[r]]]
    <3>1. /\ state \in Session /\ state.reviews = State(r).reviews
          /\ state.phase_iterations = State(r).phase_iterations
      BY <1>1, EngineAssumption DEF RestTyped, Session, Statuses
    <3>2. store' = [store EXCEPT ![s] = Revised(state)]
      BY <2>3 DEF Start, Save
    <3>3. store[s] = State(r)
      BY <1>1, <2>3 DEF Start, Core, SnapshotCurrent, At
    <3> HIDE DEF state
    <3> QED
      BY <1>1, <3>1, <3>2, <3>3, RevisedFacts DEF Core, StoreTyped
  <2>4. CASE Moving(r) /\ store' # store
    <3>1. Fresh(r) /\ SameLogs(State(r), store'[s]) /\ ~At(r, "idle") /\ ~At(r, "missing")
      BY <1>1, <2>4, MovingOutcome, MoveOutcome DEF At
    <3>2. store[s] = State(r)
      BY <1>1, <3>1 DEF Core, SnapshotCurrent
    <3> QED
      BY <3>1, <3>2 DEF SameLogs
  <2>5. Start(r) /\ ~Fresh(r) => UNCHANGED store
    BY DEF Start, Save
  <2> QED
    BY <1>1, <2>1, <2>2, <2>3, <2>4, <2>5, CallCases, EndingOutcome,
       ProceedingOutcome DEF Open, Resume, Repeat
<1> QED
  BY <1>2, <1>3 DEF Matching, HandoffsMatch, DecisionsMatch

\* What a role hands over is filed before the call goes on to commit it.
LEMMA ReadyOwn ==
  ASSUME Inv, ArtifactReady, NEW r \in Runners, CallOf(r)
  PROVE  Ready(r)'
<1> DEFINE s == SessionOf[r]
<1>1. /\ Core /\ RestTyped /\ s \in Sessions /\ run[r] \in Call
      /\ run \in [Runners -> Call]
      /\ State(r) = run[r].stored /\ PhaseOf(r) = State(r).current_phase
      /\ artifacts \in [Sessions -> [handoffs : SUBSET Handoff,
                                     decisions : SUBSET Decision]]
      /\ artifacts[s] \in [handoffs : SUBSET Handoff, decisions : SUBSET Decision]
  BY InvParts, CallFacts DEF Core, CallsTyped, RestTyped
<1>2. CASE run'[r].pc \notin {"produced", "filed", "published", "reviewed"}
  BY <1>2 DEF Ready, At
<1>3. CASE Execute(r)
  <2> DEFINE p == PhaseOf(r)
             n == CountOf(State(r).phase_iterations, p) + 1
  <2>1. PICK result \in ExecutionResults :
          /\ artifacts' =
               IF result.handoff
               THEN [artifacts EXCEPT ![s].handoffs =
                       Put(@, p, n, result.confidence_score)]
               ELSE artifacts
          /\ run' = [run EXCEPT
                       ![r].pc = IF HasPack[s] THEN "produced" ELSE "published",
                       ![r].result = result,
                       ![r].previous = PreviousDecision(State(r).reviews, p)]
    BY <1>3 DEF Execute
  <2>2. /\ run'[r].pc \in {"produced", "published"}
        /\ run'[r].result = result /\ run'[r].stored = run[r].stored
    BY <1>1, <2>1 DEF Call
  <2> HIDE DEF n, s
  <2>3. result.handoff =>
          artifacts'[s].handoffs
            = Put(artifacts[s].handoffs, p, n, result.confidence_score)
    BY <1>1, <2>1
  <2>4. result.handoff =>
          Contents(artifacts'[s].handoffs, p, n) = {result.confidence_score}
    BY <2>3, PutContents
  <2> QED
    BY <1>1, <2>2, <2>4 DEF n, s, Ready, State, PhaseOf, At
<1>4. CASE PublishFiles(r) \/ PublishHandoff(r)
  <2>1. /\ run[r].pc \in {"produced", "filed"} /\ UNCHANGED artifacts
        /\ run'[r].pc \in {"filed", "published"}
        /\ run'[r].result = run[r].result /\ run'[r].stored = run[r].stored
    BY <1>1, <1>4 DEF PublishFiles, PublishHandoff, At, Call
  <2> QED
    BY <1>1, <2>1 DEF ArtifactReady, Ready, At, State, PhaseOf
<1>5. CASE InvokeReviewer(r) /\ run'[r].pc \in {"produced", "filed", "published", "reviewed"}
  <2> DEFINE p == PhaseOf(r)
             n == CountOf(State(r).reviews, p) + 1
  <2>1. run'[r] # Idle
    BY <1>5, IdleFormed
  <2>2. PICK result \in ReviewResults :
          /\ artifacts' = [artifacts EXCEPT ![s].decisions =
                             Put(@, p, n, result.decision)]
          /\ run' = [run EXCEPT ![r].pc = "reviewed", ![r].result = result]
    BY <1>1, <1>5, <2>1 DEF InvokeReviewer, Leave
  <2>3. /\ run'[r].pc = "reviewed"
        /\ run'[r].result = result /\ run'[r].stored = run[r].stored
    BY <1>1, <2>2 DEF Call
  <2> HIDE DEF n, s
  <2>4. artifacts'[s].decisions = Put(artifacts[s].decisions, p, n, result.decision)
    BY <1>1, <2>2
  <2>5. Contents(artifacts'[s].decisions, p, n) = {result.decision}
    BY <2>4, PutContents
  <2> QED
    BY <1>1, <2>3, <2>5 DEF n, s, Ready, State, PhaseOf, At
<1>6. CASE Open(r) \/ Initialize(r)
  <2>1. run'[r] = Idle \/ run'[r].pc \in {"missing", "opened"}
    BY <1>1, <1>6 DEF Open, Initialize, Leave, Continue, NextCall
  <2> QED
    BY <1>2, <2>1, IdleFormed
<1>7. CASE Start(r) \/ Resume(r) \/ Repeat(r)
  <2>1. \/ run'[r] = Idle
        \/ \E state : \E pc \in {"idle", "work", "review"} :
             run'[r] = NextCall(r, pc, state)
    BY <1>1, <1>7 DEF Start, Save, Resume, Repeat, Continue, Leave, Dispatch
  <2>2. \A state : \A pc \in {"idle", "work", "review"} :
          NextCall(r, pc, state).pc \in {"idle", "work", "review"}
    BY IdleFormed DEF NextCall
  <2>3. run'[r].pc \in {"idle", "work", "review"}
    BY <2>1, <2>2, IdleFormed
  <2> QED
    BY <1>2, <2>3
<1>8. CASE Ending(r)
  BY <1>1, <1>2, <1>8, EndingOutcome, IdleFormed
<1>9. CASE Committing(r)
  <2>1. PICK state \in Session, pc \in {"committed", "judged", "idle"} :
          Save(r, state, pc)
    BY <1>1, <1>9, CommittingOutcome
  <2>2. run'[r].pc \in {"idle", pc}
    BY <1>1, <2>1, SaveOutcome, IdleFormed DEF Pcs
  <2> QED
    BY <1>2, <2>2
<1>10. CASE Moving(r)
  BY <1>1, <1>2, <1>10, MovingOutcome, MoveOutcome, IdleFormed
<1> QED
  BY <1>2, <1>3, <1>4, <1>5, <1>6, <1>7, <1>8, <1>9, <1>10, CallCases DEF Proceeding

LEMMA MatchNext ==
  ASSUME OneCaller, Inv, AllKept, AllBehind, ArtifactReady,
         \A s \in Sessions : Matching(s), [Next]_vars
  PROVE  ArtifactReady' /\ \A s \in Sessions : Matching(s)'
<1>1. CASE UNCHANGED vars
  BY <1>1 DEF vars, ArtifactReady, Ready, Matching, HandoffsMatch, DecisionsMatch, At,
     State, PhaseOf
<1>2. ASSUME NEW t \in Sessions, Inject(t)
      PROVE  ArtifactReady' /\ \A s \in Sessions : Matching(s)'
  <2>1. ArtifactReady'
    BY <1>2, InjectOutcome DEF ArtifactReady, Ready, At, State, PhaseOf
  <2>2. ASSUME NEW s \in Sessions PROVE Matching(s)'
    <3>1. artifacts' = artifacts /\ Matching(s)
      BY <1>2, InjectOutcome
    <3>2. CASE s # t
      <4>1. store'[s] = store[s]
        BY <1>2, <3>2, InjectOutcome
      <4> QED
        BY <3>1, <4>1 DEF Matching, HandoffsMatch, DecisionsMatch
    <3>3. CASE s = t
      <4>1. PICK i \in DOMAIN store[s].reviews :
              /\ store[s].reviews[i].phase_id \in Human
              /\ \A j \in DOMAIN store[s].reviews \ {i} :
                   store'[s].reviews[j] = store[s].reviews[j]
        BY <1>2, <3>3, InjectOutcome
      <4>2. Behind(store[s], store'[s])
        BY <1>2, <3>3, InjectOutcome
      <4>3. HandoffsMatch(store'[s], artifacts[s].handoffs)
        BY <3>1, <4>2 DEF Behind, Matching, HandoffsMatch
      <4>4. DecisionsMatch(store'[s], artifacts[s].decisions)
        BY <3>1, <4>1, <4>2 DEF Behind, Matching, DecisionsMatch
      <4> QED
        BY <3>1, <4>3, <4>4 DEF Matching
    <3> QED
      BY <3>2, <3>3
  <2> QED
    BY <2>1, <2>2
<1>3. ASSUME NEW r \in Runners, CallOf(r)
      PROVE  ArtifactReady' /\ \A s \in Sessions : Matching(s)'
  <2>1. ArtifactReady'
    <3> SUFFICES ASSUME NEW q \in Runners PROVE Ready(q)'
      BY DEF ArtifactReady
    <3>1. CASE q = r
      BY <1>3, <3>1, ReadyOwn
    <3>2. CASE q # r
      <4>1. SessionOf[q] \in Sessions \ {SessionOf[r]}
        BY <3>2, EngineAssumption DEF OneCaller
      <4>2. /\ run'[q] = run[q]
            /\ artifacts'[SessionOf[q]] = artifacts[SessionOf[q]]
        BY <1>3, <3>2, <4>1, LocalStep DEF OthersStay
      <4> QED
        BY <4>2 DEF ArtifactReady, Ready, At, State, PhaseOf
    <3> QED
      BY <3>1, <3>2
  <2>2. ASSUME NEW s \in Sessions PROVE Matching(s)'
    <3>1. CASE s = SessionOf[r]
      BY <1>3, <3>1, MatchPut, MatchCommit, MatchRest
    <3>2. CASE s # SessionOf[r]
      <4>1. store'[s] = store[s] /\ artifacts'[s] = artifacts[s]
        BY <1>3, <3>2, LocalStep DEF OthersStay
      <4> QED
        BY <4>1 DEF Matching, HandoffsMatch, DecisionsMatch
    <3> QED
      BY <3>1, <3>2
  <2> QED
    BY <2>1, <2>2
<1> QED
  BY <1>1, <1>2, <1>3, NextCases

\* With one caller for each session, a committed entry refers to an artifact
\* that was saved before it and holds just what the entry reports, whatever
\* crashes, retries and answers fall between the two writes.
THEOREM ArtifactsCorrect ==
  ASSUME OneCaller
  PROVE  Spec => []ArtifactsMatch
<1> DEFINE Match == ArtifactReady /\ \A s \in Sessions : Matching(s)
<1>1. Init => Match
  <2> SUFFICES ASSUME Init PROVE Match
    OBVIOUS
  <2>1. ArtifactReady
    BY IdleFormed DEF Init, ArtifactReady, Ready, At
  <2>2. \A s \in Sessions : DOMAIN store[s].phase_iterations = {}
                            /\ DOMAIN store[s].reviews = {}
    BY AbsentType DEF Init
  <2> QED
    BY <2>1, <2>2 DEF Matching, HandoffsMatch, DecisionsMatch
<1>2. Inv /\ AllKept /\ AllBehind /\ Match /\ [Next]_vars => Match'
  BY MatchNext
<1>3. Match => ArtifactsMatch
  BY MatchingIs
<1> HIDE DEF Match
<1> QED
  BY <1>1, <1>2, <1>3, Invariance, Kept, CallerBehind, PTL DEF Spec

\* The pack holds the handoff of the last iteration of the finalize phase.
HandedOff(s) ==
  \A i \in EntriesOf(store[s].phase_iterations, FinalizePhase) :
     (\A j \in EntriesOf(store[s].phase_iterations, FinalizePhase) : j <= i)
       => pack[s].handoff = store[s].phase_iterations[i].confidence_score

\* It does so wherever the finalize phase is not at work, and within the phase
\* once its iteration is committed.
Follows(s) ==
  /\ \A i \in DOMAIN store[s].phase_iterations :
       store[s].phase_iterations[i].phase_id \in Executors
  /\ HasPack[s] /\ (\/ store[s].current_phase # FinalizePhase
                    \/ store[s].status = "completed")
       => HandedOff(s)

AtHand(r) ==
  /\ At(r, "filed") => NeedsHandoff(r)
  /\ At(r, "published") /\ NeedsHandoff(r)
       => pack[SessionOf[r]].handoff = run[r].result.confidence_score
  /\ At(r, "committed") /\ NeedsHandoff(r) => HandedOff(SessionOf[r])

PackFollows == (\A s \in Sessions : Follows(s)) /\ (\A r \in Runners : AtHand(r))

\* Being handed off is a matter of the iterations and of the pack's handoff.
LEMMA FollowsSame ==
  ASSUME NEW s \in Sessions,
         store'[s].phase_iterations = store[s].phase_iterations,
         pack'[s].handoff = pack[s].handoff
  PROVE  /\ HandedOff(s) => HandedOff(s)'
         /\ (\A i \in DOMAIN store[s].phase_iterations :
               store[s].phase_iterations[i].phase_id \in Executors)
              => \A i \in DOMAIN store'[s].phase_iterations :
                   store'[s].phase_iterations[i].phase_id \in Executors
BY DEF HandedOff

\* Where no iteration can be, none is missing from the pack.
LEMMA NothingToHandOff ==
  ASSUME NEW s \in Sessions, Follows(s), FinalizePhase \notin Executors
  PROVE  HandedOff(s)
BY DEF Follows, HandedOff, EntriesOf

LEMMA FollowsCommit ==
  ASSUME Inv, AllBehind, PackFollows, NEW r \in Runners, CommitIteration(r)
  PROVE  Follows(SessionOf[r])' /\ AtHand(r)'
<1> DEFINE s == SessionOf[r]
           p == PhaseOf(r)
           result == run[r].result
           state == WithIteration(State(r), result)
           e == NewIteration(State(r), result)
           log == State(r).phase_iterations
<1>1. /\ Core /\ s \in Sessions /\ Formed(run[r]) /\ State(r) \in Session
      /\ State(r) = run[r].stored /\ p = State(r).current_phase
      /\ Follows(s) /\ AtHand(r) /\ UNCHANGED pack
  BY InvParts, CallFacts DEF PackFollows, CommitIteration, world
<1>2. /\ run[r].pc = "published" /\ Save(r, state, "committed")
      /\ State(r).status = "in_progress" /\ p \in Executors
      /\ result.confidence_score \in Scores /\ result.handoff \in BOOLEAN
  BY <1>1 DEF CommitIteration, At, Formed, Working, ExecutionResult
<1>3. /\ e \in IterationEntry /\ e.phase_id = p
      /\ e.confidence_score = result.confidence_score
      /\ state \in Session /\ state.phase_iterations = Append(log, e)
      /\ state.current_phase = p /\ state.status = "in_progress"
      /\ log \in Seq(IterationEntry)
  BY <1>1, <1>2, WithIterationFacts DEF Session
<1> HIDE DEF result, state, e, log, p, s
<1>4. CASE run'[r] = Idle /\ UNCHANGED store
  <2>1. Follows(s)'
    BY <1>1, <1>4 DEF Follows, HandedOff
  <2>2. AtHand(r)'
    BY <1>4, IdleFormed DEF AtHand, At
  <2> QED
    BY <2>1, <2>2 DEF s
<1>5. CASE /\ Fresh(r)
           /\ store'[s] = Revised(state)
           /\ run'[r].pc = "committed" /\ run'[r].stored = Revised(state)
  <2>1. log = store[s].phase_iterations /\ store[s].current_phase = p
    <3>1. store[s] = State(r)
      BY <1>1, <1>2, <1>5 DEF Core, SnapshotCurrent, At, s
    <3> QED
      BY <1>1, <3>1 DEF log
  <2>2. /\ store'[s].phase_iterations = Append(log, e)
        /\ store'[s].current_phase = p /\ store'[s].status = "in_progress"
        /\ PhaseOf(r)' = p
    BY <1>3, <1>5, RevisedFacts DEF PhaseOf, State
  <2>3. /\ DOMAIN log = 1..Len(log) /\ Len(log) \in Nat
        /\ DOMAIN Append(log, e) = 1..(Len(log) + 1)
        /\ \A i \in 1..Len(log) : Append(log, e)[i] = log[i]
        /\ Append(log, e)[Len(log) + 1] = e
    BY <1>3
  <2>4. \A i \in DOMAIN Append(log, e) : Append(log, e)[i].phase_id \in Executors
    BY <1>1, <1>2, <1>3, <2>1, <2>3 DEF Follows
  <2>5. EntriesOf(Append(log, e), FinalizePhase) =
          IF p = FinalizePhase THEN EntriesOf(log, FinalizePhase) \cup {Len(log) + 1}
          ELSE EntriesOf(log, FinalizePhase)
    BY <1>3, EntriesAppend
  <2>6. EntriesOf(log, FinalizePhase) \subseteq 1..Len(log)
    BY <1>3, EntriesFinite
  <2>7. CASE p # FinalizePhase
    <3>1. HandedOff(s) => HandedOff(s)'
      BY <1>1, <2>1, <2>2, <2>3, <2>5, <2>6, <2>7 DEF HandedOff
    <3> QED
      BY <1>1, <1>5, <2>1, <2>2, <2>4, <2>7, <3>1
      DEF Follows, AtHand, NeedsHandoff, At, s
  <2>8. CASE p = FinalizePhase
    <3>1. HasPack[s] => pack[s].handoff = e.confidence_score
      BY <1>1, <1>2, <1>3, <2>8 DEF AtHand, NeedsHandoff, At, p, s, result
    <3>2. HasPack[s] => HandedOff(s)'
      <4> SUFFICES ASSUME HasPack[s],
                          NEW i \in EntriesOf(Append(log, e), FinalizePhase),
                          \A j \in EntriesOf(Append(log, e), FinalizePhase) : j <= i
                   PROVE  pack[s].handoff = Append(log, e)[i].confidence_score
        BY <1>1, <2>2 DEF HandedOff
      <4>1. i = Len(log) + 1
        BY <2>3, <2>5, <2>6, <2>8
      <4> QED
        BY <2>3, <3>1, <4>1
    <3> QED
      BY <1>5, <2>2, <2>4, <2>8, <3>2 DEF Follows, AtHand, NeedsHandoff, At, s
  <2> QED
    BY <2>7, <2>8
<1> QED
  BY <1>1, <1>2, <1>3, <1>4, <1>5, SaveOutcome DEF Pcs, s

\* A session leaves its finalize phase, or is completed in it, only with the last
\* iteration handed off: the ends that need no handoff abandon it.
LEMMA FollowsMove ==
  ASSUME Inv, AllBehind, PackFollows, NEW r \in Runners, Moving(r)
  PROVE  Follows(SessionOf[r])' /\ AtHand(r)'
<1> DEFINE s == SessionOf[r]
<1>1. /\ Core /\ s \in Sessions /\ Formed(run[r])
      /\ State(r) = run[r].stored /\ PhaseOf(r) = State(r).current_phase
      /\ Follows(s) /\ AtHand(r) /\ UNCHANGED pack
      /\ run[r].pc \in {"work", "filed", "committed", "review", "judged"}
      /\ State(r).status = "in_progress" /\ Moves(r)
  BY InvParts, CallFacts, MovingOutcome DEF PackFollows
<1>2. AtHand(r)'
  <2>1. run'[r] = Idle \/ run'[r].pc \in {"work", "review", "lock"}
    BY <1>1, MoveOutcome
  <2> QED
    BY <2>1, IdleFormed DEF AtHand, At
<1>3. CASE UNCHANGED store
  BY <1>1, <1>2, <1>3 DEF Follows, HandedOff
<1>4. CASE store' # store
  <2>1. /\ Fresh(r) /\ SameLogs(State(r), store'[s])
        /\ \/ store'[s].status = "in_progress"
           \/ /\ store'[s].status \in Terminal
              /\ store'[s].current_phase = PhaseOf(r)
    BY <1>1, <1>4, MoveOutcome
  <2>2. store[s] = State(r)
    BY <1>1, <2>1 DEF Core, SnapshotCurrent, At
  <2>3. store'[s].phase_iterations = store[s].phase_iterations
    BY <2>1, <2>2 DEF SameLogs
  <2>4. /\ HandedOff(s) => HandedOff(s)'
        /\ \A i \in DOMAIN store'[s].phase_iterations :
             store'[s].phase_iterations[i].phase_id \in Executors
    BY <1>1, <2>3, FollowsSame DEF Follows
  <2>5. ASSUME HasPack[s],
               \/ store'[s].current_phase # FinalizePhase
               \/ store'[s].status = "completed"
        PROVE  HandedOff(s)
    <3>1. CASE PhaseOf(r) # FinalizePhase
      BY <1>1, <2>2, <2>5, <3>1 DEF Follows
    <3>2. CASE FinalizePhase \notin Executors
      BY <1>1, <3>2, NothingToHandOff
    <3>3. CASE PhaseOf(r) = FinalizePhase /\ run[r].pc \in {"review", "judged"}
      <4>1. FinalizePhase \notin Executors
        BY <1>1, <3>3 DEF Formed, Reviewing, Reviews
      <4> QED
        BY <1>1, <4>1, NothingToHandOff
    <3>4. CASE PhaseOf(r) = FinalizePhase /\ run[r].pc = "committed"
      BY <1>1, <2>5, <3>4 DEF AtHand, At, NeedsHandoff
    <3>5. CASE PhaseOf(r) = FinalizePhase /\ run[r].pc \in {"work", "filed"}
      <4>1. Finalize(r, "abandoned")
        BY <3>5 DEF Moving, AbandonWithoutHandoff, GiveUp, LeaveExecutor,
           ApplyDecision, ConcludeReview, Cancel, Concluding, At
      <4>2. /\ store'[s].status = "abandoned"
            /\ store'[s].current_phase = PhaseOf(r)
        BY <1>1, <1>4, <4>1, EndOutcome DEF Terminal
      <4> QED
        BY <2>5, <3>5, <4>2
    <3> QED
      BY <1>1, <3>1, <3>3, <3>4, <3>5
  <2> QED
    BY <1>2, <2>4, <2>5 DEF Follows
<1> QED
  BY <1>3, <1>4

LEMMA FollowsRest ==
  ASSUME Inv, AllBehind, PackFollows, NEW r \in Runners, CallOf(r),
         ~CommitIteration(r), ~Moving(r)
  PROVE  Follows(SessionOf[r])' /\ AtHand(r)'
<1> DEFINE s == SessionOf[r]
<1>1. /\ Core /\ RestTyped /\ s \in Sessions /\ Formed(run[r])
      /\ run[r] \in Call /\ run \in [Runners -> Call] /\ store[s] \in Session
      /\ State(r) = run[r].stored /\ PhaseOf(r) = State(r).current_phase
      /\ State(r) \in Session
      /\ Follows(s) /\ AtHand(r) /\ pack[s] \in Pack
  BY InvParts, CallFacts DEF PackFollows, Core, CallsTyped, StoreTyped, RestTyped
<1>2. CASE PublishHandoff(r)
  <2>1. /\ run[r].pc = "filed" /\ UNCHANGED store
        /\ run'[r].pc = "published"
        /\ run'[r].result = run[r].result
        /\ pack'[s].handoff = run[r].result.confidence_score
    BY <1>1, <1>2 DEF PublishHandoff, At, Call, RestTyped, Pack
  <2>2. /\ store[s].current_phase = FinalizePhase
        /\ store[s].status = "in_progress"
    BY <1>1, <2>1 DEF AtHand, NeedsHandoff, At, AllBehind, Behind, Formed, Working
  <2> QED
    BY <1>1, <2>1, <2>2 DEF Follows, AtHand, At
<1>3. CASE PublishFiles(r)
  <2>1. /\ UNCHANGED store /\ run'[r].stored = run[r].stored
        /\ run'[r].pc = IF NeedsHandoff(r) THEN "filed" ELSE "published"
        /\ pack'[s].handoff = pack[s].handoff
    BY <1>1, <1>3 DEF PublishFiles, RestTyped, Pack, Call
  <2>2. NeedsHandoff(r)' <=> NeedsHandoff(r)
    BY <2>1 DEF NeedsHandoff, PhaseOf, State
  <2>3. Follows(s)'
    BY <1>1, <2>1, FollowsSame DEF Follows
  <2>4. AtHand(r)'
    BY <2>1, <2>2 DEF AtHand, At
  <2> QED
    BY <2>3, <2>4
<1>4. CASE Execute(r)
  <2>1. /\ UNCHANGED <<store, pack>>
        /\ run'[r].pc = IF HasPack[s] THEN "produced" ELSE "published"
    BY <1>1, <1>4 DEF Execute, Call
  <2>2. Follows(s)'
    BY <1>1, <2>1 DEF Follows, HandedOff
  <2>3. AtHand(r)'
    BY <2>1 DEF AtHand, At, NeedsHandoff
  <2> QED
    BY <2>2, <2>3
<1>5. CASE \/ Open(r) \/ Initialize(r) \/ Start(r) \/ Resume(r) \/ Repeat(r)
           \/ Ending(r) \/ InvokeReviewer(r) \/ AskHuman(r) \/ CommitReview(r)
  <2>1. AtHand(r)'
    <3>1. run'[r].pc \notin {"filed", "published", "committed"}
      <4>1. CASE Open(r) \/ Initialize(r)
        <5>1. run'[r] = Idle \/ run'[r].pc \in {"missing", "opened"}
          BY <1>1, <4>1 DEF Open, Initialize, Leave, Continue, NextCall
        <5> QED
          BY <5>1, IdleFormed
      <4>2. CASE Start(r) \/ Resume(r) \/ Repeat(r)
        <5>1. \/ run'[r] = Idle
              \/ \E state : \E pc \in {"idle", "work", "review"} :
                   run'[r] = NextCall(r, pc, state)
          BY <1>1, <4>2 DEF Start, Save, Resume, Repeat, Continue, Leave, Dispatch
        <5>2. \A state : \A pc \in {"idle", "work", "review"} :
                NextCall(r, pc, state).pc \in {"idle", "work", "review"}
          BY IdleFormed DEF NextCall
        <5> QED
          BY <5>1, <5>2, IdleFormed
      <4>3. CASE Ending(r)
        BY <1>1, <4>3, EndingOutcome, IdleFormed
      <4>4. CASE InvokeReviewer(r)
        BY <1>1, <4>4, IdleFormed DEF InvokeReviewer, Leave, Call
      <4>5. CASE AskHuman(r) \/ CommitReview(r)
        <5>1. \/ run'[r] = Idle
              \/ \E state : \E pc \in {"idle", "judged"} :
                   run'[r] = NextCall(r, pc, state)
          BY <1>1, <4>5 DEF AskHuman, CommitReview, Save, Continue, Leave
        <5>2. \A state : \A pc \in {"idle", "judged"} :
                NextCall(r, pc, state).pc \in {"idle", "judged"}
          BY IdleFormed DEF NextCall
        <5> QED
          BY <5>1, <5>2, IdleFormed
      <4> QED
        BY <1>5, <4>1, <4>2, <4>3, <4>4, <4>5
    <3> QED
      BY <3>1 DEF AtHand, At
  <2>2. pack'[s].handoff = pack[s].handoff
    BY <1>1, <1>5
    DEF Open, Initialize, Start, Resume, Repeat, Ending, ReturnTerminal,
        StopForQuestion, LockPack, Pause, Interrupt, InvokeReviewer, AskHuman,
        CommitReview, world, RestTyped, Pack
  <2>3. /\ store'[s].phase_iterations = store[s].phase_iterations
        /\ store'[s].current_phase = store[s].current_phase
        /\ store'[s].status \in {store[s].status, "initialized", "in_progress"}
    <3>1. CASE UNCHANGED store
      BY <3>1
    <3>2. CASE Initialize(r)
      BY <1>1, <3>2, AbsentType
      DEF Initialize, Core, StoreTyped, AbsentBare, Absent, Initialized
    <3>3. CASE Start(r) \/ AskHuman(r) \/ CommitReview(r)
      <4>1. PICK state \in Session, pc \in Pcs :
              /\ Save(r, state, pc)
              /\ state.phase_iterations = State(r).phase_iterations
              /\ state.current_phase = State(r).current_phase
              /\ state.status \in {State(r).status, "in_progress"}
        <5>1. CASE Start(r)
          <6> DEFINE state == [State(r) EXCEPT
                                 !.status = "in_progress",
                                 !.run_metadata = metadata[EngineOf[r]]]
          <6>1. /\ state \in Session /\ state.status = "in_progress"
                /\ state.phase_iterations = State(r).phase_iterations
                /\ state.current_phase = State(r).current_phase
            BY <1>1, EngineAssumption DEF RestTyped, Session, Statuses
          <6>2. Save(r, state, Dispatch(state)) /\ Dispatch(state) \in Pcs
            BY <5>1 DEF Start, Dispatch, Pcs
          <6> HIDE DEF state
          <6> QED
            BY <6>1, <6>2
        <5>2. CASE AskHuman(r)
          <6> DEFINE state == WithReview(State(r), "PENDING", NoPhase)
          <6>1. State(r) \in Session /\ NoPhase \in Choices
            BY <1>1 DEF Choices
          <6>2. /\ state \in Session /\ state.status = State(r).status
                /\ state.phase_iterations = State(r).phase_iterations
                /\ state.current_phase = State(r).current_phase
            BY <6>1, WithReviewFacts
          <6>3. Save(r, state, "idle")
            BY <5>2 DEF AskHuman
          <6> HIDE DEF state
          <6> QED
            BY <6>2, <6>3 DEF Pcs
        <5>3. CASE CommitReview(r)
          <6> DEFINE result == run[r].result
                     state == WithDecision(State(r), result.decision,
                                           result.target_phase)
          <6>1. /\ Save(r, state, "judged")
                /\ result.decision \in Decisions /\ result.target_phase \in Choices
            BY <1>1, <5>3 DEF CommitReview, At, Formed, Reviewing, ReviewResult
          <6> HIDE DEF result
          <6>2. /\ state \in Session /\ state.status = State(r).status
                /\ state.phase_iterations = State(r).phase_iterations
                /\ state.current_phase = State(r).current_phase
            BY <1>1, <6>1, WithDecisionFacts
          <6> HIDE DEF state
          <6> QED
            BY <6>1, <6>2 DEF Pcs
        <5> QED
          BY <3>3, <5>1, <5>2, <5>3
      <4>2. CASE UNCHANGED store
        BY <3>1, <4>2
      <4>3. CASE Fresh(r) /\ store'[s] = Revised(state)
        <5>1. store[s] = State(r)
          BY <1>1, <3>3, <4>3
          DEF Core, SnapshotCurrent, At, Start, AskHuman, CommitReview
        <5> QED
          BY <4>1, <4>3, <5>1, RevisedFacts
      <4> QED
        BY <1>1, <4>1, <4>2, <4>3, SaveOutcome
    <3> QED
      BY <1>1, <1>5, <3>1, <3>2, <3>3, EndingOutcome
      DEF Open, Resume, Repeat, InvokeReviewer
  <2>4. Follows(s)'
    BY <1>1, <2>2, <2>3, FollowsSame DEF Follows
  <2> QED
    BY <2>1, <2>4
<1> QED
  BY <1>2, <1>3, <1>4, <1>5, CallCases DEF Proceeding, Committing

LEMMA FollowsNext ==
  ASSUME OneCaller, Inv, AllKept, AllBehind, PackFollows, [Next]_vars
  PROVE  PackFollows'
<1>1. CASE UNCHANGED vars
  BY <1>1
  DEF vars, PackFollows, Follows, HandedOff, AtHand, NeedsHandoff, At, State, PhaseOf
<1>2. ASSUME NEW t \in Sessions, Inject(t) PROVE PackFollows'
  <2>1. UNCHANGED <<run, pack>>
    BY <1>2, InjectOutcome
  <2>2. \A s \in Sessions :
          /\ store'[s].phase_iterations = store[s].phase_iterations
          /\ store'[s].current_phase = store[s].current_phase
          /\ store'[s].status = store[s].status
    BY <1>2, InjectOutcome DEF Behind
  <2>3. \A s \in Sessions : HandedOff(s) => HandedOff(s)'
    BY <2>1, <2>2, FollowsSame
  <2>4. \A s \in Sessions : Follows(s)'
    BY <2>2, <2>3 DEF PackFollows, Follows
  <2>5. \A q \in Runners : AtHand(q)'
    BY <2>1, <2>3, EngineAssumption
    DEF PackFollows, AtHand, NeedsHandoff, At, State, PhaseOf
  <2> QED
    BY <2>4, <2>5 DEF PackFollows
<1>3. ASSUME NEW r \in Runners, CallOf(r) PROVE PackFollows'
  <2>1. Follows(SessionOf[r])' /\ AtHand(r)'
    BY <1>3, FollowsCommit, FollowsMove, FollowsRest
  <2>2. ASSUME NEW s \in Sessions \ {SessionOf[r]}
        PROVE  Follows(s)' /\ (HandedOff(s) => HandedOff(s)')
    <3>1. store'[s] = store[s] /\ pack'[s] = pack[s]
      BY <1>3, LocalStep DEF OthersStay
    <3>2. HandedOff(s) => HandedOff(s)'
      BY <3>1, FollowsSame
    <3> QED
      BY <3>1, <3>2 DEF PackFollows, Follows
  <2>3. ASSUME NEW q \in Runners, q # r PROVE AtHand(q)'
    <3>1. SessionOf[q] \in Sessions \ {SessionOf[r]}
      BY <2>3, EngineAssumption DEF OneCaller
    <3>2. run'[q] = run[q] /\ pack'[SessionOf[q]] = pack[SessionOf[q]]
      BY <1>3, <2>3, <3>1, LocalStep DEF OthersStay
    <3> QED
      BY <2>2, <3>1, <3>2 DEF PackFollows, AtHand, NeedsHandoff, At, State, PhaseOf
  <2> QED
    BY <2>1, <2>2, <2>3 DEF PackFollows
<1> QED
  BY <1>1, <1>2, <1>3, NextCases

\* With one caller for each session, a completed discovery that went through its
\* finalize phase has in its pack the handoff of the last iteration committed
\* there, not that of an earlier one or of one a crash left uncommitted.
THEOREM HandoffCorrect ==
  ASSUME OneCaller
  PROVE  Spec => []CompletedPackHandsOff
<1>1. Init => PackFollows
  <2> SUFFICES ASSUME Init PROVE PackFollows
    OBVIOUS
  <2>1. \A s \in Sessions : store[s].phase_iterations = <<>>
    BY AbsentType DEF Init
  <2>2. \A s \in Sessions : Follows(s)
    BY <2>1 DEF Follows, HandedOff, EntriesOf
  <2>3. \A r \in Runners : AtHand(r)
    BY IdleFormed DEF Init, AtHand, At
  <2> QED
    BY <2>2, <2>3 DEF PackFollows
<1>2. Inv /\ AllKept /\ AllBehind /\ PackFollows /\ [Next]_vars => PackFollows'
  BY FollowsNext
<1>3. PackFollows => CompletedPackHandsOff
  BY DEF PackFollows, Follows, HandedOff, CompletedPackHandsOff
<1> QED
  BY <1>1, <1>2, <1>3, Invariance, Kept, CallerBehind, PTL DEF Spec

-------------------------------------------------------------------------------
(***************************************************************************)
(* The cap on feedback, in a workflow without people: a call then holds    *)
(* the stored record, and a session that is not over stays below the cap   *)
(* of some review phase, but for the send-back it is just being judged by. *)
(***************************************************************************)
AllFresh ==
  \A r \in Runners :
     ~At(r, "idle") /\ ~At(r, "missing") => State(r) = store[SessionOf[r]]

Judging(s) ==
  \E r \in Runners : /\ SessionOf[r] = s
                     /\ At(r, "judged")
                     /\ run[r].result.decision = "REQUEST_CHANGES"

Within(s) == \E p \in Reviews : store[s].feedback_loops <= CapOf(p) + interrupts
Below(s) == \E p \in Reviews : store[s].feedback_loops < CapOf(p) + interrupts

BelowCap ==
  \A s \in Sessions :
     /\ Within(s)
     /\ store[s].status \notin Terminal /\ ~Judging(s) => Below(s)

LEMMA FreshNext ==
  ASSUME OneCaller, Human = {}, Inv, AllKept, AllFresh, [Next]_vars
  PROVE  AllFresh'
<1>1. CASE UNCHANGED vars
  BY <1>1 DEF vars, AllFresh, State, At
<1>2. CASE \E s \in Sessions : Inject(s)
  BY <1>2, InjectOutcome
<1>3. ASSUME NEW r \in Runners, CallOf(r) PROVE AllFresh'
  <2> SUFFICES ASSUME NEW q \in Runners, run'[q].pc \notin {"idle", "missing"}
               PROVE  run'[q].stored = store'[SessionOf[q]]
    BY DEF AllFresh, State, At
  <2>1. CASE q = r
    BY <1>3, <2>1, HeldAfter DEF AllFresh, State
  <2>2. CASE q # r
    <3>1. SessionOf[q] \in Sessions \ {SessionOf[r]}
      BY <2>2, EngineAssumption DEF OneCaller
    <3>2. run'[q] = run[q] /\ store'[SessionOf[q]] = store[SessionOf[q]]
      BY <1>3, <2>2, <3>1, LocalStep DEF OthersStay
    <3> QED
      BY <3>2 DEF AllFresh, State, At
  <2> QED
    BY <2>1, <2>2
<1> QED
  BY <1>1, <1>2, <1>3, NextCases

LEMMA CapNat ==
  ASSUME NEW p \in Reviews
  PROVE  CapOf(p) \in Nat
BY EngineAssumption DEF CapOf, Reviews

\* The interruptions are only ever counted up, and once for each that ends a
\* call or its session.
LEMMA InterruptsGrow ==
  ASSUME Inv, NEW r \in Runners, CallOf(r)
  PROVE  /\ interrupts \in Nat /\ interrupts' \in Nat
         /\ interrupts <= interrupts'
         /\ Pause(r) \/ Cancel(r) \/ Interrupt(r) => interrupts' = interrupts + 1
<1>1. interrupts \in Nat
  BY InvParts, EngineAssumption DEF RestTyped
<1>2. CASE Pause(r) \/ Cancel(r) \/ Interrupt(r)
  BY <1>1, <1>2 DEF Pause, Cancel, Interrupt, MayInterrupt
<1>3. CASE ~(Pause(r) \/ Cancel(r) \/ Interrupt(r))
  <2>1. interrupts' = interrupts
    BY <1>3 DEF CallOf, Step, Open, Initialize, Start, Resume, ReturnTerminal,
       Execute, PublishFiles, PublishHandoff, AbandonWithoutHandoff,
       CommitIteration, StopForQuestion, Repeat, GiveUp, LeaveExecutor,
       ApplyDecision, AskHuman, InvokeReviewer, CommitReview, ConcludeReview,
       LockPack, world
  <2> QED
    BY <1>1, <1>3, <2>1
<1> QED
  BY <1>2, <1>3

\* Only the commit of a reviewer's decision counts a feedback loop.
LEMMA LoopsStay ==
  ASSUME Inv, AllFresh, NEW r \in Runners, CallOf(r), ~CommitReview(r)
  PROVE  store'[SessionOf[r]].feedback_loops = store[SessionOf[r]].feedback_loops
<1>1. /\ Core /\ RestTyped /\ Formed(run[r]) /\ State(r) = run[r].stored
      /\ State(r) \in Session /\ SessionOf[r] \in Sessions
      /\ ~At(r, "idle") /\ ~At(r, "missing") => State(r) = store[SessionOf[r]]
  BY InvParts, CallFacts DEF AllFresh
<1>2. CASE Open(r) \/ Resume(r) \/ Repeat(r) \/ Ending(r) \/ Proceeding(r)
  BY <1>1, <1>2, EndingOutcome, ProceedingOutcome DEF Open, Resume, Repeat
<1>3. CASE Initialize(r)
  BY <1>1, <1>3 DEF Initialize, Core, StoreTyped, AbsentBare, Initialized, Absent
<1>4. ASSUME NEW state \in Session, NEW pc \in Pcs, Save(r, state, pc),
             state.feedback_loops = State(r).feedback_loops,
             State(r) = store[SessionOf[r]]
      PROVE  store'[SessionOf[r]].feedback_loops
               = store[SessionOf[r]].feedback_loops
  BY <1>1, <1>4, SaveOutcome, RevisedFacts
<1>5. CASE Start(r)
  <2> DEFINE state == [State(r) EXCEPT !.status = "in_progress",
                                       !.run_metadata = metadata[EngineOf[r]]]
  <2>1. /\ state \in Session /\ state.status = "in_progress"
        /\ state.feedback_loops = State(r).feedback_loops
    BY <1>1, EngineAssumption DEF RestTyped, Session, Statuses
  <2>2. Save(r, state, Dispatch(state)) /\ ~At(r, "idle") /\ ~At(r, "missing")
    BY <1>5 DEF Start, At
  <2> HIDE DEF state
  <2>3. Dispatch(state) \in Pcs
    BY DEF Dispatch, Pcs
  <2> QED
    BY <1>1, <1>4, <2>1, <2>2, <2>3
<1>6. CASE CommitIteration(r)
  <2>1. /\ run[r].result.confidence_score \in Scores
        /\ run[r].result.handoff \in BOOLEAN
        /\ ~At(r, "idle") /\ ~At(r, "missing")
    BY <1>1, <1>6 DEF CommitIteration, At, Formed, Working, ExecutionResult
  <2> QED
    BY <1>1, <1>4, <1>6, <2>1, WithIterationFacts DEF CommitIteration, Pcs
<1>7. CASE AskHuman(r)
  <2> DEFINE state == WithReview(State(r), "PENDING", NoPhase)
  <2>1. State(r) \in Session /\ NoPhase \in Choices
    BY <1>1 DEF Choices
  <2>2. state \in Session /\ state.feedback_loops = State(r).feedback_loops
    BY <2>1, WithReviewFacts
  <2>3. Save(r, state, "idle") /\ ~At(r, "idle") /\ ~At(r, "missing")
    BY <1>7 DEF AskHuman, At
  <2> HIDE DEF state
  <2> QED
    BY <1>1, <1>4, <2>2, <2>3 DEF Pcs
<1>8. CASE Moving(r)
  BY <1>1, <1>8, MovingOutcome, MoveOutcome DEF SameLogs, At
<1> QED
  BY <1>2, <1>3, <1>5, <1>6, <1>7, <1>8, CallCases DEF Committing

\* The reviewer's decision is committed by a call that is alone on a session in
\* progress: a send-back brings the session to the cap at most.
LEMMA BelowCommit ==
  ASSUME OneCaller, Inv, AllFresh, BelowCap, NEW r \in Runners, CommitReview(r)
  PROVE  LET s == SessionOf[r] IN
         /\ Within(s)'
         /\ ~Judging(s)' => Below(s)'
<1> DEFINE s == SessionOf[r]
           result == run[r].result
           state == WithDecision(State(r), result.decision, result.target_phase)
<1>1. /\ Core /\ RestTyped /\ Formed(run[r]) /\ State(r) = run[r].stored
      /\ State(r) \in Session /\ s \in Sessions
      /\ At(r, "reviewed") /\ Save(r, state, "judged") /\ UNCHANGED interrupts
  BY InvParts, CallFacts DEF CommitReview, world
<1>2. State(r) = store[s] /\ Fresh(r) /\ State(r).status = "in_progress"
  BY <1>1 DEF AllFresh, At, Fresh, Formed, Reviewing
<1>3. Below(s)
  <2>1. store[s].status \notin Terminal
    BY <1>2 DEF Terminal
  <2>2. ~Judging(s)
    BY <1>1 DEF Judging, OneCaller, At
  <2> QED
    BY <1>1, <2>1, <2>2 DEF BelowCap
<1>4. /\ result.decision \in Decisions /\ result.target_phase \in Choices
      /\ State(r).feedback_loops \in Nat
  BY <1>1 DEF At, Formed, Reviewing, ReviewResult, Session
<1>5. /\ state \in Session
      /\ state.feedback_loops = IF result.decision = "REQUEST_CHANGES"
                                THEN State(r).feedback_loops + 1
                                ELSE State(r).feedback_loops
  BY <1>1, <1>4, WithDecisionFacts
<1> HIDE DEF state
<1>6. /\ store'[s].feedback_loops = state.feedback_loops
      /\ run'[r].pc = "judged" /\ run'[r].result = result
  BY <1>1, <1>2, <1>5, SaveOutcome, RevisedFacts DEF Pcs
<1>7. interrupts \in Nat /\ store[s].feedback_loops \in Nat
  BY <1>1, <1>2, <1>4, EngineAssumption DEF RestTyped
<1>8. PICK p \in Reviews : store[s].feedback_loops < CapOf(p) + interrupts
  BY <1>3 DEF Below
<1>9. CapOf(p) \in Nat /\ CapOf(p)' = CapOf(p)
  BY CapNat DEF CapOf
<1>10. Within(s)'
  <2>1. store'[s].feedback_loops <= CapOf(p) + interrupts'
    BY <1>1, <1>2, <1>5, <1>6, <1>7, <1>8, <1>9
  <2> QED
    BY <2>1, <1>9 DEF Within
<1>11. ASSUME ~Judging(s)' PROVE Below(s)'
  <2>1. result.decision # "REQUEST_CHANGES"
    BY <1>1, <1>6, <1>11 DEF Judging, At
  <2>2. store'[s].feedback_loops < CapOf(p) + interrupts'
    BY <1>1, <1>2, <1>5, <1>6, <1>8, <2>1
  <2> QED
    BY <2>2, <1>9 DEF Below
<1> QED
  BY <1>10, <1>11

\* With the count of feedback loops as it was, a session that was below the cap
\* is, and one that is interrupted has one more to spare.
LEMMA LoopsSame ==
  ASSUME Inv, NEW r \in Runners, CallOf(r), NEW s \in Sessions,
         store'[s].feedback_loops = store[s].feedback_loops
  PROVE  /\ Within(s) => Within(s)'
         /\ Below(s) => Below(s)'
         /\ Within(s) /\ (Pause(r) \/ Cancel(r) \/ Interrupt(r)) => Below(s)'
<1>1. /\ interrupts \in Nat /\ interrupts' \in Nat /\ interrupts <= interrupts'
      /\ Pause(r) \/ Cancel(r) \/ Interrupt(r) => interrupts' = interrupts + 1
  BY InterruptsGrow
<1>2. store[s].feedback_loops \in Nat
  BY InvParts DEF Core, StoreTyped, Session
<1>3. \A p \in Reviews : CapOf(p) \in Nat /\ CapOf(p)' = CapOf(p)
  BY CapNat DEF CapOf
<1> QED
  BY <1>1, <1>2, <1>3 DEF Within, Below

\* A judged send-back that is at the cap of its phase ends the session, and one
\* that is not leaves it below.
LEMMA BelowConclude ==
  ASSUME Inv, AllFresh, BelowCap, NEW r \in Runners, ConcludeReview(r),
         run[r].result.decision = "REQUEST_CHANGES"
  PROVE  \/ store'[SessionOf[r]].status \in Terminal
         \/ Below(SessionOf[r])'
<1> DEFINE s == SessionOf[r]
<1>1. /\ Core /\ RestTyped /\ Formed(run[r]) /\ State(r) = run[r].stored
      /\ State(r) \in Session /\ s \in Sessions /\ At(r, "judged")
      /\ PhaseOf(r) = State(r).current_phase
  BY InvParts, CallFacts DEF ConcludeReview
<1>2. /\ State(r) = store[s] /\ Fresh(r) /\ PhaseOf(r) \in Reviews
      /\ State(r).feedback_loops \in Nat
  BY <1>1 DEF AllFresh, At, Fresh, Formed, Reviewing, Session
<1>3. interrupts \in Nat /\ interrupts' = interrupts
  BY <1>1, EngineAssumption DEF RestTyped, ConcludeReview, world
<1>4. CASE CapReached(r) /\ Finalize(r, "abandoned")
  <2> DEFINE state == [State(r) EXCEPT !.status = "abandoned"]
  <2>1. state \in Session /\ state.status = "abandoned"
    BY <1>1 DEF Session, Statuses, Terminal
  <2>2. Save(r, state, "idle")
    BY <1>4 DEF Finalize
  <2> HIDE DEF state
  <2>3. store'[s].status = "abandoned"
    BY <1>1, <1>2, <2>1, <2>2, SaveOutcome, RevisedFacts DEF Pcs
  <2> QED
    BY <2>3 DEF Terminal
<1>5. CASE ~CapReached(r)
  <2>1. CallOf(r) /\ ~CommitReview(r)
    BY <1>1 DEF CallOf, Step, CommitReview, At
  <2>2. store'[s].feedback_loops = store[s].feedback_loops
    BY <2>1, LoopsStay
  <2>3. CapOf(PhaseOf(r)) \in Nat /\ State(r).feedback_loops < CapOf(PhaseOf(r))
    BY <1>2, <1>5, CapNat DEF CapReached
  <2>4. store'[s].feedback_loops < CapOf(PhaseOf(r)) + interrupts'
    BY <1>2, <1>3, <2>2, <2>3
  <2>5. PICK p \in Reviews : store'[s].feedback_loops < CapOf(p) + interrupts'
    BY <1>2, <2>4
  <2>6. CapOf(p)' = CapOf(p)
    BY DEF CapOf
  <2> QED
    BY <2>5, <2>6 DEF Below
<1> QED
  BY <1>4, <1>5 DEF ConcludeReview

LEMMA BelowOwn ==
  ASSUME OneCaller, Inv, AllKept, AllFresh, BelowCap, [Next]_vars,
         NEW r \in Runners, CallOf(r)
  PROVE  LET s == SessionOf[r] IN
         /\ Within(s)'
         /\ store'[s].status \notin Terminal /\ ~Judging(s)' => Below(s)'
<1> DEFINE s == SessionOf[r]
<1>1. s \in Sessions
  BY EngineAssumption
<1>2. CASE CommitReview(r)
  BY <1>2, BelowCommit
<1>3. CASE ~CommitReview(r)
  <2>1. store'[s].feedback_loops = store[s].feedback_loops
    BY <1>3, LoopsStay
  <2>2. Within(s) /\ Within(s)'
    BY <1>1, <2>1, LoopsSame DEF BelowCap
  <2>3. ASSUME store'[s].status \notin Terminal, ~Judging(s)', Judging(s)
        PROVE  Below(s)'
    <3>1. At(r, "judged") /\ run[r].result.decision = "REQUEST_CHANGES"
      BY <2>3 DEF Judging, OneCaller
    <3>2. Pause(r) \/ Cancel(r) \/ Interrupt(r) \/ ConcludeReview(r)
      BY <3>1 DEF CallOf, Step, Open, Initialize, Start, Resume, ReturnTerminal,
         Execute, PublishFiles, PublishHandoff, AbandonWithoutHandoff,
         CommitIteration, StopForQuestion, Repeat, GiveUp, LeaveExecutor,
         Concluding, ApplyDecision, AskHuman, InvokeReviewer, CommitReview,
         LockPack, At
    <3>3. CASE ConcludeReview(r)
      BY <2>3, <3>1, <3>3, BelowConclude
    <3> QED
      BY <1>1, <2>1, <2>2, <3>2, <3>3, LoopsSame
  <2>4. ASSUME store'[s].status \notin Terminal, ~Judging(s) PROVE Below(s)'
    <3>1. store[s].status \notin Terminal
      BY <1>1, <2>4, OverStays
    <3> QED
      BY <1>1, <2>1, <2>4, <3>1, LoopsSame DEF BelowCap
  <2> QED
    BY <2>2, <2>3, <2>4
<1> QED
  BY <1>2, <1>3

LEMMA BelowNext ==
  ASSUME OneCaller, Human = {}, Inv, AllKept, AllFresh, BelowCap, [Next]_vars
  PROVE  BelowCap'
<1>1. CASE UNCHANGED vars
  <2>1. \A s \in Sessions :
          /\ Within(s)' <=> Within(s)
          /\ Below(s)' <=> Below(s)
          /\ Judging(s)' <=> Judging(s)
    BY <1>1 DEF vars, Within, Below, Judging, At, CapOf
  <2>2. store' = store
    BY <1>1 DEF vars
  <2> QED
    BY <2>1, <2>2 DEF BelowCap
<1>2. CASE \E s \in Sessions : Inject(s)
  BY <1>2, InjectOutcome
<1>3. ASSUME NEW r \in Runners, CallOf(r) PROVE BelowCap'
  <2> SUFFICES ASSUME NEW s \in Sessions
               PROVE  /\ Within(s)'
                      /\ store'[s].status \notin Terminal /\ ~Judging(s)' => Below(s)'
    BY DEF BelowCap
  <2>1. CASE s = SessionOf[r]
    BY <1>3, <2>1, BelowOwn
  <2>2. CASE s # SessionOf[r]
    <3>1. /\ store'[s] = store[s]
          /\ \A q \in Runners \ {r} : run'[q] = run[q]
      BY <1>3, <2>2, LocalStep DEF OthersStay
    <3>2. Judging(s)' <=> Judging(s)
      BY <2>2, <3>1 DEF Judging, At
    <3> QED
      BY <1>3, <3>1, <3>2, LoopsSame DEF BelowCap
  <2> QED
    BY <2>1, <2>2
<1> QED
  BY <1>1, <1>2, <1>3, NextCases

\* In a workflow without people, whose review phases may each send back at
\* least once, one caller for each session keeps its send-backs within the cap
\* of a review phase, but for one more with each interruption: whichever phase
\* counts them, across resumes and returns to earlier phases.
THEOREM FeedbackCapCorrect ==
  ASSUME OneCaller, Human = {}, Reviews # {}, \A p \in Reviews : CapOf(p) >= 1
  PROVE  Spec => []FeedbackCapped
<1>1. Init => AllFresh
  BY IdleFormed DEF Init, AllFresh, At
<1>2. Init => BelowCap
  <2> SUFFICES ASSUME Init, NEW s \in Sessions PROVE Within(s) /\ Below(s)
    BY DEF BelowCap
  <2>1. PICK p \in Reviews : CapOf(p) >= 1 /\ CapOf(p) \in Nat
    BY CapNat
  <2>2. store[s].feedback_loops = 0 /\ interrupts = 0
    BY DEF Init, Absent
  <2>3. store[s].feedback_loops < CapOf(p) + interrupts
    BY <2>1, <2>2
  <2>4. store[s].feedback_loops <= CapOf(p) + interrupts
    BY <2>1, <2>2
  <2> QED
    BY <2>3, <2>4 DEF Within, Below
<1>3. Inv /\ AllKept /\ AllFresh /\ [Next]_vars => AllFresh'
  BY FreshNext
<1>4. Inv /\ AllKept /\ AllFresh /\ BelowCap /\ [Next]_vars => BelowCap'
  BY BelowNext
<1>5. BelowCap => FeedbackCapped
  BY DEF BelowCap, Within, FeedbackCapped
<1> QED
  BY <1>1, <1>2, <1>3, <1>4, <1>5, Invariance, Kept, PTL DEF Spec

-------------------------------------------------------------------------------
(***************************************************************************)
(* The findings of a send-back: where each one names its target, what an   *)
(* executor is shown is the latest that led to its phase.                  *)
(***************************************************************************)
Named(reviews) == \A i \in RoleSendBacks(reviews) : reviews[i].target_phase # NoPhase

Shown(r) ==
  run[r].pc \in {"produced", "filed", "published"} =>
    run[r].previous = PreviousDecision(State(r).reviews, PhaseOf(r))

AllNamed ==
  /\ \A s \in Sessions : Named(store[s].reviews)
  /\ \A r \in Runners :
       /\ ~At(r, "idle") /\ ~At(r, "missing") => Named(State(r).reviews)
       /\ At(r, "reviewed") => run[r].result \in ReviewResults
       /\ Shown(r)

NamesTarget ==
  \A result \in ReviewResults :
     result.decision = "REQUEST_CHANGES" => result.target_phase # NoPhase

LEMMA NamedAppend ==
  ASSUME NEW reviews \in Seq(ReviewEntry), Named(reviews), NEW e \in ReviewEntry,
         \/ e.decision # "REQUEST_CHANGES" \/ e.phase_id \in Human
         \/ e.target_phase # NoPhase
  PROVE  Named(Append(reviews, e))
<1>1. /\ DOMAIN Append(reviews, e) = 1..(Len(reviews) + 1)
      /\ DOMAIN reviews = 1..Len(reviews) /\ Len(reviews) \in Nat
      /\ \A i \in 1..Len(reviews) : Append(reviews, e)[i] = reviews[i]
      /\ Append(reviews, e)[Len(reviews) + 1] = e
  OBVIOUS
<1>2. \A i \in 1..(Len(reviews) + 1) : i \in 1..Len(reviews) \/ i = Len(reviews) + 1
  BY <1>1
<1> QED
  BY <1>1, <1>2 DEF Named, RoleSendBacks

\* A call is about to commit something, or judges what it has committed, only by
\* what it has just done itself.
LEMMA PlaceAfter ==
  ASSUME Inv, NEW r \in Runners, CallOf(r),
         run'[r].pc \in {"produced", "filed", "published", "reviewed", "judged"}
  PROVE  Proceeding(r) \/ (run'[r].pc = "judged" /\ CommitReview(r))
<1>1. /\ Core /\ RestTyped /\ run[r] \in Call /\ Formed(run[r])
      /\ State(r) = run[r].stored /\ State(r) \in Session
  BY InvParts, CallFacts
<1>2. run'[r] # Idle
  BY IdleFormed
<1>3. ~(Open(r) \/ Initialize(r))
  BY <1>1, <1>2 DEF Open, Initialize, Leave, Continue, Core, CallsTyped, NextCall
<1>4. ~Start(r)
  <2> SUFFICES ASSUME Start(r) PROVE FALSE
    OBVIOUS
  <2> DEFINE state == [State(r) EXCEPT !.status = "in_progress",
                                       !.run_metadata = metadata[EngineOf[r]]]
  <2>1. state \in Session /\ state.status = "in_progress"
    BY <1>1, EngineAssumption DEF RestTyped, Session, Statuses
  <2>2. Save(r, state, Dispatch(state))
    BY DEF Start
  <2> HIDE DEF state
  <2>3. Dispatch(state) \in {"work", "review"}
    BY <2>1 DEF Dispatch
  <2> QED
    BY <1>1, <1>2, <2>1, <2>2, <2>3, SaveOutcome DEF Pcs
<1>5. ~(Resume(r) \/ Repeat(r))
  <2> SUFFICES ASSUME Resume(r) \/ Repeat(r) PROVE FALSE
    OBVIOUS
  <2>1. \E pc \in {"idle", "work", "review"} : run'[r] = NextCall(r, pc, State(r))
    BY <1>1 DEF Resume, Repeat, Continue, Dispatch, Core, CallsTyped
  <2> QED
    BY <1>2, <2>1 DEF NextCall
<1>6. CASE Committing(r)
  <2>1. PICK state \in Session, pc \in {"committed", "judged", "idle"} :
          Save(r, state, pc) /\ (pc = "judged" => CommitReview(r))
    BY <1>1, <1>6, CommittingOutcome
  <2> QED
    BY <1>1, <1>2, <2>1, SaveOutcome DEF Pcs
<1>7. ~(Moving(r) \/ Ending(r))
  BY <1>1, <1>2, MovingOutcome, MoveOutcome, EndingOutcome
<1>8. Proceeding(r) \/ Committing(r)
  BY <1>3, <1>4, <1>5, <1>7, CallCases
<1> QED
  BY <1>6, <1>8

\* What a role has just answered, and what it was shown.
LEMMA ShownOwn ==
  ASSUME Inv, AllNamed, NEW r \in Runners, CallOf(r)
  PROVE  /\ At(r, "reviewed")' => run'[r].result \in ReviewResults
         /\ Shown(r)'
<1>1. run[r] \in Call /\ Core
  BY InvParts, CallFacts
<1>2. CASE Proceeding(r)
  <2>1. CASE Execute(r)
    <3>1. /\ run'[r].pc \in {"produced", "published"}
          /\ run'[r].stored = run[r].stored
          /\ run'[r].previous = PreviousDecision(State(r).reviews, PhaseOf(r))
      BY <1>1, <2>1 DEF Execute, Core, CallsTyped, Call
    <3> QED
      BY <3>1 DEF Shown, At, State, PhaseOf
  <2>2. CASE PublishFiles(r) \/ PublishHandoff(r)
    <3>1. /\ run[r].pc \in {"produced", "filed"}
          /\ run'[r].pc \in {"filed", "published"}
          /\ run'[r].stored = run[r].stored /\ run'[r].previous = run[r].previous
      BY <1>1, <2>2 DEF PublishFiles, PublishHandoff, At, Core, CallsTyped, Call
    <3> QED
      BY <3>1 DEF AllNamed, Shown, At, State, PhaseOf
  <2>3. CASE InvokeReviewer(r)
    <3>1. \/ run'[r] = Idle
          \/ run'[r].pc = "reviewed" /\ run'[r].result \in ReviewResults
      BY <1>1, <2>3 DEF InvokeReviewer, Leave, Core, CallsTyped, Call
    <3> QED
      BY <3>1, IdleFormed DEF Shown, At
  <2> QED
    BY <1>2, <2>1, <2>2, <2>3 DEF Proceeding
<1>3. CASE ~Proceeding(r)
  BY <1>3, PlaceAfter DEF Shown, At
<1> QED
  BY <1>2, <1>3

LEMMA NamedOwn ==
  ASSUME NamesTarget, Inv, AllNamed, NEW r \in Runners, CallOf(r)
  PROVE  Named(store'[SessionOf[r]].reviews)
<1> DEFINE s == SessionOf[r]
<1>1. /\ Core /\ RestTyped /\ Formed(run[r]) /\ State(r) = run[r].stored
      /\ State(r) \in Session /\ s \in Sessions
      /\ State(r).reviews \in Seq(ReviewEntry)
      /\ Named(store[s].reviews)
      /\ ~At(r, "idle") /\ ~At(r, "missing") => Named(State(r).reviews)
  BY InvParts, CallFacts DEF AllNamed, Session
<1>2. CASE Open(r) \/ Resume(r) \/ Repeat(r) \/ Ending(r) \/ Proceeding(r)
  BY <1>1, <1>2, EndingOutcome, ProceedingOutcome DEF Open, Resume, Repeat
<1>3. CASE Initialize(r)
  BY <1>1, <1>3
  DEF Initialize, Core, StoreTyped, Initialized, Absent, Named, RoleSendBacks
<1>4. ASSUME NEW state \in Session, NEW pc \in Pcs, Save(r, state, pc),
             Named(state.reviews)
      PROVE  Named(store'[s].reviews)
  BY <1>1, <1>4, SaveOutcome, RevisedFacts
<1>5. CASE Start(r)
  <2> DEFINE state == [State(r) EXCEPT !.status = "in_progress",
                                       !.run_metadata = metadata[EngineOf[r]]]
  <2>1. /\ state \in Session /\ state.status = "in_progress"
        /\ state.reviews = State(r).reviews
    BY <1>1, EngineAssumption DEF RestTyped, Session, Statuses
  <2>2. Save(r, state, Dispatch(state)) /\ ~At(r, "idle") /\ ~At(r, "missing")
    BY <1>5 DEF Start, At
  <2> HIDE DEF state
  <2>3. Dispatch(state) \in Pcs
    BY DEF Dispatch, Pcs
  <2> QED
    BY <1>1, <1>4, <2>1, <2>2, <2>3
<1>6. CASE CommitIteration(r)
  <2>1. /\ run[r].result.confidence_score \in Scores
        /\ run[r].result.handoff \in BOOLEAN
        /\ ~At(r, "idle") /\ ~At(r, "missing")
    BY <1>1, <1>6 DEF CommitIteration, At, Formed, Working, ExecutionResult
  <2> QED
    BY <1>1, <1>4, <1>6, <2>1, WithIterationFacts DEF CommitIteration, Pcs
<1>7. CASE AskHuman(r)
  <2> DEFINE state == WithReview(State(r), "PENDING", NoPhase)
             e == NewReview(State(r), "PENDING", NoPhase)
  <2>1. /\ State(r) \in Session /\ NoPhase \in Choices
        /\ "PENDING" \in Decisions \cup {"PENDING"}
    BY <1>1 DEF Choices
  <2>2. /\ state \in Session /\ state.reviews = Append(State(r).reviews, e)
        /\ e \in ReviewEntry
    BY <2>1, WithReviewFacts
  <2>3. e.decision = "PENDING"
    BY DEF NewReview
  <2>4. Save(r, state, "idle") /\ ~At(r, "idle") /\ ~At(r, "missing")
    BY <1>7 DEF AskHuman, At
  <2> HIDE DEF state, e
  <2>5. Named(state.reviews)
    BY <1>1, <2>2, <2>3, <2>4, NamedAppend
  <2> QED
    BY <1>4, <2>2, <2>4, <2>5 DEF Pcs
<1>8. CASE CommitReview(r)
  <2> DEFINE result == run[r].result
             state == WithDecision(State(r), result.decision, result.target_phase)
             e == NewReview(State(r), result.decision, result.target_phase)
  <2>1. /\ At(r, "reviewed") /\ Save(r, state, "judged")
        /\ result \in ReviewResults /\ ~At(r, "idle") /\ ~At(r, "missing")
    BY <1>8 DEF CommitReview, AllNamed, At
  <2>2. result.decision \in Decisions /\ result.target_phase \in Choices
    BY <2>1, EngineAssumption DEF ReviewResult
  <2>3. /\ state \in Session /\ state.reviews = Append(State(r).reviews, e)
        /\ e \in ReviewEntry
    BY <1>1, <2>2, WithDecisionFacts
  <2>4. e.decision = result.decision /\ e.target_phase = result.target_phase
    BY DEF NewReview
  <2>5. result.decision = "REQUEST_CHANGES" => result.target_phase # NoPhase
    BY <2>1 DEF NamesTarget
  <2> HIDE DEF state, e
  <2>6. Named(state.reviews)
    BY <1>1, <2>1, <2>3, <2>4, <2>5, NamedAppend
  <2> QED
    BY <1>4, <2>1, <2>3, <2>6 DEF Pcs
<1>9. CASE Moving(r)
  BY <1>1, <1>9, MovingOutcome, MoveOutcome DEF SameLogs, At
<1> QED
  BY <1>2, <1>3, <1>5, <1>6, <1>7, <1>8, <1>9, CallCases DEF Committing

LEMMA NamedNext ==
  ASSUME NamesTarget, Inv, AllKept, AllNamed, [Next]_vars
  PROVE  AllNamed'
<1>1. CASE UNCHANGED vars
  BY <1>1 DEF vars, AllNamed, Shown, State, At, PhaseOf
<1>2. ASSUME NEW s \in Sessions, Inject(s) PROVE AllNamed'
  <2>1. PICK i \in DOMAIN store[s].reviews :
          /\ store[s].reviews[i].phase_id \in Human
          /\ DOMAIN store'[s].reviews = DOMAIN store[s].reviews
          /\ store'[s].reviews[i].phase_id \in Human
          /\ \A j \in DOMAIN store[s].reviews \ {i} :
               store'[s].reviews[j] = store[s].reviews[j]
    BY <1>2, InjectOutcome
  <2>2. Named(store'[s].reviews)
    BY <2>1 DEF AllNamed, Named, RoleSendBacks
  <2>3. run' = run /\ \A t \in Sessions \ {s} : store'[t] = store[t]
    BY <1>2, InjectOutcome
  <2> QED
    BY <2>2, <2>3 DEF AllNamed, Shown, State, At, PhaseOf
<1>3. ASSUME NEW r \in Runners, CallOf(r) PROVE AllNamed'
  <2>1. ASSUME NEW s \in Sessions PROVE Named(store'[s].reviews)
    BY <1>3, NamedOwn, LocalStep DEF AllNamed, OthersStay
  <2>2. ASSUME NEW q \in Runners, q # r
        PROVE  /\ run'[q].pc \notin {"idle", "missing"} => Named(run'[q].stored.reviews)
               /\ At(q, "reviewed")' => run'[q].result \in ReviewResults
               /\ Shown(q)'
    <3>1. run'[q] = run[q]
      BY <1>3, <2>2, LocalStep DEF OthersStay
    <3> QED
      BY <3>1 DEF AllNamed, Shown, State, At, PhaseOf
  <2>3. /\ At(r, "reviewed")' => run'[r].result \in ReviewResults
        /\ Shown(r)'
    BY <1>3, ShownOwn
  <2>4. run'[r].pc \notin {"idle", "missing"} => Named(run'[r].stored.reviews)
    <3>1. SessionOf[r] \in Sessions
      BY EngineAssumption
    <3> QED
      BY <1>3, <2>1, <3>1, HeldAfter DEF AllNamed, State
  <2> QED
    BY <2>1, <2>2, <2>3, <2>4 DEF AllNamed, State, At
<1> QED
  BY <1>1, <1>2, <1>3, NextCases

\* The latest of the send-backs that name a phase, for each that led there.
LEMMA LatestShown ==
  ASSUME NEW reviews \in Seq(ReviewEntry), Named(reviews), NEW p \in Phases,
         NEW i \in SentBack(reviews, p)
  PROVE  \E j \in PreviousDecision(reviews, p) : i <= j
<1> DEFINE sent == {k \in DOMAIN reviews :
                      /\ reviews[k].decision = "REQUEST_CHANGES"
                      /\ reviews[k].target_phase = p
                      /\ reviews[k].phase_id \notin Human}
<1>1. /\ i \in RoleSendBacks(reviews) /\ i \in DOMAIN reviews
      /\ ReviewRoute(reviews[i].phase_id, "REQUEST_CHANGES",
                     reviews[i].target_phase) = p
      /\ reviews[i].target_phase # NoPhase
  BY DEF SentBack, RoleSendBacks, Named
<1>2. reviews[i].target_phase = p
  BY <1>1, GraphAssumption DEF ReviewRoute, Resolve, ValidGraph
<1>3. /\ DOMAIN reviews = 1..Len(reviews) /\ Len(reviews) \in Nat
      /\ i \in sent
  BY <1>1, <1>2 DEF RoleSendBacks
<1>4. sent \in SUBSET (0..Len(reviews))
  BY <1>3
<1>5. PreviousDecision(reviews, p) = {k \in sent : \A j \in sent : j <= k}
  BY DEF PreviousDecision
<1> HIDE DEF sent
<1>6. PICK m \in sent : \A k \in sent : k <= m
  BY <1>3, <1>4, Greatest
<1> QED
  BY <1>3, <1>5, <1>6

\* Where reviewers name the target of each send-back, an executor at work on a
\* phase that was sent back is shown the latest such decision, whatever calls
\* overlap, resume or are cut short.  Without the hypothesis the property fails:
\* a bare send-back is routed by its phase, and its findings reach nobody.
THEOREM FindingsCorrect ==
  ASSUME NamesTarget
  PROVE  Spec => []FindingsReachExecutor
<1>1. Init => AllNamed
  <2>1. Named(<<>>)
    BY DEF Named, RoleSendBacks
  <2> QED
    BY <2>1, IdleFormed DEF Init, AllNamed, Shown, At, Absent
<1>2. Inv /\ AllKept /\ AllNamed /\ [Next]_vars => AllNamed'
  BY NamedNext
<1>3. Inv /\ AllNamed => FindingsReachExecutor
  <2> SUFFICES ASSUME Inv, AllNamed, NEW r \in Runners,
                      run[r].pc \in {"produced", "filed", "published"},
                      NEW i \in SentBack(State(r).reviews, PhaseOf(r))
               PROVE  \E j \in run[r].previous : i <= j
    BY DEF FindingsReachExecutor
  <2>1. State(r) \in Session /\ PhaseOf(r) \in Phases
    BY InvParts, CallFacts
  <2>2. Named(State(r).reviews)
        /\ run[r].previous = PreviousDecision(State(r).reviews, PhaseOf(r))
    BY DEF AllNamed, Shown, At
  <2>3. State(r).reviews \in Seq(ReviewEntry)
    BY <2>1 DEF Session
  <2> QED
    BY <2>1, <2>2, <2>3, LatestShown
<1> QED
  BY <1>1, <1>2, <1>3, Invariance, Kept, PTL DEF Spec

-------------------------------------------------------------------------------
(***************************************************************************)
(* The budget of iterations, in a workflow without people and questions    *)
(* whose edges lead forward: level grows along them.  A phase the session  *)
(* may still come to, going forward, has an iteration left; so has the one *)
(* it is at, and every phase once a send-back or an interruption has added *)
(* one to the budget.                                                      *)
(***************************************************************************)
Forward(level) ==
  /\ level \in [Phases -> Nat]
  /\ \A p \in Phases, q \in Phases :
       q \in OnComplete[p] \cup OnApprove[p] => level[p] < level[q]

Spent(s, q) == CountOf(store[s].phase_iterations, q)
Budget(s) == MaxIterations + store[s].feedback_loops + interrupts
Spare(s, q) == Spent(s, q) < Budget(s)

Concluded(s) == \E r \in Runners : SessionOf[r] = s /\ At(r, "committed")

InBudget(s, level) ==
  LET p == store[s].current_phase IN
  /\ \A q \in Phases : Spent(s, q) <= Budget(s)
  /\ store[s].status \notin Terminal =>
       /\ \A q \in Phases : level[p] < level[q] => Spare(s, q)
       /\ p \in Executors /\ ~Concluded(s) => Spare(s, p)
  /\ Judging(s) => \A q \in Phases : Spare(s, q)

\* A step that is not the end of a run by a question, nor by an executor's
\* choice that the graph does not allow.
Steady(r) ==
  /\ ~StopForQuestion(r)
  /\ LeaveExecutor(r) =>
       Resolve(OnComplete[PhaseOf(r)], run[r].result.chosen_next) # BadTarget

LEMMA BudgetNat ==
  ASSUME Inv, NEW s \in Sessions, NEW q
  PROVE  Spent(s, q) \in Nat /\ Budget(s) \in Nat
<1>1. store[s] \in Session /\ interrupts \in Nat
  BY InvParts, EngineAssumption DEF Core, StoreTyped, RestTyped
<1>2. store[s].phase_iterations \in Seq(IterationEntry) /\ store[s].feedback_loops \in Nat
  BY <1>1 DEF Session
<1>3. Spent(s, q) \in Nat
  BY <1>2, EntriesFinite DEF Spent
<1> QED
  BY <1>1, <1>2, <1>3, PolicyAssumption DEF Budget

\* What an unchanged log and a growing budget leave of it.
LEMMA BudgetSame ==
  ASSUME Inv, NEW r \in Runners, CallOf(r), NEW s \in Sessions,
         store'[s].phase_iterations = store[s].phase_iterations,
         store'[s].feedback_loops = store[s].feedback_loops
  PROVE  \A q :
           /\ Spare(s, q) => Spare(s, q)'
           /\ Spent(s, q) <= Budget(s) =>
                /\ (Spent(s, q) <= Budget(s))'
                /\ Pause(r) \/ Cancel(r) \/ Interrupt(r) => Spare(s, q)'
<1> SUFFICES ASSUME NEW q
             PROVE  /\ Spare(s, q) => Spare(s, q)'
                    /\ Spent(s, q) <= Budget(s) =>
                         /\ (Spent(s, q) <= Budget(s))'
                         /\ Pause(r) \/ Cancel(r) \/ Interrupt(r) => Spare(s, q)'
  OBVIOUS
<1>1. /\ interrupts \in Nat /\ interrupts' \in Nat /\ interrupts <= interrupts'
      /\ Pause(r) \/ Cancel(r) \/ Interrupt(r) => interrupts' = interrupts + 1
  BY InterruptsGrow
<1>2. Spent(s, q) \in Nat /\ Spent(s, q)' = Spent(s, q)
  BY BudgetNat DEF Spent
<1>3. store[s].feedback_loops \in Nat
  BY InvParts DEF Core, StoreTyped, Session
<1> QED
  BY <1>1, <1>2, <1>3, PolicyAssumption DEF Budget, Spare

\* The steps that neither commit an entry nor move the session on.
LEMMA QuietStep ==
  ASSUME Inv, AllFresh, NEW r \in Runners, CallOf(r), ~Committing(r), ~Moving(r)
  PROVE  LET s == SessionOf[r] IN
         /\ store'[s].phase_iterations = store[s].phase_iterations
         /\ store'[s].feedback_loops = store[s].feedback_loops
         /\ store'[s].current_phase = store[s].current_phase
         /\ run'[r].pc \notin {"committed", "judged"}
<1> DEFINE s == SessionOf[r]
<1>1. /\ Core /\ RestTyped /\ State(r) = run[r].stored
      /\ State(r) \in Session /\ s \in Sessions /\ store[s] \in Session
      /\ ~At(r, "idle") /\ ~At(r, "missing") => State(r) = store[s]
  BY InvParts, CallFacts DEF AllFresh, Core, StoreTyped
<1>2. CASE Open(r) \/ Resume(r) \/ Repeat(r)
  <2>1. /\ UNCHANGED store
        /\ \E pc \in {"idle", "missing", "opened", "work", "review"} :
             \E state : run'[r] = NextCall(r, pc, state)
    BY <1>1, <1>2 DEF Open, Resume, Repeat, Continue, Dispatch, Core, CallsTyped
  <2> QED
    BY <2>1, IdleFormed DEF NextCall
<1>3. CASE Initialize(r)
  <2>1. CASE store[s].status = "absent" /\ Continue(r, "opened", Initialized)
             /\ store' = [store EXCEPT ![s] = Initialized]
    <3>1. store[s] = Absent /\ store'[s] = Initialized
      BY <1>1, <2>1 DEF Core, AbsentBare, StoreTyped
    <3>2. run'[r].pc = "opened"
      BY <1>1, <2>1 DEF Continue, NextCall, Core, CallsTyped
    <3> QED
      BY <3>1, <3>2 DEF Initialized, Absent
  <2>2. CASE Leave(r) /\ UNCHANGED store
    BY <1>1, <2>2, IdleFormed DEF Leave, Core, CallsTyped
  <2> QED
    BY <1>3, <2>1, <2>2 DEF Initialize
<1>4. CASE Start(r)
  <2> DEFINE state == [State(r) EXCEPT !.status = "in_progress",
                                       !.run_metadata = metadata[EngineOf[r]]]
  <2>1. /\ state \in Session /\ state.status = "in_progress"
        /\ state.feedback_loops = State(r).feedback_loops
        /\ state.phase_iterations = State(r).phase_iterations
        /\ state.current_phase = State(r).current_phase
    BY <1>1, EngineAssumption DEF RestTyped, Session, Statuses
  <2>2. Save(r, state, Dispatch(state)) /\ State(r) = store[s]
    BY <1>1, <1>4 DEF Start, At
  <2> HIDE DEF state
  <2>3. Dispatch(state) \in {"work", "review"}
    BY <2>1 DEF Dispatch
  <2> QED
    BY <1>1, <2>1, <2>2, <2>3, SaveOutcome, RevisedFacts, IdleFormed DEF Pcs
<1>5. CASE Ending(r)
  BY <1>1, <1>5, EndingOutcome, IdleFormed
<1>6. CASE Proceeding(r)
  <2>1. UNCHANGED store
    BY <1>1, <1>6, ProceedingOutcome
  <2>2. CASE Execute(r) \/ PublishFiles(r) \/ PublishHandoff(r)
    <3>1. run'[r].pc \in {"produced", "filed", "published"}
      <4>1. CASE Execute(r)
        BY <1>1, <4>1 DEF Execute, Core, CallsTyped, Call
      <4>2. CASE PublishFiles(r) \/ PublishHandoff(r)
        BY <1>1, <4>2 DEF PublishFiles, PublishHandoff, Core, CallsTyped, Call
      <4> QED
        BY <2>2, <4>1, <4>2
    <3> QED
      BY <2>1, <3>1
  <2>3. CASE InvokeReviewer(r)
    BY <1>1, <2>1, <2>3, IdleFormed DEF InvokeReviewer, Leave, Core, CallsTyped, Call
  <2> QED
    BY <1>6, <2>2, <2>3 DEF Proceeding
<1> QED
  BY <1>2, <1>3, <1>4, <1>5, <1>6, CallCases

\* An end that is saved.
LEMMA EndsFresh ==
  ASSUME Core, NEW r \in Runners, State(r) = store[SessionOf[r]],
         NEW status \in Terminal, Finalize(r, status)
  PROVE  LET s == SessionOf[r] IN
         /\ store'[s].status \in Terminal /\ SameLogs(store[s], store'[s])
         /\ run'[r].pc \in {"idle", "lock"}
<1>1. State(r) \in Session /\ Fresh(r)
  BY CallFacts DEF Fresh
<1> DEFINE state == [State(r) EXCEPT !.status = status]
           pc == IF status = "completed" /\ HasPack[SessionOf[r]]
                 THEN "lock" ELSE "idle"
<1>2. /\ state \in Session /\ SameLogs(State(r), state)
      /\ state.status = status
  BY <1>1 DEF Session, SameLogs, Statuses
<1>3. Save(r, state, pc) /\ pc \in {"lock", "idle"}
  BY DEF Finalize
<1> HIDE DEF state, pc
<1>4. store'[SessionOf[r]] = Revised(state) /\ run'[r].pc \in {"idle", "lock"}
  BY <1>1, <1>2, <1>3, SaveOutcome, IdleFormed DEF Pcs
<1> QED
  BY <1>2, <1>4, RevisedFacts DEF SameLogs

\* A move, by where it leads.
LEMMA RouteOutcome ==
  ASSUME Core, NEW r \in Runners, State(r) = store[SessionOf[r]],
         State(r).status = "in_progress", NEW target, Route(r, target)
  PROVE  LET s == SessionOf[r] IN
         \/ target = BadTarget /\ run'[r] = Idle /\ UNCHANGED store
         \/ /\ target = NoPhase /\ store'[s].status \in Terminal
            /\ SameLogs(store[s], store'[s]) /\ run'[r].pc \in {"idle", "lock"}
         \/ /\ target \in Phases /\ store'[s].current_phase = target
            /\ SameLogs(store[s], store'[s]) /\ run'[r].pc \in {"work", "review"}
<1> DEFINE s == SessionOf[r]
<1>1. State(r) \in Session /\ Fresh(r)
  BY CallFacts DEF Fresh
<1>2. CASE target \in Phases /\ Transition(r, target)
  <2> DEFINE state == [State(r) EXCEPT !.current_phase = target]
  <2>1. /\ state \in Session /\ SameLogs(State(r), state)
        /\ state.status = "in_progress" /\ state.current_phase = target
    BY <1>1, <1>2 DEF Session, SameLogs
  <2>2. Save(r, state, Dispatch(state))
    BY <1>2 DEF Transition
  <2> HIDE DEF state
  <2>3. Dispatch(state) \in {"work", "review"}
    BY <2>1 DEF Dispatch
  <2>4. store'[s] = Revised(state) /\ run'[r].pc \in {"work", "review"}
    BY <1>1, <2>1, <2>2, <2>3, SaveOutcome DEF Pcs
  <2> QED
    BY <1>2, <2>1, <2>4, RevisedFacts DEF SameLogs
<1>3. CASE target = NoPhase /\ Finalize(r, "completed")
  BY <1>1, <1>3, EndsFresh DEF Terminal
<1>4. CASE target = BadTarget /\ Leave(r) /\ UNCHANGED store
  BY <1>4 DEF Leave, Core, CallsTyped
<1> QED
  BY <1>2, <1>3, <1>4 DEF Route

\* The commit of an iteration spends what the phase had left.
LEMMA BudgetCommit ==
  ASSUME OneCaller, Inv, AllFresh, NEW level, Forward(level),
         NEW r \in Runners, InBudget(SessionOf[r], level), CommitIteration(r)
  PROVE  InBudget(SessionOf[r], level)'
<1> DEFINE s == SessionOf[r]
           result == run[r].result
           e == NewIteration(State(r), result)
           state == WithIteration(State(r), result)
<1>1. /\ Core /\ Formed(run[r]) /\ State(r) = run[r].stored
      /\ State(r) \in Session /\ s \in Sessions /\ At(r, "published")
      /\ Save(r, state, "committed") /\ interrupts' = interrupts
  BY InvParts, CallFacts DEF CommitIteration, world
<1>2. /\ State(r) = store[s] /\ Fresh(r) /\ State(r).status = "in_progress"
      /\ State(r).current_phase \in Executors /\ result \in ExecutionResult
  BY <1>1 DEF AllFresh, At, Fresh, Formed, Working
<1>3. /\ e \in IterationEntry /\ e.phase_id = State(r).current_phase
      /\ state \in Session
      /\ state.phase_iterations = Append(State(r).phase_iterations, e)
      /\ state.status = State(r).status
      /\ state.current_phase = State(r).current_phase
      /\ state.feedback_loops = State(r).feedback_loops
  BY <1>1, <1>2, WithIterationFacts DEF ExecutionResult
<1> HIDE DEF e, state
<1>4. /\ store'[s] = Revised(state) /\ run'[r].pc = "committed"
      /\ \A q \in Runners \ {r} : run'[q] = run[q]
  BY <1>1, <1>2, <1>3, SaveOutcome DEF Pcs
<1>5. /\ store'[s].phase_iterations = Append(store[s].phase_iterations, e)
      /\ store'[s].current_phase = store[s].current_phase
      /\ store'[s].feedback_loops = store[s].feedback_loops
  BY <1>2, <1>3, <1>4, RevisedFacts
<1>6. /\ Concluded(s)' /\ ~Judging(s)' /\ ~Concluded(s)
  BY <1>1, <1>4 DEF Concluded, Judging, OneCaller, At
<1> DEFINE p == store[s].current_phase
<1>7. ASSUME NEW q \in Phases
      PROVE  /\ Spent(s, q)' = Spent(s, q) + (IF q = p THEN 1 ELSE 0)
             /\ Spent(s, q) \in Nat /\ Budget(s) \in Nat /\ Budget(s)' = Budget(s)
  <2>1. store[s].phase_iterations \in Seq(IterationEntry)
    BY <1>1, <1>2 DEF Session
  <2>2. /\ q = p => CountOf(Append(store[s].phase_iterations, e), q)
                      = CountOf(store[s].phase_iterations, q) + 1
        /\ q # p => CountOf(Append(store[s].phase_iterations, e), q)
                      = CountOf(store[s].phase_iterations, q)
    BY <1>2, <1>3, <2>1, CountAppend, EntriesAppend DEF CountOf
  <2>3. Spent(s, q) \in Nat /\ Budget(s) \in Nat
    BY <1>1, BudgetNat
  <2> QED
    BY <1>1, <1>5, <2>2, <2>3 DEF Spent, Budget
<1>8. Spare(s, p) /\ \A q \in Phases : level[p] < level[q] => Spare(s, q)
  BY <1>2, <1>6 DEF InBudget, Terminal
<1>9. \A q \in Phases : (Spent(s, q) <= Budget(s))'
  BY <1>7, <1>8 DEF InBudget, Spare
<1>10. p \in Phases /\ level[p] \in Nat
  BY <1>1, <1>2 DEF Session, Forward
<1>11. \A q \in Phases : level[p] < level[q] => Spare(s, q)'
  BY <1>7, <1>8, <1>10 DEF Spare
<1> QED
  BY <1>5, <1>6, <1>9, <1>11 DEF InBudget

\* The commit of a decision spends nothing, and a send-back adds to the budget.
LEMMA BudgetDecision ==
  ASSUME OneCaller, Inv, AllFresh, NEW level, Forward(level),
         NEW r \in Runners, InBudget(SessionOf[r], level), CommitReview(r)
  PROVE  InBudget(SessionOf[r], level)'
<1> DEFINE s == SessionOf[r]
           result == run[r].result
           state == WithDecision(State(r), result.decision, result.target_phase)
<1>1. /\ Core /\ Formed(run[r]) /\ State(r) = run[r].stored
      /\ State(r) \in Session /\ s \in Sessions /\ At(r, "reviewed")
      /\ Save(r, state, "judged") /\ interrupts' = interrupts
  BY InvParts, CallFacts DEF CommitReview, world
<1>2. /\ State(r) = store[s] /\ Fresh(r) /\ State(r).status = "in_progress"
      /\ State(r).current_phase \notin Executors
      /\ result.decision \in Decisions /\ result.target_phase \in Choices
  BY <1>1 DEF AllFresh, At, Fresh, Formed, Reviewing, ReviewResult, Reviews
<1>3. /\ state \in Session /\ state.phase_iterations = State(r).phase_iterations
      /\ state.current_phase = State(r).current_phase
      /\ state.feedback_loops = State(r).feedback_loops
           + (IF result.decision = "REQUEST_CHANGES" THEN 1 ELSE 0)
  BY <1>1, <1>2, WithDecisionFacts
<1> HIDE DEF state
<1>4. /\ store'[s] = Revised(state) /\ run'[r].pc = "judged"
      /\ run'[r].result = result
  BY <1>1, <1>2, <1>3, SaveOutcome DEF Pcs
<1>5. /\ store'[s].phase_iterations = store[s].phase_iterations
      /\ store'[s].current_phase = store[s].current_phase
      /\ store'[s].feedback_loops = store[s].feedback_loops
           + (IF result.decision = "REQUEST_CHANGES" THEN 1 ELSE 0)
  BY <1>2, <1>3, <1>4, RevisedFacts
<1>6. Judging(s)' => result.decision = "REQUEST_CHANGES"
  BY <1>4 DEF Judging, OneCaller, At
<1>7. ASSUME NEW q \in Phases
      PROVE  /\ Spent(s, q)' = Spent(s, q)
             /\ Spent(s, q) \in Nat /\ Budget(s) \in Nat
             /\ Budget(s)' = Budget(s)
                  + (IF result.decision = "REQUEST_CHANGES" THEN 1 ELSE 0)
  <2>1. Spent(s, q) \in Nat /\ Budget(s) \in Nat
    BY <1>1, BudgetNat
  <2>2. store[s].feedback_loops \in Nat /\ interrupts \in Nat
    BY <1>1, InvParts, EngineAssumption DEF Core, StoreTyped, Session, RestTyped
  <2> QED
    BY <1>1, <1>5, <2>1, <2>2, PolicyAssumption DEF Spent, Budget
<1>8. /\ \A q \in Phases : Spent(s, q) <= Budget(s)
      /\ \A q \in Phases : level[store[s].current_phase] < level[q] => Spare(s, q)
  BY <1>2 DEF InBudget, Terminal
<1>9. ASSUME NEW q \in Phases
      PROVE  /\ (Spent(s, q) <= Budget(s))'
             /\ Spare(s, q) => Spare(s, q)'
             /\ Judging(s)' => Spare(s, q)'
  BY <1>6, <1>7, <1>8 DEF Spare
<1> QED
  BY <1>2, <1>5, <1>8, <1>9 DEF InBudget

\* An end of the session, and a move to a phase that has an iteration left, as
\* have those ahead of it.
LEMMA BudgetEnd ==
  ASSUME OneCaller, Inv, NEW level, Forward(level), NEW r \in Runners, CallOf(r),
         InBudget(SessionOf[r], level),
         SameLogs(store[SessionOf[r]], store'[SessionOf[r]]),
         store'[SessionOf[r]].status \in Terminal,
         run'[r].pc \in {"idle", "lock"}
  PROVE  InBudget(SessionOf[r], level)'
<1> DEFINE s == SessionOf[r]
<1>1. s \in Sessions /\ ~Judging(s)'
  BY EngineAssumption DEF Judging, OneCaller, At
<1>2. \A q \in Phases : (Spent(s, q) <= Budget(s))'
  BY <1>1, BudgetSame DEF InBudget, SameLogs
<1> QED
  BY <1>1, <1>2 DEF InBudget

LEMMA BudgetRoute ==
  ASSUME OneCaller, Inv, NEW level, Forward(level), NEW r \in Runners, CallOf(r),
         InBudget(SessionOf[r], level),
         State(r) = store[SessionOf[r]], State(r).status = "in_progress",
         NEW target, Route(r, target),
         target = BadTarget => PhaseOf(r) \notin Executors,
         target \in Phases =>
           /\ Spare(SessionOf[r], target)
           /\ \A q \in Phases : level[target] < level[q] => Spare(SessionOf[r], q)
  PROVE  InBudget(SessionOf[r], level)'
<1> DEFINE s == SessionOf[r]
<1>1. /\ Core /\ s \in Sessions /\ State(r) \in Session
      /\ PhaseOf(r) = store[s].current_phase
  BY InvParts, CallFacts
<1>2. CASE target = BadTarget /\ run'[r] = Idle /\ UNCHANGED store
  <2>1. ~Judging(s)'
    BY <1>2, IdleFormed DEF Judging, OneCaller, At
  <2>2. /\ \A q \in Phases : (Spent(s, q) <= Budget(s))'
        /\ \A q \in Phases :
             level[store[s].current_phase] < level[q] => Spare(s, q)'
    BY <1>1, <1>2, BudgetSame DEF InBudget, Terminal
  <2> QED
    BY <1>1, <1>2, <2>1, <2>2 DEF InBudget
<1>3. CASE /\ target = NoPhase /\ store'[s].status \in Terminal
           /\ SameLogs(store[s], store'[s]) /\ run'[r].pc \in {"idle", "lock"}
  BY <1>3, BudgetEnd
<1>4. CASE /\ target \in Phases /\ store'[s].current_phase = target
           /\ SameLogs(store[s], store'[s]) /\ run'[r].pc \in {"work", "review"}
  <2>1. ~Judging(s)'
    BY <1>4 DEF Judging, OneCaller, At
  <2>2. /\ \A q \in Phases : (Spent(s, q) <= Budget(s))'
        /\ Spare(s, target)'
        /\ \A q \in Phases : level[target] < level[q] => Spare(s, q)'
    BY <1>1, <1>4, BudgetSame DEF InBudget, SameLogs
  <2> QED
    BY <1>4, <2>1, <2>2 DEF InBudget
<1> QED
  BY <1>1, <1>2, <1>3, <1>4, RouteOutcome

\* Where nobody answers stubs, a call finds no decision but its own.
LEMMA NothingToApply ==
  ASSUME Human = {}, Inv, AllKept, AllFresh, NEW r \in Runners
  PROVE  ~ApplyDecision(r)
<1> SUFFICES ASSUME ApplyDecision(r) PROVE FALSE
  OBVIOUS
<1>1. /\ State(r) = store[SessionOf[r]] /\ SessionOf[r] \in Sessions
      /\ State(r) \in Session
  BY InvParts, CallFacts DEF ApplyDecision, AllFresh, At
<1>2. WellKept(State(r))
  BY <1>1 DEF AllKept
<1>3. ToApply(r) # 0
  BY DEF ApplyDecision
<1>4. PICK i \in DOMAIN State(r).reviews :
        /\ State(r).reviews[i].phase_id = PhaseOf(r)
        /\ State(r).reviews[i].review
             = CountOf(State(r).reviews, State(r).reviews[i].phase_id) + 1
  BY <1>3 DEF ToApply, Committed
<1> QED
  BY <1>1, <1>2, <1>4, NumbersBelow

\* A forward edge leads to a phase that has an iteration left, as have those
\* ahead of it.
LEMMA SpareAhead ==
  ASSUME NEW level, Forward(level), NEW s, NEW p \in Phases,
         \A q \in Phases : level[p] < level[q] => Spare(s, q),
         NEW target \in OnComplete[p] \cup OnApprove[p]
  PROVE  /\ Spare(s, target)
         /\ \A q \in Phases : level[target] < level[q] => Spare(s, q)
<1>1. target \in Phases /\ level[p] < level[target]
  BY GraphAssumption DEF ValidGraph, Forward
<1>2. \A q \in Phases : level[q] \in Nat
  BY DEF Forward
<1> QED
  BY <1>1, <1>2

LEMMA BudgetMove ==
  ASSUME OneCaller, Human = {}, Inv, AllKept, AllFresh,
         NEW level, Forward(level), NEW r \in Runners, Moving(r), Steady(r),
         InBudget(SessionOf[r], level)
  PROVE  InBudget(SessionOf[r], level)'
<1> DEFINE s == SessionOf[r]
<1>1. /\ Core /\ Formed(run[r]) /\ State(r) = run[r].stored /\ s \in Sessions
      /\ State(r) \in Session /\ PhaseOf(r) = State(r).current_phase
      /\ PhaseOf(r) \in Phases /\ CallOf(r)
  BY InvParts, CallFacts DEF Moving, CallOf, Step
<1>2. State(r) = store[s] /\ State(r).status = "in_progress"
  BY <1>1, MovingOutcome DEF AllFresh, At
<1>3. CASE Cancel(r)
  <2>1. SameLogs(store[s], store'[s])
    BY <1>1, <1>2, <1>3, EndsFresh DEF Cancel, Terminal
  <2>2. \A q \in Phases : (Spent(s, q) <= Budget(s))' /\ Spare(s, q)'
    BY <1>1, <1>3, <2>1, BudgetSame DEF InBudget, SameLogs
  <2>3. Executors \subseteq Phases
    BY GraphAssumption DEF ValidGraph
  <2> QED
    BY <2>2, <2>3 DEF InBudget
<1>4. CASE AbandonWithoutHandoff(r) \/ GiveUp(r)
  <2>1. \E status \in Terminal : Finalize(r, status)
    BY <1>4 DEF AbandonWithoutHandoff, GiveUp, Terminal
  <2> QED
    BY <1>1, <1>2, <2>1, EndsFresh, BudgetEnd
<1>5. CASE LeaveExecutor(r)
  <2> DEFINE chosen == run[r].result.chosen_next
             target == Resolve(OnComplete[PhaseOf(r)], chosen)
  <2>1. /\ Route(r, target) /\ At(r, "committed") /\ PhaseOf(r) \in Executors
        /\ run[r].result \in ExecutionResult
    BY <1>1, <1>5 DEF LeaveExecutor, Concluding, At, Formed, Working
  <2>2. target # BadTarget
    BY <1>5 DEF Steady
  <2>3. OnComplete[PhaseOf(r)] \in SUBSET Phases /\ chosen \in Choices
    BY <1>1, <2>1, GraphAssumption DEF ValidGraph, ExecutionResult
  <2>4. target \in Phases => target \in OnComplete[PhaseOf(r)]
    BY <2>2, <2>3, ResolveIn, GraphAssumption DEF ValidGraph
  <2>5. \A q \in Phases : level[PhaseOf(r)] < level[q] => Spare(s, q)
    BY <1>1, <1>2 DEF InBudget, Terminal
  <2> HIDE DEF target, chosen
  <2>6. target \in Phases =>
          /\ Spare(s, target)
          /\ \A q \in Phases : level[target] < level[q] => Spare(s, q)
    BY <1>1, <2>4, <2>5, SpareAhead
  <2> QED
    BY <1>1, <1>2, <2>1, <2>2, <2>6, BudgetRoute
<1>6. CASE ConcludeReview(r)
  <2> DEFINE result == run[r].result
             target == ReviewerRoute(PhaseOf(r), result)
  <2>1. /\ At(r, "judged") /\ PhaseOf(r) \notin Executors
        /\ result \in ReviewResult
    BY <1>1, <1>6 DEF ConcludeReview, At, Formed, Reviewing, Reviews
  <2>2. CASE Finalize(r, "abandoned")
    BY <1>1, <1>2, <2>2, EndsFresh, BudgetEnd DEF Terminal
  <2>3. CASE Route(r, target)
    <3>1. ASSUME target \in Phases
          PROVE  /\ Spare(s, target)
                 /\ \A q \in Phases : level[target] < level[q] => Spare(s, q)
      <4>1. CASE result.decision = "REQUEST_CHANGES"
        <5>1. \A q \in Phases : Spare(s, q)
          BY <2>1, <4>1 DEF Judging, InBudget
        <5> QED
          BY <3>1, <5>1
      <4>2. CASE result.decision = "APPROVE"
        <5>1. target = Resolve(OnApprove[PhaseOf(r)], result.chosen_next)
          BY <4>2 DEF ReviewerRoute, ReviewRoute
        <5>2. OnApprove[PhaseOf(r)] \in SUBSET Phases /\ result.chosen_next \in Choices
          BY <1>1, <2>1, GraphAssumption DEF ValidGraph, ReviewResult
        <5>3. target \in OnApprove[PhaseOf(r)]
          BY <3>1, <5>1, <5>2, ResolveIn, GraphAssumption DEF ValidGraph
        <5>4. \A q \in Phases : level[PhaseOf(r)] < level[q] => Spare(s, q)
          BY <1>1, <1>2 DEF InBudget, Terminal
        <5> HIDE DEF target
        <5> QED
          BY <1>1, <5>3, <5>4, SpareAhead
      <4> QED
        BY <2>1, <4>1, <4>2 DEF ReviewResult, Decisions
    <3> HIDE DEF target
    <3> QED
      BY <1>1, <1>2, <2>1, <2>3, <3>1, BudgetRoute
  <2> QED
    BY <1>6, <2>2, <2>3 DEF ConcludeReview
<1> QED
  BY <1>3, <1>4, <1>5, <1>6, NothingToApply DEF Moving

\* A phase is repeated only within max_iterations.
LEMMA SpareRepeat ==
  ASSUME Inv, AllFresh, NEW r \in Runners, Repeat(r)
  PROVE  Spare(SessionOf[r], store[SessionOf[r]].current_phase)
<1> DEFINE s == SessionOf[r]
<1>1. /\ State(r) = store[s] /\ PhaseOf(r) = store[s].current_phase
      /\ s \in Sessions
  BY InvParts, CallFacts DEF Repeat, Concluding, AllFresh, At
<1>2. Spent(s, PhaseOf(r)) < MaxIterations
  BY <1>1 DEF Repeat, Concluding, Verdict, Outcome, Spent
<1>3. Spent(s, PhaseOf(r)) \in Nat
  BY <1>1, BudgetNat
<1>4. store[s].feedback_loops \in Nat /\ interrupts \in Nat
  BY <1>1, InvParts, EngineAssumption DEF Core, StoreTyped, Session, RestTyped
<1> QED
  BY <1>1, <1>2, <1>3, <1>4, PolicyAssumption DEF Spare, Budget

LEMMA BudgetQuiet ==
  ASSUME OneCaller, Inv, AllKept, AllFresh, [Next]_vars,
         NEW level, Forward(level), NEW r \in Runners, CallOf(r), Steady(r),
         ~Committing(r), ~Moving(r), InBudget(SessionOf[r], level)
  PROVE  InBudget(SessionOf[r], level)'
<1> DEFINE s == SessionOf[r]
           p == store[s].current_phase
<1>1. /\ s \in Sessions /\ Core /\ Formed(run[r])
      /\ store'[s].phase_iterations = store[s].phase_iterations
      /\ store'[s].feedback_loops = store[s].feedback_loops
      /\ store'[s].current_phase = p
      /\ run'[r].pc \notin {"committed", "judged"}
  BY InvParts, CallFacts, QuietStep
<1>2. ~Judging(s)'
  BY <1>1 DEF Judging, OneCaller, At
<1>3. \A q \in Phases : /\ (Spent(s, q) <= Budget(s))'
                        /\ Spare(s, q) => Spare(s, q)'
                        /\ Pause(r) \/ Cancel(r) \/ Interrupt(r) => Spare(s, q)'
  BY <1>1, BudgetSame DEF InBudget
<1>4. Executors \subseteq Phases /\ p \in Phases
  BY <1>1, GraphAssumption DEF ValidGraph, Core, StoreTyped, Session
<1>5. CASE Pause(r) \/ Interrupt(r)
  BY <1>1, <1>2, <1>3, <1>4, <1>5 DEF InBudget
<1>6. CASE ~(Pause(r) \/ Interrupt(r))
  <2>1. At(r, "committed") => Repeat(r)
    BY <1>6 DEF Steady, CallOf, Step, Open, Initialize, Start, Resume,
       ReturnTerminal, Execute, PublishFiles, PublishHandoff, Committing,
       Moving, InvokeReviewer, LockPack, At
  <2>2. ASSUME store'[s].status \notin Terminal
        PROVE  /\ \A q \in Phases : level[p] < level[q] => Spare(s, q)
               /\ p \in Executors => Spare(s, p)
    <3>1. store[s].status \notin Terminal
      BY <1>1, <2>2, OverStays
    <3>2. CASE Repeat(r)
      BY <3>1, <3>2, SpareRepeat DEF InBudget
    <3>3. CASE ~Repeat(r)
      <4>1. ~Concluded(s)
        BY <2>1, <3>3 DEF Concluded, OneCaller
      <4> QED
        BY <3>1, <4>1 DEF InBudget
    <3> QED
      BY <3>2, <3>3
  <2> QED
    BY <1>1, <1>2, <1>3, <1>4, <2>2 DEF InBudget
<1> QED
  BY <1>5, <1>6

LEMMA BudgetNext ==
  ASSUME OneCaller, Human = {}, Inv, AllKept, AllFresh, NEW level, Forward(level),
         \A s \in Sessions : InBudget(s, level),
         [Next]_vars, [\A r \in Runners : Steady(r)]_vars
  PROVE  \A s \in Sessions : InBudget(s, level)'
<1> SUFFICES ASSUME NEW s \in Sessions PROVE InBudget(s, level)'
  OBVIOUS
<1>1. CASE UNCHANGED vars
  BY <1>1 DEF vars, InBudget, Spent, Spare, Budget, Concluded, Judging, At
<1>2. CASE \E t \in Sessions : Inject(t)
  BY <1>2, InjectOutcome
<1>3. ASSUME NEW r \in Runners, CallOf(r), Steady(r) PROVE InBudget(s, level)'
  <2>1. CASE s = SessionOf[r]
    <3>1. CASE CommitIteration(r)
      BY <2>1, <3>1, BudgetCommit
    <3>2. CASE CommitReview(r)
      BY <2>1, <3>2, BudgetDecision
    <3>3. ~AskHuman(r)
      BY DEF AskHuman
    <3>4. CASE Moving(r)
      BY <1>3, <2>1, <3>4, BudgetMove
    <3>5. CASE ~Committing(r) /\ ~Moving(r)
      BY <1>3, <2>1, <3>5, BudgetQuiet
    <3> QED
      BY <3>1, <3>2, <3>3, <3>4, <3>5 DEF Committing
  <2>2. CASE s # SessionOf[r]
    <3>1. store'[s] = store[s] /\ \A q \in Runners \ {r} : run'[q] = run[q]
      BY <1>3, <2>2, LocalStep DEF OthersStay
    <3>2. (Judging(s)' <=> Judging(s)) /\ (Concluded(s)' <=> Concluded(s))
      BY <2>2, <3>1 DEF Judging, Concluded, At
    <3>3. \A q : /\ Spent(s, q) <= Budget(s) => (Spent(s, q) <= Budget(s))'
                 /\ Spare(s, q) => Spare(s, q)'
      BY <1>3, <3>1, BudgetSame
    <3> QED
      BY <3>1, <3>2, <3>3 DEF InBudget
  <2> QED
    BY <2>1, <2>2
<1> QED
  BY <1>1, <1>2, <1>3, NextCases

\* In a workflow without people whose edges lead forward, one caller for each
\* session keeps every phase within max_iterations, but for one more with each
\* send-back and each interruption, whichever phase was meant, as long as no run
\* is stopped by a question or by an executor's impossible choice.  A cycle of
\* forward edges, a question, such a choice and a person's decision that is
\* found again each let a phase go on without either.
THEOREM BudgetCorrect ==
  ASSUME OneCaller, Human = {}, MaxIterations >= 1, NEW level, Forward(level)
  PROVE  Spec /\ [][\A r \in Runners : Steady(r)]_vars => []IterationBudget
<1> DEFINE Keeps == \A s \in Sessions : InBudget(s, level)
<1>1. Init => AllFresh /\ Keeps
  <2> SUFFICES ASSUME Init PROVE AllFresh /\ Keeps
    OBVIOUS
  <2>1. AllFresh
    BY IdleFormed DEF Init, AllFresh, At
  <2>2. ASSUME NEW s \in Sessions PROVE InBudget(s, level)
    <3>1. store[s] = Absent /\ interrupts = 0 /\ ~Judging(s)
      BY IdleFormed DEF Init, Judging, At
    <3>2. \A q : Spent(s, q) = 0
      BY <3>1, FS_EmptySet DEF Absent, Spent, CountOf, EntriesOf
    <3>3. Budget(s) = MaxIterations
      BY <3>1, PolicyAssumption DEF Budget, Absent
    <3>4. \A q : Spare(s, q) /\ Spent(s, q) <= Budget(s)
      BY <3>2, <3>3, PolicyAssumption DEF Spare
    <3> QED
      BY <3>1, <3>4 DEF InBudget
  <2> QED
    BY <2>1, <2>2
<1>2. Inv /\ AllKept /\ AllFresh /\ Keeps
      /\ [Next]_vars /\ [\A r \in Runners : Steady(r)]_vars
        => AllFresh' /\ Keeps'
  BY FreshNext, BudgetNext
<1>3. Inv /\ AllKept /\ Keeps => IterationBudget
  <2> SUFFICES ASSUME Inv, AllKept, Keeps, NEW s \in Sessions, NEW p \in Executors
               PROVE  CountOf(store[s].phase_iterations, p)
                        <= MaxIterations + Cardinality(SendBacks(s)) + interrupts
    BY DEF IterationBudget
  <2>1. store[s].feedback_loops = Cardinality(SendBacks(s))
    BY DEF AllKept, WellKept, Counted, RoleSendBacks, SendBacks
  <2>2. p \in Phases
    BY GraphAssumption DEF ValidGraph
  <2> QED
    BY <2>1, <2>2 DEF InBudget, Spent, Budget
<1> HIDE DEF Keeps
<1> QED
  BY <1>1, <1>2, <1>3, Invariance, Kept, PTL DEF Spec

-------------------------------------------------------------------------------
(***************************************************************************)
(* A decision is acted upon once within a run.  A session that may still   *)
(* act upon the last decision on a human phase has left that phase less    *)
(* often than people have decided and runs have been cut short, unless the *)
(* run at work on it has acted upon that decision already.                 *)
(***************************************************************************)
LastDecision(reviews, p) == Committed(reviews, p, CountOf(reviews, p))

DecidedRoute(reviews, p) ==
  LET entry == reviews[CHOOSE i \in LastDecision(reviews, p) : TRUE]
  IN ReviewRoute(p, entry.decision, entry.target_phase)

Allowed(s) == Cardinality(Decided(store[s].reviews)) + interrupts + pack[s].questions

\* The call is still on the record it acted upon the last decision of.
Used(r, p) ==
  /\ run[r].pc \in Working \cup Reviewing
  /\ Fresh(r)
  /\ <<p, CountOf(State(r).reviews, p)>> \in applied[EngineOf[r]]

\* The session is at a review phase that waits for a person's decision, or whose
\* last one leads nowhere.
Stuck(s) ==
  LET p == store[s].current_phase
      reviews == store[s].reviews
  IN /\ p \in Human \cap Reviews
     /\ LastDecision(reviews, p) = {} \/ DecidedRoute(reviews, p) = BadTarget

Reusable(s, p) ==
  /\ store[s].status \notin Terminal
  /\ LastDecision(store[s].reviews, p) # {}
  /\ ~Stuck(s)
  /\ ~\E r \in Runners : SessionOf[r] = s /\ Used(r, p)

Covered(s, p) ==
  /\ departures[s][p] <= Allowed(s)
  /\ Reusable(s, p) => departures[s][p] < Allowed(s)

\* A decision is committed only when the graph has a way for it.
Routable(r) ==
  run[r].pc \in {"reviewed", "judged"} =>
    ReviewerRoute(PhaseOf(r), run[r].result) # BadTarget

\* A step in which no role names a target that the graph does not allow, and
\* each question reaches the pack.
Answered(r) ==
  /\ StopForQuestion(r) => AdhocQuestions /\ HasPack[SessionOf[r]]
  /\ InvokeReviewer(r) => run'[r].pc = "reviewed"
  /\ LeaveExecutor(r) =>
       Resolve(OnComplete[PhaseOf(r)], run[r].result.chosen_next) # BadTarget

LEMMA RoutableOwn ==
  ASSUME Inv, NEW r \in Runners, Routable(r), CallOf(r)
  PROVE  Routable(r)'
<1>1. /\ Core /\ Formed(run[r]) /\ run[r] \in Call /\ State(r) = run[r].stored
      /\ State(r) \in Session /\ PhaseOf(r) = State(r).current_phase
  BY InvParts, CallFacts
<1>2. CASE CommitReview(r)
  <2> DEFINE result == run[r].result
             state == WithDecision(State(r), result.decision, result.target_phase)
  <2>1. /\ At(r, "reviewed") /\ Save(r, state, "judged")
        /\ result.decision \in Decisions /\ result.target_phase \in Choices
    BY <1>1, <1>2 DEF CommitReview, At, Formed, Reviewing, ReviewResult
  <2>2. state \in Session /\ state.current_phase = PhaseOf(r)
    BY <1>1, <2>1, WithDecisionFacts
  <2> HIDE DEF state
  <2>3. \/ run'[r] = Idle
        \/ run'[r].stored = Revised(state) /\ run'[r].result = result
    BY <1>1, <2>1, <2>2, SaveOutcome DEF Pcs
  <2>4. ReviewerRoute(PhaseOf(r), result) # BadTarget
    BY <2>1 DEF Routable, At
  <2> QED
    BY <2>2, <2>3, <2>4, RevisedFacts, IdleFormed DEF Routable, PhaseOf, State
<1>3. CASE Proceeding(r)
  <2>1. CASE InvokeReviewer(r)
    <3>1. \/ run'[r] = Idle
          \/ /\ run'[r].stored = run[r].stored
             /\ ReviewerRoute(PhaseOf(r), run'[r].result) # BadTarget
      BY <1>1, <2>1 DEF InvokeReviewer, Leave, Core, CallsTyped, Call
    <3> QED
      BY <3>1, IdleFormed DEF Routable, PhaseOf, State
  <2>2. CASE ~InvokeReviewer(r)
    <3>1. Execute(r) \/ PublishFiles(r) \/ PublishHandoff(r)
      BY <1>3, <2>2 DEF Proceeding
    <3>2. CASE Execute(r)
      BY <1>1, <3>2 DEF Execute, Core, CallsTyped, Call, Routable
    <3>3. CASE PublishFiles(r) \/ PublishHandoff(r)
      BY <1>1, <3>3 DEF PublishFiles, PublishHandoff, Core, CallsTyped, Call, Routable
    <3> QED
      BY <3>1, <3>2, <3>3
  <2> QED
    BY <2>1, <2>2
<1> QED
  BY <1>2, <1>3, PlaceAfter DEF Routable

LEMMA RoutableNext ==
  ASSUME Inv, \A r \in Runners : Routable(r), [Next]_vars
  PROVE  \A r \in Runners : Routable(r)'
<1> SUFFICES ASSUME NEW q \in Runners PROVE Routable(q)'
  OBVIOUS
<1>1. CASE UNCHANGED vars \/ \E s \in Sessions : Inject(s)
  BY <1>1 DEF vars, Inject, Routable, PhaseOf, State
<1>2. ASSUME NEW r \in Runners, CallOf(r) PROVE Routable(q)'
  <2>1. CASE q = r
    BY <1>2, <2>1, RoutableOwn
  <2>2. CASE q # r
    BY <1>2, <2>2, LocalStep DEF OthersStay, Routable, PhaseOf, State
  <2> QED
    BY <2>1, <2>2
<1> QED
  BY <1>1, <1>2, NextCases

-------------------------------------------------------------------------------
\* People's decisions are finitely many, so what a session is allowed is a number.
LEMMA AllowedNat ==
  ASSUME Inv, NEW s \in Sessions
  PROVE  /\ IsFiniteSet(Decided(store[s].reviews))
         /\ Cardinality(Decided(store[s].reviews)) \in Nat
         /\ interrupts \in Nat /\ pack[s].questions \in Nat /\ Allowed(s) \in Nat
<1>1. store[s].reviews \in Seq(ReviewEntry)
  BY InvParts DEF Core, StoreTyped, Session
<1>2. IsFiniteSet(1..Len(store[s].reviews))
  BY <1>1, FS_Interval
<1>3. Decided(store[s].reviews) \in SUBSET (1..Len(store[s].reviews))
  BY <1>1 DEF Decided
<1>4. /\ IsFiniteSet(Decided(store[s].reviews))
      /\ Cardinality(Decided(store[s].reviews)) \in Nat
  BY <1>2, <1>3, FS_Subset, FS_CardinalityType
<1>5. interrupts \in Nat /\ pack[s].questions \in Nat
  BY InvParts, EngineAssumption DEF RestTyped, Pack
<1> QED
  BY <1>4, <1>5 DEF Allowed

\* Questions and interruptions only add to what a session is allowed.
LEMMA AllowedGrow ==
  ASSUME Inv, NEW r \in Runners, CallOf(r), Answered(r), NEW s \in Sessions,
         Decided(store'[s].reviews) = Decided(store[s].reviews)
  PROVE  /\ Allowed(s) \in Nat /\ Allowed(s)' \in Nat
         /\ Allowed(s) <= Allowed(s)'
         /\ Pause(r) \/ Cancel(r) \/ Interrupt(r) => Allowed(s) < Allowed(s)'
         /\ s = SessionOf[r] /\ StopForQuestion(r) => Allowed(s) < Allowed(s)'
<1>1. /\ Core /\ RestTyped /\ pack[s] \in Pack /\ SessionOf[r] \in Sessions
  BY InvParts, CallFacts DEF RestTyped
<1>2. /\ interrupts \in Nat /\ interrupts' \in Nat /\ interrupts <= interrupts'
      /\ Pause(r) \/ Cancel(r) \/ Interrupt(r) => interrupts' = interrupts + 1
  BY InterruptsGrow
<1>3. /\ pack'[s].questions \in Nat /\ pack[s].questions <= pack'[s].questions
      /\ s = SessionOf[r] /\ StopForQuestion(r)
           => pack'[s].questions = pack[s].questions + 1
  <2>1. pack[s].questions \in Nat
    BY <1>1 DEF Pack
  <2>2. CASE StopForQuestion(r)
    <3>1. pack' = [pack EXCEPT ![SessionOf[r]].questions = @ + 1]
      BY <2>2 DEF StopForQuestion, Answered
    <3>2. CASE s = SessionOf[r]
      BY <1>1, <2>1, <3>1, <3>2 DEF RestTyped, Pack
    <3>3. CASE s # SessionOf[r]
      BY <1>1, <2>1, <3>1, <3>3 DEF RestTyped
    <3> QED
      BY <3>2, <3>3
  <2>3. CASE PublishFiles(r) \/ PublishHandoff(r) \/ LockPack(r)
    <3>1. pack'[s].questions = pack[s].questions
      <4>1. CASE PublishFiles(r)
        BY <1>1, <4>1 DEF PublishFiles, RestTyped, Pack
      <4>2. CASE PublishHandoff(r)
        BY <1>1, <4>2 DEF PublishHandoff, RestTyped, Pack
      <4>3. CASE LockPack(r)
        BY <1>1, <4>3 DEF LockPack, RestTyped, Pack
      <4> QED
        BY <2>3, <4>1, <4>2, <4>3
    <3>2. ~StopForQuestion(r)
      BY <2>3 DEF PublishFiles, PublishHandoff, LockPack, StopForQuestion, At
    <3> QED
      BY <2>1, <3>1, <3>2
  <2>4. CASE ~(\/ PublishFiles(r) \/ PublishHandoff(r) \/ StopForQuestion(r)
               \/ LockPack(r))
    <3>1. pack' = pack
      BY <1>1, <2>4, CommittingOutcome, MovingOutcome, CallCases
      DEF Ending, Proceeding, Open, Initialize, Start, Resume, Repeat,
          ReturnTerminal, Pause, Interrupt, Execute, InvokeReviewer, world
    <3> QED
      BY <2>1, <2>4, <3>1
  <2> QED
    BY <2>2, <2>3, <2>4
<1>4. /\ Cardinality(Decided(store[s].reviews)) \in Nat /\ pack[s].questions \in Nat
  BY AllowedNat
<1> QED
  BY <1>2, <1>3, <1>4 DEF Allowed

-------------------------------------------------------------------------------
(***************************************************************************)
(* The reckoning of a session through the steps of its own call.           *)
(***************************************************************************)
LEMMA UsedIs ==
  ASSUME OneCaller, NEW r \in Runners, NEW p
  PROVE  /\ (\E q \in Runners : SessionOf[q] = SessionOf[r] /\ Used(q, p))
              <=> Used(r, p)
         /\ (\E q \in Runners : SessionOf[q] = SessionOf[r] /\ Used(q, p)')
              <=> Used(r, p)'
BY DEF OneCaller

\* A step that opens no new use of the last decision.
LEMMA ReusableKept ==
  ASSUME OneCaller, NEW r \in Runners, NEW p,
         store'[SessionOf[r]].status \notin Terminal
           => store[SessionOf[r]].status \notin Terminal,
         LastDecision(store'[SessionOf[r]].reviews, p)
           = LastDecision(store[SessionOf[r]].reviews, p),
         Stuck(SessionOf[r]) => Stuck(SessionOf[r])',
         Used(r, p) => Used(r, p)'
  PROVE  Reusable(SessionOf[r], p)' => Reusable(SessionOf[r], p)
BY UsedIs DEF Reusable

LEMMA CoveredKept ==
  ASSUME Inv, NEW r \in Runners, CallOf(r), Answered(r), NEW p \in Phases,
         Covered(SessionOf[r], p),
         departures'[SessionOf[r]][p] = departures[SessionOf[r]][p],
         Decided(store'[SessionOf[r]].reviews) = Decided(store[SessionOf[r]].reviews),
         \/ Reusable(SessionOf[r], p)' => Reusable(SessionOf[r], p)
         \/ Pause(r) \/ Cancel(r) \/ Interrupt(r) \/ StopForQuestion(r)
  PROVE  Covered(SessionOf[r], p)'
<1> DEFINE s == SessionOf[r]
<1>1. /\ Allowed(s) \in Nat /\ Allowed(s)' \in Nat /\ Allowed(s) <= Allowed(s)'
      /\ Pause(r) \/ Cancel(r) \/ Interrupt(r) \/ StopForQuestion(r)
           => Allowed(s) < Allowed(s)'
  BY AllowedGrow, EngineAssumption
<1>2. s \in Sessions /\ departures[s][p] \in Nat
  BY InvParts, EngineAssumption DEF RestTyped
<1> HIDE DEF s
<1>3. /\ departures'[s][p] = departures[s][p] /\ departures[s][p] <= Allowed(s)
      /\ Reusable(s, p) => departures[s][p] < Allowed(s)
  BY DEF Covered, s
<1>4. departures'[s][p] <= Allowed(s)'
  BY <1>1, <1>2, <1>3
<1>5. Reusable(s, p)' => departures'[s][p] < Allowed(s)'
  <2>1. CASE Pause(r) \/ Cancel(r) \/ Interrupt(r) \/ StopForQuestion(r)
    BY <1>1, <1>2, <1>3, <2>1
  <2>2. CASE Reusable(s, p)' => Reusable(s, p)
    BY <1>1, <1>2, <1>3, <2>2
  <2> QED
    BY <2>1, <2>2 DEF s
<1> QED
  BY <1>4, <1>5 DEF Covered, s

\* A call that goes on with what is stored still knows what it has acted upon.
LEMMA UsedKept ==
  ASSUME NEW r \in Runners, NEW p,
         run'[r].pc \in Working \cup Reviewing,
         run'[r].stored = store'[SessionOf[r]] \/
           (run'[r].stored = run[r].stored /\ UNCHANGED store),
         CountOf(run'[r].stored.reviews, p) = CountOf(State(r).reviews, p),
         applied[EngineOf[r]] \subseteq applied'[EngineOf[r]]
  PROVE  Used(r, p) => Used(r, p)'
BY DEF Used, Fresh, State

LEMMA CoveredQuiet ==
  ASSUME OneCaller, Inv, NEW r \in Runners, CallOf(r), Answered(r),
         ~Committing(r), ~Moving(r), NEW p \in Phases, Covered(SessionOf[r], p)
  PROVE  Covered(SessionOf[r], p)'
<1> DEFINE s == SessionOf[r]
<1>1. /\ Core /\ RestTyped /\ Formed(run[r]) /\ run[r] \in Call
      /\ State(r) = run[r].stored /\ State(r) \in Session /\ s \in Sessions
      /\ departures'[s][p] = departures[s][p]
      /\ ~Open(r) => applied' = applied
  BY InvParts, CallFacts, DeparturesGrow DEF Moving
<1>2. ASSUME UNCHANGED store, Used(r, p) => Used(r, p)'
      PROVE  Covered(s, p)'
  <2>1. Stuck(s)' <=> Stuck(s)
    BY <1>2 DEF Stuck
  <2> QED
    BY <1>1, <1>2, <2>1, ReusableKept, CoveredKept
<1>3. CASE Open(r) \/ Resume(r) \/ ReturnTerminal(r) \/ LockPack(r)
  <2>1. UNCHANGED store /\ ~Used(r, p)
    BY <1>3 DEF Open, Resume, ReturnTerminal, LockPack, At, Used, Working, Reviewing
  <2> QED
    BY <1>2, <2>1
<1>4. CASE Pause(r) \/ Interrupt(r) \/ StopForQuestion(r)
  <2>1. UNCHANGED store
    BY <1>4 DEF Pause, Interrupt, StopForQuestion
  <2> QED
    BY <1>1, <1>4, <2>1, CoveredKept
<1>5. CASE Initialize(r)
  <2>1. CASE /\ store[s].status = "absent"
             /\ store' = [store EXCEPT ![s] = Initialized]
    <3>1. store[s] = Absent /\ store'[s] = Initialized
      BY <1>1, <2>1 DEF Core, AbsentBare, StoreTyped
    <3>2. store[s].reviews = <<>> /\ store'[s].reviews = <<>>
      BY <3>1 DEF Initialized, Absent
    <3>3. LastDecision(<<>>, p) = {}
      BY DEF LastDecision, Committed
    <3>4. ~Reusable(s, p)'
      BY <3>2, <3>3 DEF Reusable
    <3> QED
      BY <1>1, <3>2, <3>4, CoveredKept
  <2>2. CASE UNCHANGED store
    BY <1>2, <1>5, <2>2 DEF Initialize, At, Used, Working, Reviewing
  <2> QED
    BY <1>5, <2>1, <2>2 DEF Initialize
<1>6. CASE Start(r)
  <2> DEFINE state == [State(r) EXCEPT !.status = "in_progress",
                                       !.run_metadata = metadata[EngineOf[r]]]
  <2>1. /\ state \in Session /\ state.status = "in_progress"
        /\ state.reviews = State(r).reviews
        /\ state.current_phase = State(r).current_phase
    BY <1>1, EngineAssumption DEF RestTyped, Session, Statuses
  <2>2. /\ Save(r, state, Dispatch(state)) /\ At(r, "opened")
        /\ State(r).status = "initialized" /\ ~Used(r, p)
    BY <1>6 DEF Start, At, Used, Working, Reviewing
  <2> HIDE DEF state
  <2>3. Dispatch(state) \in Pcs
    BY DEF Dispatch, Pcs
  <2>4. CASE UNCHANGED store
    BY <1>2, <2>2, <2>4
  <2>5. CASE Fresh(r) /\ store'[s] = Revised(state)
    <3>1. State(r) = store[s]
      BY <1>1, <2>2, <2>5 DEF Core, SnapshotCurrent, At
    <3>2. /\ store'[s].reviews = store[s].reviews
          /\ store'[s].current_phase = store[s].current_phase
          /\ store[s].status \notin Terminal
      BY <2>1, <2>2, <2>5, <3>1, RevisedFacts DEF Terminal
    <3>3. Stuck(s)' <=> Stuck(s)
      BY <3>2 DEF Stuck
    <3> QED
      BY <1>1, <2>2, <3>2, <3>3, ReusableKept, CoveredKept
  <2> QED
    BY <1>1, <2>1, <2>2, <2>3, <2>4, <2>5, SaveOutcome
<1>7. CASE Repeat(r)
  <2>1. UNCHANGED store /\ run'[r] = NextCall(r, "work", State(r))
    BY <1>1, <1>7 DEF Repeat, Continue, Core, CallsTyped
  <2>2. run'[r].pc = "work" /\ run'[r].stored = run[r].stored
    BY <1>1, <2>1 DEF NextCall
  <2>3. ~Open(r)
    BY <1>7 DEF Repeat, Concluding, Open, At
  <2> QED
    BY <1>1, <1>2, <2>1, <2>2, <2>3, UsedKept DEF Working
<1>8. CASE Proceeding(r)
  <2>1. UNCHANGED store /\ ~Open(r)
    BY <1>1, <1>8, ProceedingOutcome DEF Open, At
  <2>2. CASE Execute(r)
    <3>1. run'[r].pc \in {"produced", "published"} /\ run'[r].stored = run[r].stored
      BY <1>1, <2>2 DEF Execute, Core, CallsTyped, Call
    <3> QED
      BY <1>1, <1>2, <2>1, <3>1, UsedKept DEF Working
  <2>3. CASE PublishFiles(r) \/ PublishHandoff(r)
    <3>1. run'[r].pc \in {"filed", "published"} /\ run'[r].stored = run[r].stored
      BY <1>1, <2>3 DEF PublishFiles, PublishHandoff, Core, CallsTyped, Call
    <3> QED
      BY <1>1, <1>2, <2>1, <3>1, UsedKept DEF Working
  <2>4. CASE InvokeReviewer(r)
    <3>1. run'[r].pc = "reviewed" /\ run'[r].stored = run[r].stored
      BY <1>1, <1>8, <2>4, ProceedingOutcome, IdleFormed DEF Answered
    <3> QED
      BY <1>1, <1>2, <2>1, <3>1, UsedKept DEF Reviewing
  <2> QED
    BY <1>8, <2>2, <2>3, <2>4 DEF Proceeding
<1> QED
  BY <1>3, <1>4, <1>5, <1>6, <1>7, <1>8, CallCases DEF Ending

\* A call that has lost the race for the record had no use of it any more.
LEMMA CoveredLost ==
  ASSUME OneCaller, Inv, NEW r \in Runners, CallOf(r), Answered(r),
         UNCHANGED store, ~Fresh(r), NEW p \in Phases, Covered(SessionOf[r], p),
         departures'[SessionOf[r]][p] = departures[SessionOf[r]][p]
  PROVE  Covered(SessionOf[r], p)'
<1>1. ~Used(r, p) /\ (Stuck(SessionOf[r])' <=> Stuck(SessionOf[r]))
  BY DEF Used, Stuck
<1> QED
  BY <1>1, ReusableKept, CoveredKept

\* What a new review leaves of people's decisions, and of the last of a phase.
LEMMA DecidedAppend ==
  ASSUME NEW reviews \in Seq(ReviewEntry), NEW e \in ReviewEntry
  PROVE  /\ e.decision = "PENDING" \/ e.phase_id \notin Human
              => Decided(Append(reviews, e)) = Decided(reviews)
         /\ \A p : p # e.phase_id =>
              /\ CountOf(Append(reviews, e), p) = CountOf(reviews, p)
              /\ LastDecision(Append(reviews, e), p) = LastDecision(reviews, p)
<1>1. /\ DOMAIN Append(reviews, e) = 1..(Len(reviews) + 1)
      /\ DOMAIN reviews = 1..Len(reviews) /\ Len(reviews) \in Nat
      /\ \A i \in 1..Len(reviews) : Append(reviews, e)[i] = reviews[i]
      /\ Append(reviews, e)[Len(reviews) + 1] = e
  OBVIOUS
<1>2. \A i \in 1..(Len(reviews) + 1) : i \in 1..Len(reviews) \/ i = Len(reviews) + 1
  BY <1>1
<1>3. \A i \in 1..Len(reviews) : i \in 1..(Len(reviews) + 1)
  BY <1>1
<1>4. ASSUME e.decision = "PENDING" \/ e.phase_id \notin Human
      PROVE  Decided(Append(reviews, e)) = Decided(reviews)
  BY <1>1, <1>2, <1>3, <1>4 DEF Decided
<1>5. ASSUME NEW p, p # e.phase_id
      PROVE  /\ CountOf(Append(reviews, e), p) = CountOf(reviews, p)
             /\ LastDecision(Append(reviews, e), p) = LastDecision(reviews, p)
  <2>1. CountOf(Append(reviews, e), p) = CountOf(reviews, p)
    BY <1>5, EntriesAppend DEF CountOf
  <2>2. ASSUME NEW n PROVE Committed(Append(reviews, e), p, n) = Committed(reviews, p, n)
    BY <1>1, <1>2, <1>3, <1>5 DEF Committed
  <2> QED
    BY <2>1, <2>2 DEF LastDecision
<1> QED
  BY <1>4, <1>5

\* A stub that has just been added is the last review of its phase, undecided.
LEMMA StubLast ==
  ASSUME NEW session \in Session, WellKept(session)
  PROVE  LET p == session.current_phase
             e == NewReview(session, "PENDING", NoPhase)
         IN LastDecision(Append(session.reviews, e), p) = {}
<1> DEFINE p == session.current_phase
           e == NewReview(session, "PENDING", NoPhase)
           reviews == session.reviews
<1>1. /\ reviews \in Seq(ReviewEntry) /\ e \in ReviewEntry
      /\ e.phase_id = p /\ e.decision = "PENDING"
  <2>1. NoPhase \in Choices /\ "PENDING" \in Decisions \cup {"PENDING"}
    BY DEF Choices
  <2>2. session.reviews \in Seq(ReviewEntry)
    BY DEF Session
  <2>3. e \in ReviewEntry /\ e.phase_id = p /\ e.decision = "PENDING"
    BY <2>1, WithReviewFacts
  <2> QED
    BY <2>2, <2>3
<1> HIDE DEF e
<1>2. /\ DOMAIN Append(reviews, e) = 1..(Len(reviews) + 1)
      /\ DOMAIN reviews = 1..Len(reviews) /\ Len(reviews) \in Nat
      /\ \A i \in 1..Len(reviews) : Append(reviews, e)[i] = reviews[i]
      /\ Append(reviews, e)[Len(reviews) + 1] = e
  BY <1>1
<1>3. CountOf(Append(reviews, e), p) = CountOf(reviews, p) + 1
  BY <1>1, CountAppend
<1>4. ASSUME NEW i \in LastDecision(Append(reviews, e), p) PROVE FALSE
  <2>1. /\ i \in 1..(Len(reviews) + 1)
        /\ Append(reviews, e)[i].phase_id = p
        /\ Append(reviews, e)[i].review = CountOf(reviews, p) + 1
        /\ Append(reviews, e)[i].decision # "PENDING"
    BY <1>2, <1>3, <1>4 DEF LastDecision, Committed
  <2>2. i \in 1..Len(reviews)
    BY <1>1, <1>2, <2>1
  <2> QED
    BY <1>2, <2>1, <2>2, NumbersBelow
<1> QED
  BY <1>4 DEF e

LEMMA CoveredCommit ==
  ASSUME OneCaller, Inv, AllKept, NEW r \in Runners, Committing(r), Answered(r),
         NEW p \in Human, Covered(SessionOf[r], p)
  PROVE  Covered(SessionOf[r], p)'
<1> DEFINE s == SessionOf[r]
<1>1. /\ Core /\ RestTyped /\ Formed(run[r]) /\ State(r) = run[r].stored
      /\ State(r) \in Session /\ s \in Sessions /\ CallOf(r) /\ p \in Phases
      /\ ~At(r, "idle") /\ ~At(r, "missing")
      /\ State(r).reviews \in Seq(ReviewEntry)
      /\ PhaseOf(r) = State(r).current_phase
      /\ UNCHANGED <<departures, applied>> /\ run[r].pc \in Working \cup Reviewing
  BY InvParts, CallFacts, CommittingOutcome, GraphAssumption
  DEF Committing, CallOf, Step, At, Session, ValidGraph, world, Working, Reviewing
<1>2. State(r).status = "in_progress"
  BY <1>1 DEF Formed
<1>3. Fresh(r) => State(r) = store[s] /\ WellKept(State(r))
  BY <1>1 DEF Core, SnapshotCurrent, AllKept
<1>4. CASE ~Fresh(r)
  <2>1. UNCHANGED store
    BY <1>1, <1>4, CommittingOutcome, SaveOutcome DEF Pcs
  <2> QED
    BY <1>1, <1>4, <2>1, CoveredLost
<1>5. CASE Fresh(r) /\ CommitIteration(r)
  <2> DEFINE state == WithIteration(State(r), run[r].result)
  <2>1. /\ Save(r, state, "committed")
        /\ run[r].result.confidence_score \in Scores
        /\ run[r].result.handoff \in BOOLEAN
    BY <1>1, <1>5 DEF CommitIteration, At, Formed, Working, ExecutionResult
  <2>2. /\ state \in Session /\ state.reviews = State(r).reviews
        /\ state.current_phase = State(r).current_phase
    BY <1>1, <2>1, WithIterationFacts
  <2> HIDE DEF state
  <2>3. /\ store'[s] = Revised(state) /\ run'[r].pc = "committed"
        /\ run'[r].stored = store'[s]
    BY <1>1, <1>5, <2>1, <2>2, SaveOutcome DEF Pcs
  <2>4. /\ store'[s].reviews = store[s].reviews
        /\ store'[s].current_phase = store[s].current_phase
        /\ State(r).reviews = store[s].reviews
    BY <1>3, <1>5, <2>2, <2>3, RevisedFacts
  <2>5. Stuck(s)' <=> Stuck(s)
    BY <2>4 DEF Stuck
  <2>6. Used(r, p) => Used(r, p)'
    BY <1>1, <2>3, <2>4, UsedKept DEF Working
  <2> QED
    BY <1>1, <1>2, <1>3, <1>5, <2>4, <2>5, <2>6, ReusableKept, CoveredKept
    DEF Terminal
<1>6. CASE Fresh(r) /\ CommitReview(r)
  <2> DEFINE result == run[r].result
             e == NewReview(State(r), result.decision, result.target_phase)
             state == WithDecision(State(r), result.decision, result.target_phase)
  <2>1. /\ Save(r, state, "judged") /\ PhaseOf(r) \notin Human
        /\ result.decision \in Decisions /\ result.target_phase \in Choices
    BY <1>1, <1>6 DEF CommitReview, At, Formed, Reviewing, ReviewResult
  <2>2. /\ state \in Session /\ state.reviews = Append(State(r).reviews, e)
        /\ e \in ReviewEntry /\ e.phase_id = PhaseOf(r)
        /\ state.current_phase = State(r).current_phase
    BY <1>1, <2>1, WithDecisionFacts
  <2> HIDE DEF state, e
  <2>3. /\ store'[s] = Revised(state) /\ run'[r].pc = "judged"
        /\ run'[r].stored = store'[s]
    BY <1>1, <1>6, <2>1, <2>2, SaveOutcome DEF Pcs
  <2>4. /\ store'[s].reviews = Append(store[s].reviews, e)
        /\ State(r).reviews = store[s].reviews
    BY <1>3, <1>6, <2>2, <2>3, RevisedFacts
  <2>5. /\ Decided(store'[s].reviews) = Decided(store[s].reviews)
        /\ CountOf(store'[s].reviews, p) = CountOf(store[s].reviews, p)
        /\ LastDecision(store'[s].reviews, p) = LastDecision(store[s].reviews, p)
    BY <1>1, <2>1, <2>2, <2>4, DecidedAppend
  <2>6. ~Stuck(s)
    BY <1>1, <1>3, <1>6, <2>1 DEF Stuck
  <2>7. Used(r, p) => Used(r, p)'
    BY <1>1, <2>3, <2>4, <2>5, UsedKept DEF Reviewing
  <2> QED
    BY <1>1, <1>2, <1>3, <1>6, <2>5, <2>6, <2>7, ReusableKept, CoveredKept
    DEF Terminal
<1>7. CASE Fresh(r) /\ AskHuman(r)
  <2> DEFINE e == NewReview(State(r), "PENDING", NoPhase)
             state == WithReview(State(r), "PENDING", NoPhase)
  <2>1. Save(r, state, "idle") /\ PhaseOf(r) \in Human /\ PhaseOf(r) \in Reviews
    BY <1>1, <1>7 DEF AskHuman, At, Formed, Reviewing
  <2>2. /\ state \in Session /\ state.reviews = Append(State(r).reviews, e)
        /\ e \in ReviewEntry /\ e.decision = "PENDING"
        /\ state.current_phase = State(r).current_phase
    <3>1. NoPhase \in Choices /\ "PENDING" \in Decisions \cup {"PENDING"}
      BY DEF Choices
    <3> QED
      BY <1>1, <3>1, WithReviewFacts
  <2>3. LastDecision(Append(State(r).reviews, e), PhaseOf(r)) = {}
    BY <1>1, <1>3, <1>7, StubLast
  <2> HIDE DEF state, e
  <2>4. store'[s] = Revised(state)
    BY <1>1, <1>7, <2>1, <2>2, SaveOutcome DEF Pcs
  <2>5. /\ store'[s].reviews = Append(store[s].reviews, e)
        /\ State(r).reviews = store[s].reviews
        /\ store'[s].current_phase = PhaseOf(r)
    <3>1. Revised(state).reviews = state.reviews
          /\ Revised(state).current_phase = state.current_phase
      BY <2>2, RevisedFacts
    <3> QED
      BY <1>1, <1>3, <1>7, <2>2, <2>4, <3>1
  <2>6. Decided(store'[s].reviews) = Decided(store[s].reviews)
    BY <1>1, <2>2, <2>5, DecidedAppend
  <2>7. ~Reusable(s, p)'
    BY <2>1, <2>3, <2>5 DEF Reusable, Stuck
  <2> QED
    BY <1>1, <2>6, <2>7, CoveredKept
<1> QED
  BY <1>4, <1>5, <1>6, <1>7 DEF Committing

\* A move of the current record to where the graph leads.
LEMMA CoveredRoute ==
  ASSUME OneCaller, Inv, NEW r \in Runners, CallOf(r), Answered(r),
         ~At(r, "idle"), ~At(r, "missing"),
         Fresh(r), State(r).status = "in_progress",
         NEW target, Route(r, target), target # BadTarget,
         ~Stuck(SessionOf[r]), applied[EngineOf[r]] \subseteq applied'[EngineOf[r]],
         NEW p \in Phases, Covered(SessionOf[r], p),
         departures'[SessionOf[r]][p] = departures[SessionOf[r]][p]
  PROVE  Covered(SessionOf[r], p)'
<1> DEFINE s == SessionOf[r]
<1>1. /\ Core /\ State(r) = store[s] /\ s \in Sessions /\ State(r) = run[r].stored
  BY InvParts, CallFacts DEF Core, SnapshotCurrent
<1>2. /\ store'[s].status \in Terminal \/ run'[r].pc \in {"work", "review"}
      /\ SameLogs(store[s], store'[s])
  BY <1>1, RouteOutcome
<1>3. Decided(store'[s].reviews) = Decided(store[s].reviews)
  BY <1>2 DEF SameLogs
<1>4. CASE store'[s].status \in Terminal
  <2>1. ~Reusable(s, p)'
    BY <1>4 DEF Reusable
  <2> QED
    BY <1>3, <2>1, CoveredKept
<1>5. CASE run'[r].pc \in {"work", "review"}
  <2>1. Moves(r)
    BY DEF Moves
  <2>2. run'[r].stored = store'[s]
    BY <1>1, <1>5, <2>1, MoveOutcome, IdleFormed
  <2>3. Used(r, p) => Used(r, p)'
    BY <1>1, <1>2, <1>5, <2>2, UsedKept DEF SameLogs, Working, Reviewing
  <2> QED
    BY <1>1, <1>2, <1>3, <2>3, ReusableKept, CoveredKept DEF SameLogs, Terminal
<1> QED
  BY <1>2, <1>4, <1>5

LEMMA CoveredMove ==
  ASSUME OneCaller, Inv, NEW r \in Runners, Moving(r), ~ApplyDecision(r),
         Answered(r), Routable(r), NEW p \in Human, Covered(SessionOf[r], p)
  PROVE  Covered(SessionOf[r], p)'
<1> DEFINE s == SessionOf[r]
<1>1. /\ Core /\ Formed(run[r]) /\ State(r) = run[r].stored /\ s \in Sessions
      /\ State(r) \in Session /\ PhaseOf(r) = State(r).current_phase
      /\ PhaseOf(r) \in Phases /\ CallOf(r) /\ p \in Phases
      /\ ~At(r, "idle") /\ ~At(r, "missing")
      /\ Moves(r) /\ State(r).status = "in_progress"
  BY InvParts, CallFacts, MovingOutcome, GraphAssumption
  DEF Moving, CallOf, Step, At, ValidGraph
<1>2. departures' = departures /\ (~Open(r) => applied' = applied) /\ ~Open(r)
  BY <1>1, DeparturesGrow DEF Open
<1>3. CASE ~Fresh(r)
  <2>1. UNCHANGED store
    BY <1>1, <1>3, MoveOutcome
  <2> QED
    BY <1>1, <1>2, <1>3, <2>1, CoveredLost
<1>4. Fresh(r) => State(r) = store[s]
  BY <1>1 DEF Core, SnapshotCurrent
<1>5. ASSUME Fresh(r), NEW status \in Terminal, Finalize(r, status)
      PROVE  Covered(s, p)'
  <2>1. store'[s].status \in Terminal /\ SameLogs(store[s], store'[s])
    BY <1>1, <1>4, <1>5, EndsFresh
  <2>2. ~Reusable(s, p)' /\ Decided(store'[s].reviews) = Decided(store[s].reviews)
    BY <2>1 DEF Reusable, SameLogs
  <2> QED
    BY <1>1, <1>2, <2>2, CoveredKept
<1>6. CASE Fresh(r) /\ (AbandonWithoutHandoff(r) \/ GiveUp(r) \/ Cancel(r))
  <2>1. \E status \in Terminal : Finalize(r, status)
    BY <1>6 DEF AbandonWithoutHandoff, GiveUp, Cancel, Terminal
  <2> QED
    BY <1>5, <1>6, <2>1
<1>7. CASE Fresh(r) /\ LeaveExecutor(r)
  <2> DEFINE target == Resolve(OnComplete[PhaseOf(r)], run[r].result.chosen_next)
  <2>1. Route(r, target) /\ target # BadTarget
    BY <1>7 DEF LeaveExecutor, Answered
  <2>2. PhaseOf(r) \in Executors
    BY <1>1, <1>7 DEF LeaveExecutor, Concluding, At, Formed, Working
  <2>3. ~Stuck(s)
    BY <1>1, <1>4, <1>7, <2>2 DEF Stuck, Reviews
  <2> HIDE DEF target
  <2> QED
    BY <1>1, <1>2, <1>7, <2>1, <2>3, CoveredRoute
<1>8. CASE Fresh(r) /\ ConcludeReview(r)
  <2> DEFINE target == ReviewerRoute(PhaseOf(r), run[r].result)
  <2>1. /\ At(r, "judged") /\ PhaseOf(r) \notin Human
        /\ Finalize(r, "abandoned") \/ Route(r, target)
    BY <1>1, <1>8 DEF ConcludeReview, At, Formed, Reviewing
  <2>2. target # BadTarget
    BY <2>1 DEF Routable, At
  <2>3. ~Stuck(s)
    BY <1>1, <1>4, <1>8, <2>1 DEF Stuck
  <2> HIDE DEF target
  <2>4. CASE Finalize(r, "abandoned")
    BY <1>5, <1>8, <2>4 DEF Terminal
  <2>5. CASE Route(r, target)
    BY <1>1, <1>2, <1>8, <2>2, <2>3, <2>5, CoveredRoute
  <2> QED
    BY <2>1, <2>4, <2>5
<1> QED
  BY <1>3, <1>6, <1>7, <1>8 DEF Moving

\* A decision is applied to the current record as the last one of its phase,
\* and only once in the run.
LEMMA ApplyLast ==
  ASSUME Inv, AllKept, NEW r \in Runners, ApplyDecision(r), Fresh(r)
  PROVE  LET p == PhaseOf(r)
             reviews == State(r).reviews
             n == CountOf(reviews, p)
         IN /\ State(r) = store[SessionOf[r]]
            /\ p \in Human \cap Reviews
            /\ <<p, n>> \notin applied[EngineOf[r]]
            /\ LastDecision(reviews, p) # {}
            /\ Route(r, DecidedRoute(reviews, p))
            /\ applied' = [applied EXCEPT ![EngineOf[r]] = @ \cup {<<p, n>>}]
<1> DEFINE p == PhaseOf(r)
           reviews == State(r).reviews
           n == CountOf(reviews, p)
<1>1. /\ Core /\ State(r) \in Session /\ At(r, "review") /\ Formed(run[r])
      /\ State(r) = run[r].stored /\ SessionOf[r] \in Sessions
      /\ PhaseOf(r) = State(r).current_phase
  BY InvParts, CallFacts DEF ApplyDecision
<1>2. State(r) = store[SessionOf[r]] /\ p \in Reviews
  BY <1>1 DEF Core, SnapshotCurrent, At, Formed, Reviewing
<1>3. WellKept(State(r))
  BY <1>1, <1>2 DEF AllKept
<1>4. n \in Nat
  BY <1>1, EntriesFinite DEF Session
<1>5. Committed(reviews, p, n + 1) = {}
  <2> SUFFICES ASSUME NEW i \in Committed(reviews, p, n + 1) PROVE FALSE
    OBVIOUS
  <2>1. i \in DOMAIN reviews /\ reviews[i].phase_id = p /\ reviews[i].review = n + 1
    BY DEF Committed
  <2> QED
    BY <1>1, <1>3, <2>1, NumbersBelow
<1>6. /\ (n + 1) - 1 = n
      /\ ToApply(r) # 0
  BY <1>4 DEF ApplyDecision
<1>7. /\ p \in Human /\ <<p, n>> \notin applied[EngineOf[r]]
      /\ Committed(reviews, p, n) # {} /\ ToApply(r) = n
  BY <1>5, <1>6 DEF ToApply
<1>8. /\ Route(r, DecidedRoute(reviews, p))
      /\ applied' = [applied EXCEPT ![EngineOf[r]] = @ \cup {<<p, n>>}]
  BY <1>7 DEF ApplyDecision, DecidedRoute, LastDecision
<1> QED
  BY <1>2, <1>7, <1>8 DEF LastDecision

LEMMA CoveredApply ==
  ASSUME OneCaller, Inv, AllKept, NEW r \in Runners, ApplyDecision(r), Answered(r),
         NEW p \in Human, Covered(SessionOf[r], p)
  PROVE  Covered(SessionOf[r], p)'
<1> DEFINE s == SessionOf[r]
           q == PhaseOf(r)
           reviews == State(r).reviews
           n == CountOf(reviews, q)
           target == DecidedRoute(reviews, q)
<1>1. /\ Core /\ RestTyped /\ Formed(run[r]) /\ State(r) = run[r].stored
      /\ s \in Sessions /\ State(r) \in Session /\ q = State(r).current_phase
      /\ q \in Phases /\ CallOf(r) /\ p \in Phases /\ EngineOf[r] \in Engines
      /\ At(r, "review") /\ ~At(r, "idle") /\ ~At(r, "missing")
      /\ Moves(r) /\ State(r).status = "in_progress"
      /\ departures[s][p] \in Nat
      /\ departures' = IF store' = store THEN departures
                       ELSE [departures EXCEPT ![s][q] = @ + 1]
  <2>1. Moving(r) /\ CallOf(r)
    BY DEF Moving, CallOf, Step
  <2>2. /\ Core /\ RestTyped /\ p \in Phases /\ EngineOf[r] \in Engines
        /\ departures[s][p] \in Nat
    BY InvParts, CallFacts, GraphAssumption, EngineAssumption DEF ValidGraph, RestTyped
  <2>3. /\ At(r, "review") /\ ~At(r, "idle") /\ ~At(r, "missing")
        /\ departures' = IF store' = store THEN departures
                         ELSE [departures EXCEPT ![s][q] = @ + 1]
    BY DEF ApplyDecision, At
  <2> QED
    BY <2>1, <2>2, <2>3, CallFacts, MovingOutcome
<1>2. departures'[s][p] =
        IF store' = store \/ p # q THEN departures[s][p] ELSE departures[s][p] + 1
  BY <1>1 DEF RestTyped
<1>3. CASE ~Fresh(r)
  <2>1. UNCHANGED store
    BY <1>1, <1>3, MoveOutcome
  <2> QED
    BY <1>1, <1>2, <1>3, <2>1, CoveredLost
<1>4. CASE Fresh(r)
  <2>1. /\ State(r) = store[s] /\ q \in Human \cap Reviews
        /\ <<q, n>> \notin applied[EngineOf[r]]
        /\ LastDecision(reviews, q) # {} /\ Route(r, target)
        /\ applied' = [applied EXCEPT ![EngineOf[r]] = @ \cup {<<q, n>>}]
    BY <1>4, ApplyLast
  <2>2. Stuck(s) <=> target = BadTarget
    BY <1>1, <2>1 DEF Stuck
  <2>3. applied'[EngineOf[r]] = applied[EngineOf[r]] \cup {<<q, n>>}
    BY <1>1, <2>1 DEF RestTyped
  <2> HIDE DEF target
  <2>4. CASE target = BadTarget
    <3>1. UNCHANGED store
      BY <1>1, <2>1, <2>4, GraphAssumption DEF Route, ValidGraph
    <3>2. ~Reusable(s, p)'
      BY <2>2, <2>4, <3>1 DEF Reusable, Stuck
    <3> QED
      BY <1>1, <1>2, <3>1, <3>2, CoveredKept
  <2>5. CASE target # BadTarget /\ p # q
    BY <1>1, <1>2, <1>4, <2>1, <2>2, <2>3, <2>5, CoveredRoute
  <2>6. CASE target # BadTarget /\ p = q
    <3>1. /\ store'[s].status \in Terminal \/ run'[r].pc \in {"work", "review"}
          /\ SameLogs(store[s], store'[s])
      BY <1>1, <2>1, <2>6, RouteOutcome
    <3>2. Decided(store'[s].reviews) = Decided(store[s].reviews)
      BY <3>1 DEF SameLogs
    <3>3. /\ Allowed(s) \in Nat /\ Allowed(s)' \in Nat /\ Allowed(s) <= Allowed(s)'
      BY <1>1, <3>2, AllowedGrow
    <3>4. Reusable(s, p)
      BY <1>1, <2>1, <2>2, <2>6, UsedIs DEF Reusable, Used, Terminal
    <3>5. departures[s][p] < Allowed(s)
      BY <3>4 DEF Covered
    <3>6. departures'[s][p] <= departures[s][p] + 1
      BY <1>1, <1>2
    <3>7. departures'[s][p] <= Allowed(s)'
      <4>1. departures'[s][p] \in Nat
        BY <1>1, <1>2
      <4> HIDE DEF s
      <4> QED
        BY <1>1, <3>3, <3>5, <3>6, <4>1
    <3>8. ~Reusable(s, p)'
      <4>1. CASE store'[s].status \in Terminal
        BY <4>1 DEF Reusable
      <4>2. CASE run'[r].pc \in {"work", "review"}
        <5>1. run'[r].stored = store'[s]
          BY <1>1, <4>2, MoveOutcome, IdleFormed
        <5>2. CountOf(run'[r].stored.reviews, p) = n
          BY <2>1, <2>6, <3>1, <5>1 DEF SameLogs
        <5>3. Used(r, p)'
          BY <2>3, <2>6, <4>2, <5>1, <5>2 DEF Used, Fresh, State, Working, Reviewing
        <5> QED
          BY <5>3, UsedIs DEF Reusable
      <4> QED
        BY <3>1, <4>1, <4>2
    <3> QED
      BY <3>7, <3>8 DEF Covered
  <2> QED
    BY <2>4, <2>5, <2>6
<1> QED
  BY <1>3, <1>4

LEMMA CoveredOwn ==
  ASSUME OneCaller, Inv, AllKept, NEW r \in Runners, CallOf(r), Answered(r),
         Routable(r), NEW p \in Human, Covered(SessionOf[r], p)
  PROVE  Covered(SessionOf[r], p)'
<1>1. p \in Phases
  BY GraphAssumption DEF ValidGraph
<1> QED
  BY <1>1, CoveredQuiet, CoveredCommit, CoveredMove, CoveredApply

\* A session is not reckoned with the steps of other sessions' calls, on engines
\* of their own.
LEMMA CoveredOther ==
  ASSUME OwnEngine, Inv, NEW r \in Runners, CallOf(r), Answered(r),
         NEW s \in Sessions, s # SessionOf[r], NEW p \in Human, Covered(s, p)
  PROVE  Covered(s, p)'
<1>1. /\ OthersStay(r) /\ s \in Sessions \ {SessionOf[r]} /\ p \in Phases
      /\ RestTyped
  BY LocalStep, InvParts, GraphAssumption DEF ValidGraph
<1>2. store'[s] = store[s] /\ departures'[s] = departures[s]
  BY <1>1 DEF OthersStay
<1>3. ASSUME NEW q \in Runners, SessionOf[q] = s
      PROVE  Used(q, p)' <=> Used(q, p)
  <2>1. q # r /\ EngineOf[q] \in Engines \ {EngineOf[r]}
    BY <1>1, <1>3, EngineAssumption DEF OwnEngine
  <2>2. run'[q] = run[q] /\ applied'[EngineOf[q]] = applied[EngineOf[q]]
    BY <1>1, <2>1 DEF OthersStay
  <2> QED
    BY <1>2, <1>3, <2>2 DEF Used, Fresh, State
<1>4. Stuck(s)' <=> Stuck(s)
  BY <1>2 DEF Stuck
<1>5. Reusable(s, p)' <=> Reusable(s, p)
  BY <1>2, <1>3, <1>4 DEF Reusable
<1>6. Allowed(s) \in Nat /\ Allowed(s)' \in Nat /\ Allowed(s) <= Allowed(s)'
  BY <1>2, AllowedGrow
<1>7. departures[s][p] \in Nat /\ departures'[s][p] = departures[s][p]
  BY <1>1, <1>2 DEF RestTyped
<1> QED
  BY <1>5, <1>6, <1>7 DEF Covered

\* A person's decision pays for one more departure from whichever human phase.
LEMMA CoveredInject ==
  ASSUME Inv, AllKept, NEW s \in Sessions, Inject(s), NEW p \in Human,
         NEW t \in Sessions, Covered(t, p)
  PROVE  Covered(t, p)'
<1>1. /\ UNCHANGED <<run, pack, applied, interrupts, departures>>
      /\ \A u \in Sessions \ {s} : store'[u] = store[u]
  BY InjectOutcome
<1>2. CASE t = s
  <2>1. PICK i \in DOMAIN store[s].reviews, d \in HumanDecisions :
          /\ store[s].reviews[i].decision = "PENDING"
          /\ store' = [store EXCEPT
                         ![s] = Revised(WithAnswer(@, i, d.decision, d.target_phase))]
    BY DEF Inject
  <2> DEFINE state == WithAnswer(store[s], i, d.decision, d.target_phase)
  <2>2. /\ store \in [Sessions -> Session] /\ store[s] \in Session
        /\ WellKept(store[s])
        /\ d.decision \in Decisions /\ d.target_phase \in Choices
    BY InvParts, EngineAssumption DEF Core, StoreTyped, AllKept, HumanDecision
  <2>3. /\ state \in Session
        /\ DOMAIN state.reviews = DOMAIN store[s].reviews
        /\ \A j \in DOMAIN store[s].reviews :
             /\ state.reviews[j].phase_id = store[s].reviews[j].phase_id
             /\ state.reviews[j].decision =
                  IF j = i THEN d.decision ELSE store[s].reviews[j].decision
    BY <2>2, WithAnswerFacts
  <2>4. store'[s] = Revised(state)
    BY <2>1, <2>2
  <2> HIDE DEF state
  <2>5. store'[s].reviews = state.reviews
    BY <2>3, <2>4, RevisedFacts
  <2>6. store[s].reviews[i].phase_id \in Human
    BY <2>1, <2>2 DEF WellKept, StubsHuman
  <2>7. Decided(store'[s].reviews) = Decided(store[s].reviews) \cup {i}
    BY <2>2, <2>3, <2>5, <2>6 DEF Decided, Decisions
  <2>8. i \notin Decided(store[s].reviews)
    BY <2>1 DEF Decided
  <2>9. /\ IsFiniteSet(Decided(store[s].reviews))
        /\ Cardinality(Decided(store[s].reviews)) \in Nat
        /\ interrupts \in Nat /\ pack[s].questions \in Nat
    BY AllowedNat
  <2>10. Cardinality(Decided(store'[s].reviews))
           = Cardinality(Decided(store[s].reviews)) + 1
    BY <2>7, <2>8, <2>9, FS_AddElement
  <2>11. Allowed(s)' = Allowed(s) + 1 /\ Allowed(s) \in Nat
    BY <1>1, <2>9, <2>10 DEF Allowed
  <2>12. departures[s][p] \in Nat /\ departures' = departures
    BY <1>1, InvParts, GraphAssumption DEF RestTyped, ValidGraph
  <2> QED
    BY <1>2, <2>11, <2>12 DEF Covered
<1>3. CASE t # s
  <2>1. store'[t] = store[t]
    BY <1>1, <1>3
  <2>2. ASSUME NEW q \in Runners, SessionOf[q] = t
        PROVE  Used(q, p)' <=> Used(q, p)
    BY <1>1, <2>1, <2>2 DEF Used, Fresh, State
  <2>3. Stuck(t)' <=> Stuck(t)
    BY <2>1 DEF Stuck
  <2>4. Reusable(t, p)' <=> Reusable(t, p)
    BY <2>1, <2>2, <2>3 DEF Reusable
  <2>5. Allowed(t)' = Allowed(t) /\ departures' = departures
    BY <1>1, <2>1 DEF Allowed
  <2> QED
    BY <2>4, <2>5 DEF Covered
<1> QED
  BY <1>2, <1>3

LEMMA CoveredNext ==
  ASSUME OneCaller, OwnEngine, Inv, AllKept, \A r \in Runners : Routable(r),
         \A s \in Sessions, p \in Human : Covered(s, p),
         [Next]_vars, [\A r \in Runners : Answered(r)]_vars
  PROVE  \A s \in Sessions, p \in Human : Covered(s, p)'
<1> SUFFICES ASSUME NEW s \in Sessions, NEW p \in Human PROVE Covered(s, p)'
  OBVIOUS
<1>1. CASE UNCHANGED vars
  BY <1>1 DEF vars, Covered, Reusable, Stuck, Used, Fresh, State, Allowed
<1>2. CASE \E t \in Sessions : Inject(t)
  BY <1>2, CoveredInject
<1>3. ASSUME NEW r \in Runners, CallOf(r), Answered(r) PROVE Covered(s, p)'
  BY <1>3, CoveredOwn, CoveredOther
<1> QED
  BY <1>1, <1>2, <1>3, NextCases

\* One caller for each session, on an engine of its own, acts upon a person's
\* decision once in a run: its session leaves a human phase more often than
\* people have decided only as often as a question or an interruption has ended
\* a run.  A role's impossible choice, and a question that finds no pack, end a
\* run without being counted: the steps leave them out.
THEOREM ReuseCorrect ==
  ASSUME OneCaller, OwnEngine
  PROVE  Spec /\ [][\A r \in Runners : Answered(r)]_vars => []ReuseNeedsStop
<1> DEFINE Passes == \A r \in Runners : Routable(r)
           Keeps == \A s \in Sessions, p \in Human : Covered(s, p)
<1>1. Init => Passes /\ Keeps
  <2> SUFFICES ASSUME Init PROVE Passes /\ Keeps
    OBVIOUS
  <2>1. Passes
    BY IdleFormed DEF Init, Routable
  <2>2. ASSUME NEW s \in Sessions, NEW p \in Human PROVE Covered(s, p)
    <3>1. store[s].reviews = <<>> /\ departures[s][p] = 0
      BY GraphAssumption DEF Init, Absent, ValidGraph
    <3>2. LastDecision(<<>>, p) = {}
      BY DEF LastDecision, Committed
    <3>3. Allowed(s) \in Nat
      BY InvInit, AllowedNat
    <3> QED
      BY <3>1, <3>2, <3>3 DEF Covered, Reusable
  <2> QED
    BY <2>1, <2>2
<1>2. Inv /\ AllKept /\ Passes /\ Keeps
      /\ [Next]_vars /\ [\A r \in Runners : Answered(r)]_vars
        => Passes' /\ Keeps'
  BY RoutableNext, CoveredNext
<1>3. Inv /\ Keeps => ReuseNeedsStop
  BY DEF Covered, Allowed, ReuseNeedsStop
<1> HIDE DEF Passes, Keeps
<1> QED
  BY <1>1, <1>2, <1>3, Invariance, Kept, PTL DEF Spec

===============================================================================
