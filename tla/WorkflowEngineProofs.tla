------------------------- MODULE WorkflowEngineProofs -------------------------
(***************************************************************************)
(* Theorems about WorkflowEngine for every graph, policy, number of        *)
(* sessions, runners and engines.                                          *)
(***************************************************************************)
EXTENDS WorkflowEngine, PositionLemmas, FiniteSetTheorems, SequenceTheorems

-------------------------------------------------------------------------------
(***************************************************************************)
(* The pure functions of SessionState.                                     *)
(***************************************************************************)
\* The entries of a phase are finitely many positions of the log.
LEMMA EntriesFinite ==
  ASSUME NEW S, NEW log \in Seq(S), NEW p
  PROVE  /\ EntriesOf(log, p) \subseteq 1..Len(log)
         /\ IsFiniteSet(EntriesOf(log, p))
         /\ CountOf(log, p) \in Nat
<1>1. EntriesOf(log, p) \subseteq 1..Len(log)
  BY DEF EntriesOf
<1>2. IsFiniteSet(1..Len(log))
  BY FS_Interval
<1>3. IsFiniteSet(EntriesOf(log, p))
  BY <1>1, <1>2, FS_Subset
<1> QED
  BY <1>1, <1>3, FS_CardinalityType DEF CountOf

\* Appending an entry adds its position to the entries of its own phase only.
LEMMA EntriesAppend ==
  ASSUME NEW S, NEW log \in Seq(S), NEW e \in S, NEW p
  PROVE  EntriesOf(Append(log, e), p) =
           IF e.phase_id = p THEN EntriesOf(log, p) \cup {Len(log) + 1}
           ELSE EntriesOf(log, p)
<1>1. /\ Len(Append(log, e)) = Len(log) + 1
      /\ DOMAIN Append(log, e) = 1..(Len(log) + 1)
      /\ \A i \in 1..Len(log) : Append(log, e)[i] = log[i]
      /\ Append(log, e)[Len(log) + 1] = e
  OBVIOUS
<1>2. DOMAIN log = 1..Len(log) /\ Len(log) \in Nat
  OBVIOUS
<1> QED
  BY <1>1, <1>2 DEF EntriesOf

\* The count of a phase grows by one with an entry of that phase.
LEMMA CountAppend ==
  ASSUME NEW S, NEW log \in Seq(S), NEW e \in S
  PROVE  CountOf(Append(log, e), e.phase_id) = CountOf(log, e.phase_id) + 1
<1> DEFINE E == EntriesOf(log, e.phase_id)
<1>1. EntriesOf(Append(log, e), e.phase_id) = E \cup {Len(log) + 1}
  BY EntriesAppend
<1>2. IsFiniteSet(E) /\ Len(log) + 1 \notin E
  BY EntriesFinite
<1> QED
  BY <1>1, <1>2, FS_AddElement DEF CountOf

\* Appending leaves the ranks of earlier entries alone and gives the new entry
\* the next one.
LEMMA OrdinalAppend ==
  ASSUME NEW S, NEW log \in Seq(S), NEW e \in S
  PROVE  /\ \A i \in 1..Len(log) :
              Ordinal(Append(log, e), i) = Ordinal(log, i)
         /\ Ordinal(Append(log, e), Len(log) + 1)
              = CountOf(log, e.phase_id) + 1
<1> DEFINE new == Append(log, e)
<1>1. /\ \A i \in 1..Len(log) : new[i] = log[i]
      /\ new[Len(log) + 1] = e
      /\ Len(log) \in Nat
  OBVIOUS
<1>2. ASSUME NEW i \in 1..Len(log)
      PROVE  UpTo(new, i) = UpTo(log, i)
  <2>1. new[i].phase_id = log[i].phase_id
    BY <1>1
  <2>2. EntriesOf(new, log[i].phase_id) \subseteq
          EntriesOf(log, log[i].phase_id) \cup {Len(log) + 1}
    BY EntriesAppend
  <2>3. EntriesOf(log, log[i].phase_id) \subseteq
          EntriesOf(new, log[i].phase_id)
    BY EntriesAppend
  <2> QED
    BY <1>1, <2>1, <2>2, <2>3 DEF UpTo
<1>3. UpTo(new, Len(log) + 1) = EntriesOf(new, e.phase_id)
  <2>1. EntriesOf(new, e.phase_id) \subseteq 1..(Len(log) + 1)
    BY EntriesAppend, EntriesFinite, <1>1
  <2> QED
    BY <1>1, <2>1 DEF UpTo
<1> QED
  BY <1>2, <1>3, CountAppend DEF Ordinal, CountOf

\* Ranks do not exceed the count, and the entry that reaches it is the last.
LEMMA OrdinalLast ==
  ASSUME NEW S, NEW log \in Seq(S), NEW i \in DOMAIN log
  PROVE  LET p == log[i].phase_id IN
         /\ Ordinal(log, i) \in Nat
         /\ Ordinal(log, i) <= CountOf(log, p)
         /\ Ordinal(log, i) = CountOf(log, p)
              => \A j \in EntriesOf(log, p) : j <= i
<1> DEFINE E == EntriesOf(log, log[i].phase_id)
<1>1. IsFiniteSet(E) /\ UpTo(log, i) \in SUBSET E
  BY EntriesFinite DEF UpTo
<1>2. /\ IsFiniteSet(UpTo(log, i))
      /\ Cardinality(UpTo(log, i)) <= Cardinality(E)
      /\ Cardinality(E) = Cardinality(UpTo(log, i)) => E = UpTo(log, i)
  BY <1>1, FS_Subset
<1>3. Cardinality(UpTo(log, i)) \in Nat
  BY <1>2, FS_CardinalityType
<1> QED
  BY <1>2, <1>3 DEF Ordinal, CountOf, UpTo

-------------------------------------------------------------------------------
\* The durable operations keep a record a record, and touch what they should.
LEMMA WithIterationFacts ==
  ASSUME NEW session \in Session, NEW result,
         result.confidence_score \in Scores, result.handoff \in BOOLEAN
  PROVE  LET e == NewIteration(session, result)
             after == WithIteration(session, result)
         IN /\ e \in IterationEntry
            /\ e.phase_id = session.current_phase
            /\ e.confidence_score = result.confidence_score
            /\ e.handoff = result.handoff
            /\ after \in Session
            /\ after.phase_iterations = Append(session.phase_iterations, e)
            /\ after.reviews = session.reviews
            /\ after.status = session.status
            /\ after.current_phase = session.current_phase
            /\ after.feedback_loops = session.feedback_loops
            /\ after.run_metadata = session.run_metadata
            /\ after.revision = session.revision
<1> DEFINE e == NewIteration(session, result)
<1>1. session.phase_iterations \in Seq(IterationEntry)
  BY DEF Session
<1>2. CountOf(session.phase_iterations, session.current_phase) \in Nat
  BY <1>1, EntriesFinite
<1>3. /\ e \in IterationEntry
      /\ e.phase_id = session.current_phase
      /\ e.confidence_score = result.confidence_score
      /\ e.handoff = result.handoff
  BY <1>2 DEF NewIteration, IterationEntry, Session
<1>4. Append(session.phase_iterations, e) \in Seq(IterationEntry)
  BY <1>1, <1>3
<1>5. WithIteration(session, result) =
        [session EXCEPT !.phase_iterations = Append(@, e)]
  BY DEF WithIteration
<1> HIDE DEF e
<1> QED
  BY <1>3, <1>4, <1>5 DEF Session, e

LEMMA WithReviewFacts ==
  ASSUME NEW session \in Session,
         NEW decision \in Decisions \cup {"PENDING"}, NEW target \in Choices
  PROVE  LET e == NewReview(session, decision, target)
             after == WithReview(session, decision, target)
         IN /\ e \in ReviewEntry
            /\ e.phase_id = session.current_phase
            /\ e.decision = decision
            /\ e.target_phase = target
            /\ after \in Session
            /\ after.reviews = Append(session.reviews, e)
            /\ after.phase_iterations = session.phase_iterations
            /\ after.status = session.status
            /\ after.current_phase = session.current_phase
            /\ after.feedback_loops = session.feedback_loops
            /\ after.run_metadata = session.run_metadata
            /\ after.revision = session.revision
<1> DEFINE e == NewReview(session, decision, target)
<1>1. session.reviews \in Seq(ReviewEntry)
  BY DEF Session
<1>2. CountOf(session.reviews, session.current_phase) \in Nat
  BY <1>1, EntriesFinite
<1>3. /\ e \in ReviewEntry
      /\ e.phase_id = session.current_phase
      /\ e.decision = decision
      /\ e.target_phase = target
  BY <1>2 DEF NewReview, ReviewEntry, Session
<1>4. Append(session.reviews, e) \in Seq(ReviewEntry)
  BY <1>1, <1>3
<1>5. WithReview(session, decision, target) =
        [session EXCEPT !.reviews = Append(@, e)]
  BY DEF WithReview
<1> HIDE DEF e
<1> QED
  BY <1>3, <1>4, <1>5 DEF Session, e

LEMMA WithDecisionFacts ==
  ASSUME NEW session \in Session, NEW decision \in Decisions,
         NEW target \in Choices
  PROVE  LET e == NewReview(session, decision, target)
             after == WithDecision(session, decision, target)
         IN /\ e \in ReviewEntry
            /\ e.phase_id = session.current_phase
            /\ e.decision = decision
            /\ e.target_phase = target
            /\ after \in Session
            /\ after.reviews = Append(session.reviews, e)
            /\ after.phase_iterations = session.phase_iterations
            /\ after.status = session.status
            /\ after.current_phase = session.current_phase
            /\ after.feedback_loops =
                 session.feedback_loops
                   + (IF decision = "REQUEST_CHANGES" THEN 1 ELSE 0)
            /\ after.run_metadata = session.run_metadata
            /\ after.revision = session.revision
<1> DEFINE reviewed == WithReview(session, decision, target)
           e == NewReview(session, decision, target)
           loops == IF decision = "REQUEST_CHANGES"
                    THEN reviewed.feedback_loops + 1
                    ELSE reviewed.feedback_loops
<1>1. /\ e \in ReviewEntry
      /\ e.phase_id = session.current_phase
      /\ e.decision = decision
      /\ e.target_phase = target
      /\ reviewed \in Session
      /\ reviewed.reviews = Append(session.reviews, e)
      /\ reviewed.phase_iterations = session.phase_iterations
      /\ reviewed.status = session.status
      /\ reviewed.current_phase = session.current_phase
      /\ reviewed.feedback_loops = session.feedback_loops
      /\ reviewed.run_metadata = session.run_metadata
      /\ reviewed.revision = session.revision
  BY WithReviewFacts
<1>2. /\ loops \in Nat
      /\ loops = session.feedback_loops
                   + (IF decision = "REQUEST_CHANGES" THEN 1 ELSE 0)
  BY <1>1 DEF Session
<1>3. WithDecision(session, decision, target) =
        [reviewed EXCEPT !.feedback_loops = loops]
  BY DEF WithDecision
<1> HIDE DEF reviewed, loops, e
<1>4. /\ WithDecision(session, decision, target) \in Session
      /\ WithDecision(session, decision, target).feedback_loops = loops
      /\ WithDecision(session, decision, target).reviews = reviewed.reviews
      /\ WithDecision(session, decision, target).phase_iterations
           = reviewed.phase_iterations
      /\ WithDecision(session, decision, target).status = reviewed.status
      /\ WithDecision(session, decision, target).current_phase
           = reviewed.current_phase
      /\ WithDecision(session, decision, target).run_metadata
           = reviewed.run_metadata
      /\ WithDecision(session, decision, target).revision = reviewed.revision
  BY <1>1, <1>2, <1>3 DEF Session
<1> QED
  BY <1>1, <1>2, <1>4 DEF e

LEMMA WithAnswerFacts ==
  ASSUME NEW session \in Session, NEW i \in DOMAIN session.reviews,
         NEW decision \in Decisions, NEW target \in Choices
  PROVE  LET after == WithAnswer(session, i, decision, target)
         IN /\ after \in Session
            /\ DOMAIN after.reviews = DOMAIN session.reviews
            /\ \A j \in DOMAIN session.reviews :
                 /\ after.reviews[j].phase_id = session.reviews[j].phase_id
                 /\ after.reviews[j].review = session.reviews[j].review
                 /\ after.reviews[j].decision =
                      IF j = i THEN decision ELSE session.reviews[j].decision
                 /\ j # i => after.reviews[j] = session.reviews[j]
            /\ after.phase_iterations = session.phase_iterations
            /\ after.status = session.status
            /\ after.current_phase = session.current_phase
            /\ after.feedback_loops = session.feedback_loops
            /\ after.run_metadata = session.run_metadata
            /\ after.revision = session.revision
<1> DEFINE entry == [session.reviews[i] EXCEPT !.decision = decision,
                                               !.target_phase = target]
           reviews == [session.reviews EXCEPT ![i] = entry]
<1>1. session.reviews \in Seq(ReviewEntry) /\ i \in 1..Len(session.reviews)
  BY DEF Session
<1>2. session.reviews[i] \in ReviewEntry
  BY <1>1
<1>3. /\ entry \in ReviewEntry
      /\ entry.phase_id = session.reviews[i].phase_id
      /\ entry.review = session.reviews[i].review
      /\ entry.decision = decision
  BY <1>2 DEF ReviewEntry
<1> HIDE DEF entry
<1>4. /\ reviews \in Seq(ReviewEntry)
      /\ DOMAIN reviews = DOMAIN session.reviews
      /\ \A j \in DOMAIN session.reviews :
           reviews[j] = IF j = i THEN entry ELSE session.reviews[j]
  BY <1>1, <1>3, ExceptSeq
<1>5. WithAnswer(session, i, decision, target) =
        [session EXCEPT !.reviews = reviews]
  BY DEF WithAnswer, entry
<1> HIDE DEF reviews
<1>6. /\ WithAnswer(session, i, decision, target) \in Session
      /\ WithAnswer(session, i, decision, target).reviews = reviews
      /\ WithAnswer(session, i, decision, target).phase_iterations
           = session.phase_iterations
      /\ WithAnswer(session, i, decision, target).status = session.status
      /\ WithAnswer(session, i, decision, target).current_phase
           = session.current_phase
      /\ WithAnswer(session, i, decision, target).feedback_loops
           = session.feedback_loops
      /\ WithAnswer(session, i, decision, target).run_metadata
           = session.run_metadata
      /\ WithAnswer(session, i, decision, target).revision = session.revision
  BY <1>4, <1>5 DEF Session
<1> QED
  BY <1>3, <1>4, <1>6

\* A save changes the revision only.
LEMMA RevisedFacts ==
  ASSUME NEW session \in Session
  PROVE  /\ Revised(session) \in Session
         /\ Revised(session).revision = session.revision + 1
         /\ Revised(session).status = session.status
         /\ Revised(session).current_phase = session.current_phase
         /\ Revised(session).phase_iterations = session.phase_iterations
         /\ Revised(session).reviews = session.reviews
         /\ Revised(session).feedback_loops = session.feedback_loops
         /\ Revised(session).run_metadata = session.run_metadata
BY DEF Revised, Session

\* A record that is not there yet, and one just initialized.
LEMMA AbsentType ==
  /\ Absent \in Session /\ Absent.status = "absent" /\ Absent.revision = 0
  /\ Initialized \in Session /\ Initialized.status = "initialized"
  /\ Initialized.revision = 0
  /\ Absent.phase_iterations = <<>> /\ Absent.reviews = <<>>
  /\ Initialized.phase_iterations = <<>> /\ Initialized.reviews = <<>>
  /\ Absent.feedback_loops = 0 /\ Initialized.feedback_loops = 0
<1>1. <<>> \in Seq(IterationEntry) /\ <<>> \in Seq(ReviewEntry)
  BY EmptySeq
<1>2. Absent \in Session
  BY <1>1, GraphAssumption, PolicyAssumption DEF Absent, Session, Statuses, ValidGraph
<1>3. Initialized \in Session
  BY <1>2 DEF Initialized, Session, Statuses
<1> QED
  BY <1>2, <1>3 DEF Absent, Initialized

\* Where a routing leads: on, nowhere, or to an error.
LEMMA ResolveIn ==
  ASSUME NEW targets \in SUBSET Phases, NEW chosen \in Choices
  PROVE  \/ Resolve(targets, chosen) \in targets
         \/ Resolve(targets, chosen) = NoPhase /\ targets = {}
         \/ Resolve(targets, chosen) = BadTarget
BY DEF Resolve, IsSingleton

-------------------------------------------------------------------------------
(***************************************************************************)
(* The variables the calls and the record live in; the others are easy.    *)
(***************************************************************************)
CallsTyped == run \in [Runners -> Call]
StoreTyped == store \in [Sessions -> Session]

\* A call that has ended is formed, and holds nothing.
LEMMA IdleFormed == Idle \in Call /\ Formed(Idle) /\ Idle.pc = "idle"
BY AbsentType DEF Idle, Call, Pcs, Formed, Working, Reviewing

\* The next call is typed, and holds the state it is given unless it ends.
LEMMA NextCallType ==
  ASSUME CallsTyped, NEW r \in Runners, NEW pc \in Pcs, NEW state \in Session
  PROVE  /\ NextCall(r, pc, state) \in Call
         /\ pc = "idle" => NextCall(r, pc, state) = Idle
         /\ pc # "idle" =>
              /\ NextCall(r, pc, state).pc = pc
              /\ NextCall(r, pc, state).stored = state
              /\ pc \in {"committed", "judged"} =>
                   NextCall(r, pc, state).result = run[r].result
<1>1. run[r].result \in ExecutionResult \cup ReviewResult \cup {NoResult}
  BY DEF CallsTyped, Call
<1> QED
  BY <1>1, IdleFormed DEF NextCall, Call

\* A saved or held state is dispatched to the phase it is in.
LEMMA DispatchFormed ==
  ASSUME CallsTyped, NEW r \in Runners, NEW state \in Session,
         state.status # "absent"
  PROVE  /\ Dispatch(state) \in Pcs \ {"missing", "committed", "judged"}
         /\ Formed(NextCall(r, Dispatch(state), state))
<1>1. Dispatch(state) \in {"idle", "work", "review"}
  BY DEF Dispatch
<1>2. CASE state.status # "in_progress"
  BY <1>2, NextCallType, IdleFormed DEF Dispatch, Pcs
<1>3. CASE state.status = "in_progress"
  <2>1. Dispatch(state) = IF state.current_phase \in Executors
                          THEN "work" ELSE "review"
    BY <1>3 DEF Dispatch
  <2>2. state.current_phase \in Phases
    BY DEF Session
  <2> QED
    BY <1>1, <1>3, <2>1, <2>2, NextCallType
    DEF Formed, Working, Reviewing, Reviews, Pcs
<1> QED
  BY <1>2, <1>3

-------------------------------------------------------------------------------
(***************************************************************************)
(* The inductive part of Inv, and how the ways a step touches the record   *)
(* preserve it.                                                            *)
(***************************************************************************)
AllFormed == \A r \in Runners : Formed(run[r])
Core == StoreTyped /\ CallsTyped /\ AllFormed /\ AbsentBare /\ SnapshotCurrent

\* A call that is in neither of its first two places holds a record that is
\* not newer than the stored one, and is the stored one if it is as new.
Holds(call, s) ==
  /\ call.stored.revision <= store[s].revision
  /\ call.pc \notin {"idle", "missing"} /\ call.stored.revision = store[s].revision
       => call.stored = store[s]

\* The record stays, one call goes on or ends.
LEMMA CallStep ==
  ASSUME Core, NEW r \in Runners, NEW call \in Call, Formed(call),
         Holds(call, SessionOf[r]), UNCHANGED store,
         run' = [run EXCEPT ![r] = call]
  PROVE  Core'
<1>1. StoreTyped' /\ AbsentBare'
  BY DEF Core, StoreTyped, AbsentBare
<1>2. CallsTyped'
  BY DEF Core, CallsTyped
<1>3. \A q \in Runners : run'[q] = IF q = r THEN call ELSE run[q]
  BY DEF Core, CallsTyped
<1>4. AllFormed'
  <2> SUFFICES ASSUME NEW q \in Runners PROVE Formed(run'[q])
    BY DEF AllFormed
  <2> QED
    BY <1>3 DEF Core, AllFormed
<1>5. SnapshotCurrent'
  BY <1>3 DEF Core, SnapshotCurrent, Holds, State, Fresh, At
<1> QED
  BY <1>1, <1>2, <1>4, <1>5 DEF Core

\* A new revision is stored; every call stays, ends, or holds the new record.
LEMMA WriteStep ==
  ASSUME Core, NEW s \in Sessions, NEW new \in Session,
         new.revision > store[s].revision, new.status # "absent",
         store' = [store EXCEPT ![s] = new],
         CallsTyped', AllFormed',
         \A q \in Runners : \/ run'[q] = run[q]
                            \/ run'[q] = Idle
                            \/ SessionOf[q] = s /\ run'[q].stored = new
  PROVE  Core'
<1>1. \A t \in Sessions : store'[t] = IF t = s THEN new ELSE store[t]
  BY DEF Core, StoreTyped
<1>2. StoreTyped' /\ AbsentBare'
  BY <1>1 DEF Core, StoreTyped, AbsentBare
<1>3. SnapshotCurrent'
  <2> SUFFICES ASSUME NEW q \in Runners
               PROVE  /\ run'[q].stored.revision <= store'[SessionOf[q]].revision
                      /\ (/\ run'[q].pc \notin {"idle", "missing"}
                          /\ store'[SessionOf[q]].revision = run'[q].stored.revision)
                           => run'[q].stored = store'[SessionOf[q]]
    BY DEF SnapshotCurrent, State, Fresh, At
  <2>1. SessionOf[q] \in Sessions
    BY EngineAssumption
  <2>2. /\ store[s].revision \in Nat /\ new.revision \in Nat
        /\ store[SessionOf[q]].revision \in Nat
        /\ run[q].stored.revision \in Nat
    BY <2>1 DEF Core, StoreTyped, CallsTyped, Call, Session
  <2>3. CASE run'[q] = run[q]
    <3>1. /\ run[q].stored.revision <= store[SessionOf[q]].revision
          /\ (/\ run[q].pc \notin {"idle", "missing"}
              /\ store[SessionOf[q]].revision = run[q].stored.revision)
               => run[q].stored = store[SessionOf[q]]
      BY DEF Core, SnapshotCurrent, State, Fresh, At
    <3> QED
      BY <1>1, <2>1, <2>2, <2>3, <3>1
  <2>4. CASE run'[q] = Idle
    <3>1. Idle.pc = "idle" /\ Idle.stored.revision = 0
      BY AbsentType DEF Idle
    <3> QED
      BY <1>1, <2>1, <2>2, <2>4, <3>1
  <2>5. CASE SessionOf[q] = s /\ run'[q].stored = new
    BY <1>1, <2>2, <2>5
  <2> QED
    BY <2>3, <2>4, <2>5
<1> QED
  BY <1>2, <1>3 DEF Core

\* A call ends.
LEMMA LeaveStep ==
  ASSUME Core, NEW r \in Runners, Leave(r), UNCHANGED store
  PROVE  Core'
<1>1. Holds(Idle, SessionOf[r])
  <2>1. store[SessionOf[r]].revision \in Nat
    BY EngineAssumption DEF Core, StoreTyped, Session
  <2> QED
    BY <2>1, AbsentType DEF Holds, Idle
<1> QED
  BY <1>1, IdleFormed, CallStep DEF Leave

\* A save, won or lost.
LEMMA SaveStep ==
  ASSUME Core, NEW r \in Runners, NEW state \in Session,
         NEW pc \in Pcs, Save(r, state, pc),
         state.status # "absent", state.revision = State(r).revision,
         Formed(NextCall(r, pc, Revised(state)))
  PROVE  Core'
<1> DEFINE new == Revised(state)
           s == SessionOf[r]
<1>1. CASE ~Fresh(r) /\ Leave(r) /\ UNCHANGED store
  BY <1>1, LeaveStep
<1>2. CASE /\ Fresh(r)
           /\ store' = [store EXCEPT ![s] = new]
           /\ Continue(r, pc, new)
  <2>1. /\ new \in Session
        /\ new.revision = state.revision + 1
        /\ new.status # "absent"
    BY RevisedFacts
  <2>2. new.revision > store[s].revision
    BY <1>2, <2>1 DEF Fresh, Session
  <2>3. /\ NextCall(r, pc, new) \in Call
        /\ NextCall(r, pc, new) = Idle \/ NextCall(r, pc, new).stored = new
    BY <2>1, NextCallType DEF Core
  <2>4. /\ \A q \in Runners : run'[q] = IF q = r THEN NextCall(r, pc, new) ELSE run[q]
        /\ CallsTyped'
    BY <1>2, <2>3 DEF Continue, Core, CallsTyped
  <2>5. AllFormed'
    <3> SUFFICES ASSUME NEW q \in Runners PROVE Formed(run'[q])
      BY DEF AllFormed
    <3> QED
      BY <2>4 DEF Core, AllFormed
  <2>6. s \in Sessions
    BY EngineAssumption
  <2>7. \A q \in Runners : \/ run'[q] = run[q]
                           \/ run'[q] = Idle
                           \/ SessionOf[q] = s /\ run'[q].stored = new
    BY <2>3, <2>4
  <2> HIDE DEF new, s
  <2> QED
    BY <1>2, <2>1, <2>2, <2>4, <2>5, <2>6, <2>7, WriteStep
<1> QED
  BY <1>1, <1>2 DEF Save

-------------------------------------------------------------------------------
(***************************************************************************)
(* Inv is inductive: one lemma for each group of actions.                  *)
(***************************************************************************)
RestTyped ==
  /\ artifacts \in [Sessions -> [handoffs : SUBSET Handoff,
                                 decisions : SUBSET Decision]]
  /\ pack \in [Sessions -> Pack]
  /\ applied \in [Engines -> SUBSET (Phases \X Nat)]
  /\ metadata \in [Engines -> Metadata]
  /\ interrupts \in 0..MaxInterrupts
  /\ departures \in [Sessions -> [Phases -> Nat]]

LEMMA InvParts == Inv <=> Core /\ RestTyped
BY DEF Inv, TypeOK, Core, RestTyped, StoreTyped, CallsTyped, AllFormed

LEMMA InvInit == Init => Inv
<1> SUFFICES ASSUME Init PROVE Core /\ RestTyped
  BY InvParts
<1>1. StoreTyped /\ CallsTyped /\ AllFormed /\ AbsentBare
  BY AbsentType, IdleFormed DEF Init, StoreTyped, CallsTyped, AllFormed, AbsentBare
<1>2. SnapshotCurrent
  <2> SUFFICES ASSUME NEW r \in Runners
               PROVE  /\ run[r] = Idle
                      /\ store[SessionOf[r]].revision = 0
    BY AbsentType, IdleFormed DEF SnapshotCurrent, State, At, Idle
  <2> QED
    BY EngineAssumption, AbsentType DEF Init
<1>3. RestTyped
  <2>1. EmptyPack \in Pack
    BY DEF EmptyPack, Pack
  <2> QED
    BY <2>1, EngineAssumption DEF Init, RestTyped
<1> QED
  BY <1>1, <1>2, <1>3 DEF Core

\* What a call in flight may rely on.
LEMMA CallFacts ==
  ASSUME Core, NEW r \in Runners
  PROVE  /\ run[r] \in Call /\ Formed(run[r])
         /\ SessionOf[r] \in Sessions
         /\ State(r) = run[r].stored /\ State(r) \in Session
         /\ PhaseOf(r) = State(r).current_phase /\ PhaseOf(r) \in Phases
BY EngineAssumption
DEF Core, CallsTyped, AllFormed, Call, State, PhaseOf, Session

\* The record of a call past its first two places is not newer than it holds.
LEMMA HoldsState ==
  ASSUME Core, NEW r \in Runners, ~At(r, "idle"), ~At(r, "missing"),
         NEW call, call.stored = State(r)
  PROVE  Holds(call, SessionOf[r])
BY DEF Core, SnapshotCurrent, Holds, At, Fresh, State

LEMMA CoreOpen ==
  ASSUME Core, NEW r \in Runners, Open(r)
  PROVE  Core'
<1> DEFINE s == SessionOf[r]
           pc == IF store[s].status = "absent" THEN "missing" ELSE "opened"
           call == NextCall(r, pc, store[s])
<1>1. s \in Sessions /\ store[s] \in Session
  BY CallFacts DEF Core, StoreTyped
<1>2. pc \in Pcs /\ pc # "idle"
  BY DEF Pcs
<1>3. call \in Call /\ call.pc = pc /\ call.stored = store[s]
  BY <1>1, <1>2, NextCallType DEF Core
<1>4. Formed(call)
  BY <1>3 DEF Formed, Working, Reviewing
<1>5. Holds(call, s)
  BY <1>1, <1>3 DEF Holds, Session
<1>6. UNCHANGED store /\ run' = [run EXCEPT ![r] = call]
  BY DEF Open, Continue
<1> HIDE DEF s, pc, call
<1> QED
  BY <1>3, <1>4, <1>5, <1>6, CallStep DEF s

LEMMA CoreInitialize ==
  ASSUME Core, NEW r \in Runners, Initialize(r)
  PROVE  Core'
<1> DEFINE s == SessionOf[r]
           call == NextCall(r, "opened", Initialized)
<1>1. CASE Leave(r) /\ UNCHANGED store
  BY <1>1, LeaveStep
<1>2. CASE /\ store[s].status = "absent"
           /\ store' = [store EXCEPT ![s] = Initialized]
           /\ Continue(r, "opened", Initialized)
  <2>1. /\ call \in Call /\ call.pc = "opened" /\ call.stored = Initialized
        /\ run' = [run EXCEPT ![r] = call]
    BY <1>2, AbsentType, NextCallType DEF Core, Continue, Pcs
  <2>2. Formed(call)
    BY <2>1, AbsentType DEF Formed, Working, Reviewing
  <2>3. s \in Sessions /\ store[s] = Absent
    BY <1>2, CallFacts DEF Core, AbsentBare
  <2> HIDE DEF call, s
  <2>4. \A t \in Sessions : store'[t] = IF t = s THEN Initialized ELSE store[t]
    BY <1>2 DEF Core, StoreTyped
  <2>5. \A q \in Runners : run'[q] = IF q = r THEN call ELSE run[q]
    BY <2>1 DEF Core, CallsTyped
  <2>6. StoreTyped' /\ AbsentBare'
    BY <1>2, <2>4, AbsentType DEF Core, StoreTyped, AbsentBare
  <2>7. CallsTyped' /\ AllFormed'
    <3>1. CallsTyped'
      BY <2>1 DEF Core, CallsTyped
    <3>2. ASSUME NEW q \in Runners PROVE Formed(run'[q])
      BY <2>2, <2>5 DEF Core, AllFormed
    <3> QED
      BY <3>1, <3>2 DEF AllFormed
  <2>8. SnapshotCurrent'
    <3> SUFFICES ASSUME NEW q \in Runners
                 PROVE  Holds(run[q], SessionOf[q])'
      BY DEF SnapshotCurrent, State, Fresh, At, Holds
    <3>1. Holds(run[q], SessionOf[q])
      BY DEF Core, SnapshotCurrent, State, Fresh, At, Holds
    <3>2. Formed(run[q]) /\ SessionOf[q] \in Sessions
      BY CallFacts
    <3>3. CASE q = r
      BY <2>1, <2>4, <2>5, <3>3, <3>2, AbsentType DEF Holds, s
    <3>4. CASE q # r /\ SessionOf[q] # s
      BY <2>4, <2>5, <3>1, <3>2, <3>4 DEF Holds
    <3>5. CASE q # r /\ SessionOf[q] = s
      <4>1. run'[q] = run[q] /\ store'[s] = Initialized
        BY <2>3, <2>4, <2>5, <3>5
      <4>2. run[q].pc \notin {"idle", "missing"} => run[q].stored # Absent
        BY <3>2, AbsentType DEF Formed
      <4> QED
        BY <2>3, <3>1, <3>5, <4>1, <4>2, AbsentType DEF Holds
    <3> QED
      BY <3>3, <3>4, <3>5
  <2> QED
    BY <2>6, <2>7, <2>8 DEF Core
<1> QED
  BY <1>1, <1>2 DEF Initialize

LEMMA CoreTransition ==
  ASSUME Core, NEW r \in Runners, State(r).status # "absent",
         NEW to \in Phases, Transition(r, to)
  PROVE  Core'
<1> DEFINE state == [State(r) EXCEPT !.current_phase = to]
<1>1. State(r) \in Session
  BY CallFacts
<1>2. /\ state \in Session
      /\ state.status = State(r).status
      /\ state.revision = State(r).revision
  BY <1>1 DEF Session
<1>3. Save(r, state, Dispatch(state))
  BY DEF Transition
<1> HIDE DEF state
<1>4. /\ Revised(state) \in Session
      /\ Revised(state).status = state.status
      /\ Revised(state).current_phase = state.current_phase
  BY <1>2, RevisedFacts
<1>5. Dispatch(Revised(state)) = Dispatch(state)
  BY <1>4 DEF Dispatch
<1>6. /\ Dispatch(state) \in Pcs
      /\ Formed(NextCall(r, Dispatch(state), Revised(state)))
  BY <1>2, <1>4, <1>5, DispatchFormed DEF Core
<1> QED
  BY <1>2, <1>3, <1>6, SaveStep

LEMMA CoreFinalize ==
  ASSUME Core, NEW r \in Runners, NEW status \in Terminal, Finalize(r, status)
  PROVE  Core'
<1> DEFINE state == [State(r) EXCEPT !.status = status]
           pc == IF status = "completed" /\ HasPack[SessionOf[r]]
                 THEN "lock" ELSE "idle"
<1>1. State(r) \in Session
  BY CallFacts
<1>2. /\ state \in Session
      /\ state.status = status /\ state.status # "absent"
      /\ state.revision = State(r).revision
  BY <1>1 DEF Session, Statuses, Terminal
<1>3. Save(r, state, pc)
  BY DEF Finalize
<1>4. /\ pc \in Pcs
      /\ pc = "idle" \/ (pc = "lock" /\ status = "completed")
  BY DEF Pcs
<1> HIDE DEF state, pc
<1>5. Revised(state) \in Session /\ Revised(state).status = status
  BY <1>2, RevisedFacts
<1>6. Formed(NextCall(r, pc, Revised(state)))
  <2>1. CASE pc = "idle"
    BY <2>1, <1>4, <1>5, NextCallType, IdleFormed DEF Core
  <2>2. CASE pc = "lock" /\ status = "completed"
    BY <2>2, <1>4, <1>5, NextCallType DEF Core, Formed, Working, Reviewing
  <2> QED
    BY <1>4, <2>1, <2>2
<1> QED
  BY <1>2, <1>3, <1>4, <1>6, SaveStep

LEMMA CoreRoute ==
  ASSUME Core, NEW r \in Runners, State(r).status # "absent",
         NEW target, Route(r, target)
  PROVE  Core'
<1>1. CASE target \in Phases /\ Transition(r, target)
  BY <1>1, CoreTransition
<1>2. CASE target = NoPhase /\ Finalize(r, "completed")
  BY <1>2, CoreFinalize DEF Terminal
<1>3. CASE target = BadTarget /\ Leave(r) /\ UNCHANGED store
  BY <1>3, LeaveStep
<1> QED
  BY <1>1, <1>2, <1>3 DEF Route

LEMMA CoreStart ==
  ASSUME Inv, NEW r \in Runners, Start(r)
  PROVE  Core'
<1> DEFINE state == [State(r) EXCEPT !.status = "in_progress",
                                     !.run_metadata = metadata[EngineOf[r]]]
<1>1. Core /\ State(r) \in Session /\ metadata[EngineOf[r]] \in Metadata
  BY InvParts, CallFacts, EngineAssumption DEF RestTyped
<1>2. /\ state \in Session
      /\ state.status = "in_progress"
      /\ state.revision = State(r).revision
  BY <1>1 DEF Session, Statuses
<1>3. Save(r, state, Dispatch(state))
  BY DEF Start
<1> HIDE DEF state
<1>4. /\ Revised(state) \in Session
      /\ Revised(state).status = state.status
      /\ Revised(state).current_phase = state.current_phase
  BY <1>2, RevisedFacts
<1>5. Dispatch(Revised(state)) = Dispatch(state)
  BY <1>4 DEF Dispatch
<1>6. /\ Dispatch(state) \in Pcs
      /\ Formed(NextCall(r, Dispatch(state), Revised(state)))
  BY <1>1, <1>2, <1>4, <1>5, DispatchFormed DEF Core
<1> QED
  BY <1>1, <1>2, <1>3, <1>6, SaveStep

\* Resuming and repeating go on with the record the call holds.
LEMMA CoreDispatch ==
  ASSUME Core, NEW r \in Runners, ~At(r, "idle"), ~At(r, "missing"),
         State(r).status # "absent", UNCHANGED store,
         Continue(r, Dispatch(State(r)), State(r))
  PROVE  Core'
<1> DEFINE call == NextCall(r, Dispatch(State(r)), State(r))
<1>1. State(r) \in Session
  BY CallFacts
<1>2. Dispatch(State(r)) \in Pcs /\ Formed(call)
  BY <1>1, DispatchFormed DEF Core
<1>3. call \in Call /\ (call = Idle \/ call.stored = State(r))
  BY <1>1, <1>2, NextCallType DEF Core
<1>4. run' = [run EXCEPT ![r] = call]
  BY DEF Continue
<1> HIDE DEF call
<1>5. CASE call = Idle
  BY <1>4, <1>5, LeaveStep DEF Leave
<1>6. CASE call.stored = State(r)
  BY <1>2, <1>3, <1>4, <1>6, HoldsState, CallStep
<1> QED
  BY <1>3, <1>5, <1>6

\* A call goes on within its phase.
LEMMA CoreProceed ==
  ASSUME Core, NEW r \in Runners, ~At(r, "idle"), ~At(r, "missing"),
         NEW call \in Call, Formed(call), call.stored = State(r),
         UNCHANGED store, run' = [run EXCEPT ![r] = call]
  PROVE  Core'
BY HoldsState, CallStep

LEMMA CoreExecute ==
  ASSUME Core, NEW r \in Runners, Execute(r)
  PROVE  Core'
<1>1. PICK result \in ExecutionResults :
        run' = [run EXCEPT
                  ![r].pc = IF HasPack[SessionOf[r]]
                            THEN "produced" ELSE "published",
                  ![r].result = result,
                  ![r].previous = PreviousDecision(State(r).reviews, PhaseOf(r))]
  BY DEF Execute
<1> DEFINE pc == IF HasPack[SessionOf[r]] THEN "produced" ELSE "published"
           previous == PreviousDecision(State(r).reviews, PhaseOf(r))
           call == [run[r] EXCEPT !.pc = pc, !.result = result,
                                  !.previous = previous]
<1>2. /\ run[r] \in Call /\ Formed(run[r]) /\ State(r) = run[r].stored
      /\ run[r].pc = "work" /\ UNCHANGED store
  BY CallFacts DEF Execute, At
<1>3. previous \subseteq Nat
  <2>1. State(r).reviews \in Seq(ReviewEntry)
    BY CallFacts DEF Session
  <2> QED
    BY <2>1 DEF PreviousDecision
<1>4. result \in ExecutionResult
  BY EngineAssumption
<1>5. pc \in {"produced", "published"}
  OBVIOUS
<1>6. run' = [run EXCEPT ![r] = call]
  BY <1>1 DEF Core, CallsTyped
<1> HIDE DEF pc, previous
<1>7. call \in Call /\ call.stored = State(r) /\ Formed(call)
  <2>1. /\ call.pc = pc /\ call.result = result /\ call.stored = run[r].stored
        /\ call \in Call
    BY <1>2, <1>3, <1>4, <1>5 DEF Call, Pcs
  <2> HIDE DEF call
  <2> QED
    BY <1>2, <1>4, <1>5, <2>1 DEF Formed, Working, Reviewing
<1> HIDE DEF call
<1> QED
  BY <1>2, <1>6, <1>7, CoreProceed DEF At

LEMMA CorePublish ==
  ASSUME Core, NEW r \in Runners, PublishFiles(r) \/ PublishHandoff(r)
  PROVE  Core'
<1>1. PICK pc \in {"filed", "published"} : run' = [run EXCEPT ![r].pc = pc]
  BY DEF PublishFiles, PublishHandoff
<1> DEFINE call == [run[r] EXCEPT !.pc = pc]
<1>2. /\ run[r] \in Call /\ Formed(run[r]) /\ State(r) = run[r].stored
      /\ run[r].pc \in {"produced", "filed"} /\ UNCHANGED store
  BY CallFacts DEF PublishFiles, PublishHandoff, At
<1>3. /\ run' = [run EXCEPT ![r] = call]
      /\ call \in Call /\ call.pc = pc /\ call.result = run[r].result
      /\ call.stored = State(r)
  BY <1>1, <1>2 DEF Core, CallsTyped, Call, Pcs
<1> HIDE DEF call
<1>4. Formed(call)
  BY <1>2, <1>3 DEF Formed, Working, Reviewing
<1> QED
  BY <1>2, <1>3, <1>4, CoreProceed DEF At

LEMMA CoreCommitIteration ==
  ASSUME Core, NEW r \in Runners, CommitIteration(r)
  PROVE  Core'
<1> DEFINE result == run[r].result
           state == WithIteration(State(r), result)
           e == NewIteration(State(r), result)
           call == NextCall(r, "committed", Revised(state))
<1>1. /\ run[r] \in Call /\ Formed(run[r]) /\ State(r) = run[r].stored
      /\ State(r) \in Session /\ run[r].pc = "published"
  BY CallFacts DEF CommitIteration, At
<1>2. /\ result \in ExecutionResult
      /\ State(r).status = "in_progress"
      /\ State(r).current_phase \in Executors
  BY <1>1 DEF Formed, Working, Reviewing
<1>3. /\ e.phase_id = State(r).current_phase
      /\ e.confidence_score = result.confidence_score
      /\ e \in IterationEntry
      /\ state \in Session
      /\ state.phase_iterations = Append(State(r).phase_iterations, e)
      /\ state.status = State(r).status
      /\ state.current_phase = State(r).current_phase
      /\ state.revision = State(r).revision
  BY <1>1, <1>2, WithIterationFacts DEF ExecutionResult
<1>4. Save(r, state, "committed")
  BY DEF CommitIteration
<1> HIDE DEF state, e
<1>5. /\ Revised(state) \in Session
      /\ Revised(state).status = state.status
      /\ Revised(state).current_phase = state.current_phase
      /\ Revised(state).phase_iterations = state.phase_iterations
  BY <1>3, RevisedFacts
<1>6. /\ call.pc = "committed" /\ call.stored = Revised(state)
      /\ call.result = result
  BY <1>5, NextCallType DEF Core, Pcs
<1>7. State(r).phase_iterations \in Seq(IterationEntry)
  BY <1>1 DEF Session
<1>8. /\ state.phase_iterations # <<>>
      /\ state.phase_iterations[Len(state.phase_iterations)] = e
  BY <1>3, <1>7
<1> HIDE DEF call, result
<1>9. Formed(call)
  BY <1>2, <1>3, <1>5, <1>6, <1>8
  DEF Formed, EndsWithIteration, Working, Reviewing
<1> QED
  BY <1>2, <1>3, <1>4, <1>9, SaveStep DEF call, Pcs

LEMMA CoreAfterCommit ==
  ASSUME Core, NEW r \in Runners,
         \/ StopForQuestion(r) \/ Repeat(r) \/ GiveUp(r) \/ LeaveExecutor(r)
         \/ AbandonWithoutHandoff(r)
  PROVE  Core'
<1>1. /\ run[r].pc \in {"committed", "filed"}
      /\ Formed(run[r]) /\ State(r) = run[r].stored
  BY CallFacts
  DEF StopForQuestion, Repeat, GiveUp, LeaveExecutor, AbandonWithoutHandoff,
      Concluding, At
<1>2. /\ State(r).status = "in_progress" /\ State(r).current_phase \in Executors
      /\ ~At(r, "idle") /\ ~At(r, "missing")
  BY <1>1 DEF Formed, Working, Reviewing, At
<1>3. CASE StopForQuestion(r)
  BY <1>3, LeaveStep DEF StopForQuestion
<1>4. CASE Repeat(r)
  <2>1. Dispatch(State(r)) = "work"
    BY <1>2 DEF Dispatch
  <2> QED
    BY <1>2, <1>4, <2>1, CoreDispatch DEF Repeat
<1>5. CASE GiveUp(r)
  BY <1>5, CoreFinalize DEF GiveUp, Terminal
<1>6. CASE LeaveExecutor(r)
  BY <1>2, <1>6, CoreRoute DEF LeaveExecutor
<1>7. CASE AbandonWithoutHandoff(r)
  BY <1>7, CoreFinalize DEF AbandonWithoutHandoff, Terminal
<1> QED
  BY <1>3, <1>4, <1>5, <1>6, <1>7

\* A call at review is in a review phase of a session in progress.
LEMMA AtReview ==
  ASSUME Core, NEW r \in Runners, run[r].pc \in Reviewing
  PROVE  /\ State(r).status = "in_progress"
         /\ PhaseOf(r) \in Reviews
         /\ ~At(r, "idle") /\ ~At(r, "missing")
BY CallFacts DEF Formed, Reviewing, At

LEMMA CoreApplyDecision ==
  ASSUME Core, NEW r \in Runners, ApplyDecision(r)
  PROVE  Core'
<1>1. State(r).status # "absent"
  BY AtReview DEF ApplyDecision, Reviewing, At
<1>2. \E target : Route(r, target)
  BY DEF ApplyDecision
<1> QED
  BY <1>1, <1>2, CoreRoute

LEMMA CoreAskHuman ==
  ASSUME Core, NEW r \in Runners, AskHuman(r)
  PROVE  Core'
<1> DEFINE state == WithReview(State(r), "PENDING", NoPhase)
<1>1. State(r) \in Session /\ State(r).status = "in_progress"
  BY CallFacts, AtReview DEF AskHuman, Reviewing, At
<1>2. /\ state \in Session
      /\ state.status = State(r).status
      /\ state.revision = State(r).revision
  BY <1>1, WithReviewFacts DEF Choices
<1>3. Save(r, state, "idle")
  BY DEF AskHuman
<1> HIDE DEF state
<1>4. Formed(NextCall(r, "idle", Revised(state)))
  BY IdleFormed DEF NextCall
<1> QED
  BY <1>1, <1>2, <1>3, <1>4, SaveStep DEF Pcs

LEMMA CoreInvokeReviewer ==
  ASSUME Core, NEW r \in Runners, InvokeReviewer(r)
  PROVE  Core'
<1>1. CASE Leave(r)
  BY <1>1, LeaveStep DEF InvokeReviewer
<1>2. CASE \E result \in ReviewResults :
             run' = [run EXCEPT ![r].pc = "reviewed", ![r].result = result]
  <2>1. PICK result \in ReviewResults :
          run' = [run EXCEPT ![r].pc = "reviewed", ![r].result = result]
    BY <1>2
  <2> DEFINE call == [run[r] EXCEPT !.pc = "reviewed", !.result = result]
  <2>2. /\ run[r] \in Call /\ Formed(run[r]) /\ State(r) = run[r].stored
        /\ run[r].pc = "review" /\ PhaseOf(r) = State(r).current_phase
        /\ PhaseOf(r) \notin Human /\ UNCHANGED store
        /\ result \in ReviewResult
    BY CallFacts, EngineAssumption DEF InvokeReviewer, At
  <2>3. /\ run' = [run EXCEPT ![r] = call]
        /\ call \in Call /\ call.pc = "reviewed" /\ call.result = result
        /\ call.stored = State(r)
    BY <2>1, <2>2 DEF Core, CallsTyped, Call, Pcs
  <2> HIDE DEF call
  <2>4. Formed(call)
    BY <2>2, <2>3 DEF Formed, Working, Reviewing
  <2> QED
    BY <2>2, <2>3, <2>4, CoreProceed DEF At
<1> QED
  BY <1>1, <1>2 DEF InvokeReviewer

LEMMA CoreCommitReview ==
  ASSUME Core, NEW r \in Runners, CommitReview(r)
  PROVE  Core'
<1> DEFINE result == run[r].result
           state == WithDecision(State(r), result.decision, result.target_phase)
           e == NewReview(State(r), result.decision, result.target_phase)
           call == NextCall(r, "judged", Revised(state))
<1>1. /\ run[r] \in Call /\ Formed(run[r]) /\ State(r) = run[r].stored
      /\ State(r) \in Session /\ run[r].pc = "reviewed"
  BY CallFacts DEF CommitReview, At
<1>2. /\ result \in ReviewResult
      /\ State(r).status = "in_progress"
      /\ State(r).current_phase \in Reviews
      /\ State(r).current_phase \notin Human
  BY <1>1 DEF Formed, Working, Reviewing
<1>3. /\ e.phase_id = State(r).current_phase
      /\ e.decision = result.decision
      /\ e \in ReviewEntry
      /\ state \in Session
      /\ state.reviews = Append(State(r).reviews, e)
      /\ state.status = State(r).status
      /\ state.current_phase = State(r).current_phase
      /\ state.revision = State(r).revision
  <2>1. result.decision \in Decisions /\ result.target_phase \in Choices
    BY <1>2 DEF ReviewResult
  <2> HIDE DEF result
  <2> QED
    BY <1>1, <2>1, WithDecisionFacts
<1>4. Save(r, state, "judged")
  BY DEF CommitReview
<1> HIDE DEF state, e
<1>5. /\ Revised(state) \in Session
      /\ Revised(state).status = state.status
      /\ Revised(state).current_phase = state.current_phase
      /\ Revised(state).reviews = state.reviews
  BY <1>3, RevisedFacts
<1>6. /\ call.pc = "judged" /\ call.stored = Revised(state)
      /\ call.result = result
  BY <1>5, NextCallType DEF Core, Pcs
<1>7. State(r).reviews \in Seq(ReviewEntry)
  BY <1>1 DEF Session
<1>8. state.reviews # <<>> /\ state.reviews[Len(state.reviews)] = e
  BY <1>3, <1>7
<1> HIDE DEF call, result
<1>9. Formed(call)
  BY <1>2, <1>3, <1>5, <1>6, <1>8
  DEF Formed, EndsWithReview, Working, Reviewing
<1> QED
  BY <1>2, <1>3, <1>4, <1>9, SaveStep DEF call, Pcs

LEMMA CoreConcludeReview ==
  ASSUME Core, NEW r \in Runners, ConcludeReview(r)
  PROVE  Core'
<1>1. State(r).status # "absent"
  BY AtReview DEF ConcludeReview, Reviewing, At
<1>2. CASE Finalize(r, "abandoned")
  BY <1>2, CoreFinalize DEF Terminal
<1>3. CASE \E target : Route(r, target)
  BY <1>1, <1>3, CoreRoute
<1> QED
  BY <1>2, <1>3 DEF ConcludeReview

LEMMA CoreInject ==
  ASSUME Core, NEW s \in Sessions, Inject(s)
  PROVE  Core'
<1>1. PICK i \in DOMAIN store[s].reviews, d \in HumanDecisions :
        store' = [store EXCEPT
                    ![s] = Revised(WithAnswer(@, i, d.decision, d.target_phase))]
  BY DEF Inject
<1> DEFINE state == WithAnswer(store[s], i, d.decision, d.target_phase)
           new == Revised(state)
<1>2. store[s] \in Session /\ d \in HumanDecision
  BY EngineAssumption DEF Core, StoreTyped
<1>3. /\ state \in Session
      /\ state.revision = store[s].revision
      /\ state.status = "in_progress"
  BY <1>2, WithAnswerFacts DEF HumanDecision, Inject
<1>4. store' = [store EXCEPT ![s] = new]
  BY <1>1 DEF Core, StoreTyped
<1> HIDE DEF state
<1>5. /\ new \in Session
      /\ new.revision > store[s].revision
      /\ new.status # "absent"
  <2>1. /\ new \in Session
        /\ new.revision = state.revision + 1
        /\ new.status = state.status
    BY <1>3, RevisedFacts
  <2>2. store[s].revision \in Nat
    BY <1>2 DEF Session
  <2> QED
    BY <1>3, <2>1, <2>2
<1>6. run' = run
  BY DEF Inject
<1>7. CallsTyped' /\ AllFormed'
  BY <1>6 DEF Core, CallsTyped, AllFormed
<1> HIDE DEF new
<1> QED
  BY <1>4, <1>5, <1>6, <1>7, WriteStep

\* Every step of the system preserves the inductive part of Inv.
LEMMA CoreNext ==
  ASSUME Inv, [Next]_vars
  PROVE  Core'
<1>1. Core
  BY InvParts
<1>2. CASE UNCHANGED vars
  BY <1>1, <1>2
  DEF vars, Core, StoreTyped, CallsTyped, AllFormed, AbsentBare, SnapshotCurrent,
      State, Fresh, At
<1>3. ASSUME NEW r \in Runners, Open(r) PROVE Core'
  BY <1>1, <1>3, CoreOpen
<1>4. ASSUME NEW r \in Runners, Step(r) PROVE Core'
  <2>1. CASE Initialize(r)
    BY <1>1, <2>1, CoreInitialize
  <2>2. CASE Start(r)
    BY <2>2, CoreStart
  <2>3. CASE Resume(r)
    BY <1>1, <2>3, CoreDispatch DEF Resume, At
  <2>4. CASE ReturnTerminal(r)
    BY <1>1, <2>4, LeaveStep DEF ReturnTerminal
  <2>5. CASE Execute(r)
    BY <1>1, <2>5, CoreExecute
  <2>6. CASE PublishFiles(r) \/ PublishHandoff(r)
    BY <1>1, <2>6, CorePublish
  <2>7. CASE CommitIteration(r)
    BY <1>1, <2>7, CoreCommitIteration
  <2>8. CASE \/ StopForQuestion(r) \/ Repeat(r) \/ GiveUp(r) \/ LeaveExecutor(r)
             \/ AbandonWithoutHandoff(r)
    BY <1>1, <2>8, CoreAfterCommit
  <2>9. CASE ApplyDecision(r)
    BY <1>1, <2>9, CoreApplyDecision
  <2>10. CASE AskHuman(r)
    BY <1>1, <2>10, CoreAskHuman
  <2>11. CASE InvokeReviewer(r)
    BY <1>1, <2>11, CoreInvokeReviewer
  <2>12. CASE CommitReview(r)
    BY <1>1, <2>12, CoreCommitReview
  <2>13. CASE ConcludeReview(r)
    BY <1>1, <2>13, CoreConcludeReview
  <2>14. CASE LockPack(r)
    BY <1>1, <2>14, LeaveStep DEF LockPack
  <2> QED
    BY <1>4, <2>1, <2>2, <2>3, <2>4, <2>5, <2>6, <2>7, <2>8, <2>9, <2>10,
       <2>11, <2>12, <2>13, <2>14 DEF Step
<1>5. ASSUME NEW r \in Runners, Pause(r) \/ Interrupt(r) PROVE Core'
  BY <1>1, <1>5, LeaveStep DEF Pause, Interrupt
<1>6. ASSUME NEW r \in Runners, Cancel(r) PROVE Core'
  BY <1>1, <1>6, CoreFinalize DEF Cancel, Terminal
<1>7. ASSUME NEW s \in Sessions, Inject(s) PROVE Core'
  BY <1>1, <1>7, CoreInject
<1> QED
  BY <1>2, <1>3, <1>4, <1>5, <1>6, <1>7 DEF Next

-------------------------------------------------------------------------------
\* A step that leaves the other variables alone keeps their types.
LEMMA RestSame == ASSUME RestTyped, UNCHANGED world PROVE RestTyped'
BY DEF RestTyped, world

LEMMA RestArtifacts ==
  ASSUME Inv, NEW r \in Runners, Execute(r) \/ InvokeReviewer(r)
  PROVE  RestTyped'
<1> DEFINE s == SessionOf[r]
           p == PhaseOf(r)
<1>1. /\ Core /\ RestTyped /\ s \in Sessions /\ p \in Phases
      /\ State(r) \in Session
      /\ artifacts[s].handoffs \subseteq Handoff
      /\ artifacts[s].decisions \subseteq Decision
  BY InvParts, CallFacts DEF RestTyped
<1>2. artifacts' \in [Sessions -> [handoffs : SUBSET Handoff,
                                   decisions : SUBSET Decision]]
  <2>1. CASE Execute(r)
    <3> DEFINE n == CountOf(State(r).phase_iterations, p) + 1
    <3>1. n \in Nat
      BY <1>1, EntriesFinite DEF Session
    <3>2. PICK result \in ExecutionResults :
            artifacts' = IF result.handoff
                         THEN [artifacts EXCEPT ![s].handoffs =
                                 Put(@, p, n, result.confidence_score)]
                         ELSE artifacts
      BY <2>1 DEF Execute
    <3>3. result.confidence_score \in Scores
      BY EngineAssumption DEF ExecutionResult
    <3> HIDE DEF n, p, s
    <3>4. Put(artifacts[s].handoffs, p, n, result.confidence_score)
            \subseteq Handoff
      BY <1>1, <3>1, <3>3 DEF Put, Handoff
    <3> QED
      BY <1>1, <3>2, <3>4 DEF RestTyped
  <2>2. CASE InvokeReviewer(r)
    <3> DEFINE n == CountOf(State(r).reviews, p) + 1
    <3>1. n \in Nat
      BY <1>1, EntriesFinite DEF Session
    <3>2. PICK result \in ReviewResults :
            \/ artifacts' = artifacts
            \/ artifacts' = [artifacts EXCEPT ![s].decisions =
                               Put(@, p, n, result.decision)]
      BY <2>2 DEF InvokeReviewer
    <3>3. result.decision \in Decisions
      BY EngineAssumption DEF ReviewResult
    <3> HIDE DEF n, p, s
    <3>4. Put(artifacts[s].decisions, p, n, result.decision) \subseteq Decision
      BY <1>1, <3>1, <3>3 DEF Put, Decision
    <3> QED
      BY <1>1, <3>2, <3>4 DEF RestTyped
  <2> QED
    BY <2>1, <2>2
<1>3. UNCHANGED <<pack, applied, metadata, interrupts, departures>>
  BY DEF Execute, InvokeReviewer
<1> QED
  BY <1>1, <1>2, <1>3 DEF RestTyped

LEMMA RestPack ==
  ASSUME Inv, NEW r \in Runners,
         \/ PublishFiles(r) \/ PublishHandoff(r) \/ StopForQuestion(r) \/ LockPack(r)
  PROVE  RestTyped'
<1> DEFINE s == SessionOf[r]
<1>1. /\ RestTyped /\ Formed(run[r]) /\ s \in Sessions /\ pack[s] \in Pack
  BY InvParts, CallFacts DEF RestTyped
<1>2. pack' \in [Sessions -> Pack]
  <2>1. CASE PublishFiles(r) \/ PublishHandoff(r)
    <3>1. run[r].result.confidence_score \in Scores
      BY <1>1, <2>1
      DEF Formed, Working, PublishFiles, PublishHandoff, At, ExecutionResult
    <3>2. PICK score \in Scores : \/ pack' = [pack EXCEPT ![s].files = score]
                                  \/ pack' = [pack EXCEPT ![s].handoff = score]
      BY <2>1, <3>1 DEF PublishFiles, PublishHandoff
    <3>3. /\ [pack[s] EXCEPT !.files = score] \in Pack
          /\ [pack[s] EXCEPT !.handoff = score] \in Pack
      BY <1>1 DEF Pack
    <3> QED
      BY <1>1, <3>2, <3>3 DEF RestTyped
  <2>2. CASE StopForQuestion(r)
    <3>1. [pack[s] EXCEPT !.questions = @ + 1] \in Pack
      BY <1>1 DEF Pack
    <3> QED
      BY <1>1, <2>2, <3>1 DEF StopForQuestion, RestTyped
  <2>3. CASE LockPack(r)
    <3>1. [pack[s] EXCEPT !.locked = TRUE] \in Pack
      BY <1>1 DEF Pack
    <3> QED
      BY <1>1, <2>3, <3>1 DEF LockPack, RestTyped
  <2> QED
    BY <2>1, <2>2, <2>3
<1>3. UNCHANGED <<artifacts, applied, metadata, interrupts, departures>>
  BY DEF PublishFiles, PublishHandoff, StopForQuestion, LockPack
<1> QED
  BY <1>1, <1>2, <1>3 DEF RestTyped

\* The decision to act upon is the last of the phase, or the next one.
LEMMA ToApplyIs ==
  ASSUME NEW r, CountOf(State(r).reviews, PhaseOf(r)) \in Nat
  PROVE  ToApply(r) \in {CountOf(State(r).reviews, PhaseOf(r)) + 1,
                         CountOf(State(r).reviews, PhaseOf(r)), 0}
<1> DEFINE p == PhaseOf(r)
           n == CountOf(State(r).reviews, p) + 1
           again == /\ p \in Human
                    /\ <<p, n - 1>> \notin applied[EngineOf[r]]
                    /\ Committed(State(r).reviews, p, n - 1) # {}
<1>1. ToApply(r) = IF Committed(State(r).reviews, p, n) # {} THEN n
                   ELSE IF again THEN n - 1 ELSE 0
  BY DEF ToApply
<1>2. n - 1 = CountOf(State(r).reviews, p)
  OBVIOUS
<1> HIDE DEF again
<1> QED
  BY <1>1, <1>2

LEMMA RestApplied ==
  ASSUME Inv, NEW r \in Runners, Open(r) \/ ApplyDecision(r)
  PROVE  RestTyped'
<1>1. /\ Core /\ RestTyped /\ SessionOf[r] \in Sessions
      /\ EngineOf[r] \in Engines /\ PhaseOf(r) \in Phases /\ State(r) \in Session
  BY InvParts, CallFacts, EngineAssumption
<1>2. CASE Open(r)
  BY <1>1, <1>2 DEF Open, RestTyped
<1>3. CASE ApplyDecision(r)
  <2>1. CountOf(State(r).reviews, PhaseOf(r)) \in Nat
    BY <1>1, EntriesFinite DEF Session
  <2>2. ToApply(r) \in Nat
    BY <2>1, ToApplyIs
  <2>3. applied' \in [Engines -> SUBSET (Phases \X Nat)]
    BY <1>1, <1>3, <2>2 DEF ApplyDecision, RestTyped
  <2>4. departures' \in [Sessions -> [Phases -> Nat]]
    BY <1>1, <1>3 DEF ApplyDecision, RestTyped
  <2>5. UNCHANGED <<artifacts, pack, metadata, interrupts>>
    BY <1>3 DEF ApplyDecision
  <2> QED
    BY <1>1, <2>3, <2>4, <2>5 DEF RestTyped
<1> QED
  BY <1>2, <1>3

LEMMA RestResume ==
  ASSUME Inv, NEW r \in Runners, Resume(r)
  PROVE  RestTyped'
<1>1. RestTyped /\ EngineOf[r] \in Engines /\ State(r).run_metadata \in Metadata
  BY InvParts, CallFacts, EngineAssumption DEF Session
<1> QED
  BY <1>1 DEF Resume, RestTyped

\* Every step keeps the types of the other variables.
LEMMA RestNext ==
  ASSUME Inv, [Next]_vars
  PROVE  RestTyped'
<1>1. RestTyped
  BY InvParts
<1>2. CASE UNCHANGED vars
  BY <1>1, <1>2, RestSame DEF vars, world
<1>3. ASSUME NEW r \in Runners, Open(r) PROVE RestTyped'
  BY <1>3, RestApplied
<1>4. ASSUME NEW r \in Runners, Step(r) PROVE RestTyped'
  <2>1. CASE Execute(r) \/ InvokeReviewer(r)
    BY <2>1, RestArtifacts
  <2>2. CASE \/ PublishFiles(r) \/ PublishHandoff(r)
             \/ StopForQuestion(r) \/ LockPack(r)
    BY <2>2, RestPack
  <2>3. CASE ApplyDecision(r)
    BY <2>3, RestApplied
  <2>4. CASE Resume(r)
    BY <2>4, RestResume
  <2>5. CASE \/ Initialize(r) \/ Start(r) \/ ReturnTerminal(r)
             \/ CommitIteration(r) \/ AbandonWithoutHandoff(r) \/ Repeat(r)
             \/ GiveUp(r) \/ LeaveExecutor(r) \/ AskHuman(r) \/ CommitReview(r)
             \/ ConcludeReview(r)
    <3>1. UNCHANGED world
      BY <2>5 DEF Initialize, Start, ReturnTerminal, CommitIteration,
         AbandonWithoutHandoff, Repeat, GiveUp, LeaveExecutor, AskHuman,
         CommitReview, ConcludeReview, world
    <3> QED
      BY <1>1, <3>1, RestSame
  <2> QED
    BY <1>4, <2>1, <2>2, <2>3, <2>4, <2>5 DEF Step
<1>5. ASSUME NEW r \in Runners, Pause(r) \/ Cancel(r) \/ Interrupt(r)
      PROVE  RestTyped'
  <2>1. /\ interrupts' \in 0..MaxInterrupts
        /\ UNCHANGED <<artifacts, pack, applied, metadata, departures>>
    BY <1>1, <1>5, EngineAssumption
    DEF Pause, Cancel, Interrupt, MayInterrupt, RestTyped
  <2> QED
    BY <1>1, <2>1 DEF RestTyped
<1>6. ASSUME NEW s \in Sessions, Inject(s) PROVE RestTyped'
  BY <1>1, <1>6, RestSame DEF Inject
<1> QED
  BY <1>2, <1>3, <1>4, <1>5, <1>6 DEF Next

-------------------------------------------------------------------------------
\* Inv holds in every reachable state: what a call holds in memory always fits
\* its place in the code, whatever other calls, people and crashes do.
THEOREM Invariance == Spec => []Inv
<1>1. Init => Inv
  BY InvInit
<1>2. Inv /\ [Next]_vars => Inv'
  <2> SUFFICES ASSUME Inv, [Next]_vars PROVE Inv'
    OBVIOUS
  <2>1. Core' /\ RestTyped'
    BY CoreNext, RestNext
  <2> QED
    BY <2>1 DEF Inv, TypeOK, Core, RestTyped, StoreTyped, CallsTyped, AllFormed
<1> QED
  BY <1>1, <1>2, PTL DEF Spec

\* No run() call, crash or injected decision ever makes the durable record, the
\* packs or the engines' memory ill-typed: a record can always be loaded again.
THEOREM TypeCorrect == Spec => []TypeOK
<1>1. Inv => TypeOK
  BY DEF Inv
<1> QED
  BY <1>1, Invariance, PTL

\* A call whose revision is the stored one holds the stored record, so a save
\* that passes the revision check overwrites nothing it has not seen.
THEOREM SnapshotsCurrent == Spec => []SnapshotCurrent
<1>1. Inv => SnapshotCurrent
  BY DEF Inv
<1> QED
  BY <1>1, Invariance, PTL

===============================================================================
