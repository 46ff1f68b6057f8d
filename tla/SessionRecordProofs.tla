-------------------------- MODULE SessionRecordProofs --------------------------
(***************************************************************************)
(* What the durable record says of itself, for every graph, policy, number *)
(* of sessions, runners and engines: entries are numbered in the order of  *)
(* their phase, feedback_loops counts the reviewers' send-backs, and no    *)
(* step on it is more than the durable session allows.                     *)
(***************************************************************************)
EXTENDS WorkflowEngineProofs

-------------------------------------------------------------------------------
Numbered(session) ==
  /\ \A i \in DOMAIN session.phase_iterations :
       session.phase_iterations[i].iteration
         = Ordinal(session.phase_iterations, i)
  /\ \A i \in DOMAIN session.reviews :
       session.reviews[i].review = Ordinal(session.reviews, i)

\* The positions of the send-backs by reviewer roles.
RoleSendBacks(reviews) ==
  {i \in DOMAIN reviews : /\ reviews[i].decision = "REQUEST_CHANGES"
                          /\ reviews[i].phase_id \notin Human}

Counted(session) ==
  session.feedback_loops = Cardinality(RoleSendBacks(session.reviews))

\* Only a person is waited for: what an answer replaces is never a role's entry.
StubsHuman(session) ==
  \A i \in DOMAIN session.reviews :
     session.reviews[i].decision = "PENDING" => session.reviews[i].phase_id \in Human

WellKept(session) == Numbered(session) /\ Counted(session) /\ StubsHuman(session)

AllKept == \A s \in Sessions : WellKept(store[s])

-------------------------------------------------------------------------------
(***************************************************************************)
(* A record stays well kept by each way of extending it.                   *)
(***************************************************************************)

\* Being well kept is a matter of the two logs and the counter.
LEMMA KeptSame ==
  ASSUME NEW a, NEW b, WellKept(a),
         b.phase_iterations = a.phase_iterations, b.reviews = a.reviews,
         b.feedback_loops = a.feedback_loops
  PROVE  WellKept(b)
BY DEF WellKept, Numbered, Counted, StubsHuman

LEMMA KeptAbsent == WellKept(Absent) /\ WellKept(Initialized)
<1>1. DOMAIN <<>> = {}
  OBVIOUS
<1>2. RoleSendBacks(<<>>) = {}
  BY <1>1 DEF RoleSendBacks
<1> QED
  BY <1>1, <1>2, AbsentType, FS_EmptySet
  DEF WellKept, Numbered, Counted, StubsHuman

LEMMA KeptIteration ==
  ASSUME NEW session \in Session, WellKept(session), NEW result,
         result.confidence_score \in Scores, result.handoff \in BOOLEAN
  PROVE  WellKept(WithIteration(session, result))
<1> DEFINE e == NewIteration(session, result)
           after == WithIteration(session, result)
           log == session.phase_iterations
<1>1. /\ e \in IterationEntry
      /\ e.phase_id = session.current_phase
      /\ after.phase_iterations = Append(log, e)
      /\ after.reviews = session.reviews
      /\ after.feedback_loops = session.feedback_loops
  BY WithIterationFacts
<1>2. e.iteration = CountOf(log, session.current_phase) + 1
  BY DEF NewIteration
<1>3. log \in Seq(IterationEntry)
  BY DEF Session
<1> HIDE DEF e, after, log
<1>4. /\ DOMAIN log = 1..Len(log) /\ Len(log) \in Nat
      /\ DOMAIN Append(log, e) = 1..(Len(log) + 1)
      /\ \A i \in 1..Len(log) : Append(log, e)[i] = log[i]
      /\ Append(log, e)[Len(log) + 1] = e
  BY <1>1, <1>3
<1>5. /\ \A i \in 1..Len(log) : Ordinal(Append(log, e), i) = Ordinal(log, i)
      /\ Ordinal(Append(log, e), Len(log) + 1) = e.iteration
  BY <1>1, <1>2, <1>3, OrdinalAppend
<1>6. ASSUME NEW i \in DOMAIN Append(log, e)
      PROVE  Append(log, e)[i].iteration = Ordinal(Append(log, e), i)
  <2>1. i \in 1..Len(log) \/ i = Len(log) + 1
    BY <1>4
  <2> QED
    BY <1>4, <1>5, <2>1 DEF WellKept, Numbered, log
<1> QED
  BY <1>1, <1>6 DEF WellKept, Numbered, Counted, StubsHuman, after

\* The numbers of the reviews, one more entry included.
LEMMA NumberedReview ==
  ASSUME NEW session \in Session, Numbered(session),
         NEW decision \in Decisions \cup {"PENDING"}, NEW target \in Choices,
         NEW after, after.phase_iterations = session.phase_iterations,
         after.reviews
           = Append(session.reviews, NewReview(session, decision, target))
  PROVE  Numbered(after)
<1> DEFINE e == NewReview(session, decision, target)
           log == session.reviews
<1>1. e \in ReviewEntry /\ e.phase_id = session.current_phase
  BY WithReviewFacts
<1>2. e.review = CountOf(log, session.current_phase) + 1
  BY DEF NewReview
<1>3. log \in Seq(ReviewEntry)
  BY DEF Session
<1> HIDE DEF e, log
<1>4. /\ DOMAIN log = 1..Len(log) /\ Len(log) \in Nat
      /\ DOMAIN Append(log, e) = 1..(Len(log) + 1)
      /\ \A i \in 1..Len(log) : Append(log, e)[i] = log[i]
      /\ Append(log, e)[Len(log) + 1] = e
  BY <1>1, <1>3
<1>5. /\ \A i \in 1..Len(log) : Ordinal(Append(log, e), i) = Ordinal(log, i)
      /\ Ordinal(Append(log, e), Len(log) + 1) = e.review
  BY <1>1, <1>2, <1>3, OrdinalAppend
<1>6. ASSUME NEW i \in DOMAIN Append(log, e)
      PROVE  Append(log, e)[i].review = Ordinal(Append(log, e), i)
  <2>1. i \in 1..Len(log) \/ i = Len(log) + 1
    BY <1>4
  <2> QED
    BY <1>4, <1>5, <2>1 DEF Numbered, log
<1>7. after.reviews = Append(log, e)
  BY DEF e, log
<1> QED
  BY <1>6, <1>7 DEF Numbered

\* One more review is one more send-back if it is one by a role.
LEMMA SendBacksAppend ==
  ASSUME NEW log \in Seq(ReviewEntry), NEW e \in ReviewEntry
  PROVE  Cardinality(RoleSendBacks(Append(log, e)))
           = Cardinality(RoleSendBacks(log))
               + IF e.decision = "REQUEST_CHANGES" /\ e.phase_id \notin Human
                 THEN 1 ELSE 0
<1> DEFINE sent == RoleSendBacks(log)
           new == Append(log, e)
<1>1. /\ DOMAIN log = 1..Len(log) /\ Len(log) \in Nat
      /\ DOMAIN new = 1..(Len(log) + 1)
      /\ \A i \in 1..Len(log) : new[i] = log[i]
      /\ new[Len(log) + 1] = e
  OBVIOUS
<1>2. IsFiniteSet(sent) /\ Len(log) + 1 \notin sent
  <2>1. sent \subseteq 1..Len(log)
    BY <1>1 DEF RoleSendBacks
  <2>2. IsFiniteSet(1..Len(log))
    BY <1>1, FS_Interval
  <2> HIDE DEF sent
  <2>3. IsFiniteSet(sent)
    BY <2>1, <2>2, FS_Subset
  <2>4. Len(log) + 1 \notin sent
    BY <1>1, <2>1
  <2> QED
    BY <2>3, <2>4
<1>3. Cardinality(sent) \in Nat
  BY <1>2, FS_CardinalityType
<1> HIDE DEF new
<1>4. CASE e.decision = "REQUEST_CHANGES" /\ e.phase_id \notin Human
  <2>1. RoleSendBacks(new) = sent \cup {Len(log) + 1}
    BY <1>1, <1>4 DEF RoleSendBacks
  <2> QED
    BY <1>2, <1>4, <2>1, FS_AddElement DEF new
<1>5. CASE ~(e.decision = "REQUEST_CHANGES" /\ e.phase_id \notin Human)
  <2>1. RoleSendBacks(new) = sent
    BY <1>1, <1>5 DEF RoleSendBacks
  <2> QED
    BY <1>3, <1>5, <2>1 DEF new
<1> QED
  BY <1>4, <1>5

\* The stub of a question to a person.
LEMMA KeptStub ==
  ASSUME NEW session \in Session, WellKept(session),
         session.current_phase \in Human
  PROVE  WellKept(WithReview(session, "PENDING", NoPhase))
<1> DEFINE e == NewReview(session, "PENDING", NoPhase)
           after == WithReview(session, "PENDING", NoPhase)
           log == session.reviews
<1>1. /\ e \in ReviewEntry
      /\ e.phase_id = session.current_phase /\ e.decision = "PENDING"
      /\ after.reviews = Append(log, e)
      /\ after.phase_iterations = session.phase_iterations
      /\ after.feedback_loops = session.feedback_loops
  BY WithReviewFacts DEF Choices
<1>2. Numbered(after)
  <2> HIDE DEF after
  <2> QED
    BY <1>1, NumberedReview DEF WellKept, Choices
<1>3. log \in Seq(ReviewEntry) /\ session.feedback_loops \in Nat
  BY DEF Session
<1> HIDE DEF e, after, log
<1>4. Counted(after)
  BY <1>1, <1>3, SendBacksAppend DEF WellKept, Counted, log
<1>5. StubsHuman(after)
  <2>1. /\ DOMAIN Append(log, e) = 1..(Len(log) + 1)
        /\ DOMAIN log = 1..Len(log) /\ Len(log) \in Nat
        /\ \A i \in 1..Len(log) : Append(log, e)[i] = log[i]
        /\ Append(log, e)[Len(log) + 1] = e
    BY <1>1, <1>3
  <2> QED
    BY <1>1, <2>1 DEF WellKept, StubsHuman, log
<1> QED
  BY <1>2, <1>4, <1>5 DEF WellKept, after

\* The decision of a reviewer role.
LEMMA KeptDecision ==
  ASSUME NEW session \in Session, WellKept(session),
         session.current_phase \notin Human,
         NEW decision \in Decisions, NEW target \in Choices
  PROVE  WellKept(WithDecision(session, decision, target))
<1> DEFINE e == NewReview(session, decision, target)
           after == WithDecision(session, decision, target)
           log == session.reviews
<1>1. /\ e \in ReviewEntry
      /\ e.phase_id = session.current_phase /\ e.decision = decision
      /\ after.reviews = Append(log, e)
      /\ after.phase_iterations = session.phase_iterations
      /\ after.feedback_loops
           = session.feedback_loops
               + IF decision = "REQUEST_CHANGES" THEN 1 ELSE 0
  BY WithDecisionFacts
<1>2. Numbered(after)
  <2> HIDE DEF after
  <2> QED
    BY <1>1, NumberedReview DEF WellKept
<1>3. log \in Seq(ReviewEntry) /\ session.feedback_loops \in Nat
  BY DEF Session
<1> HIDE DEF e, after, log
<1>4. Counted(after)
  BY <1>1, <1>3, SendBacksAppend DEF WellKept, Counted, log
<1>5. StubsHuman(after)
  <2>1. /\ DOMAIN Append(log, e) = 1..(Len(log) + 1)
        /\ DOMAIN log = 1..Len(log) /\ Len(log) \in Nat
        /\ \A i \in 1..Len(log) : Append(log, e)[i] = log[i]
        /\ Append(log, e)[Len(log) + 1] = e
    BY <1>1, <1>3
  <2>2. e.decision # "PENDING"
    BY <1>1 DEF Decisions
  <2> QED
    BY <1>1, <2>1, <2>2 DEF WellKept, StubsHuman, log
<1> QED
  BY <1>2, <1>4, <1>5 DEF WellKept, after

\* A person's answer in the place of a stub.
LEMMA KeptAnswer ==
  ASSUME NEW session \in Session, WellKept(session),
         NEW i \in DOMAIN session.reviews,
         session.reviews[i].decision = "PENDING",
         NEW decision \in Decisions, NEW target \in Choices
  PROVE  WellKept(WithAnswer(session, i, decision, target))
<1> DEFINE after == WithAnswer(session, i, decision, target)
           log == session.reviews
           new == after.reviews
<1>1. /\ DOMAIN new = DOMAIN log
      /\ \A j \in DOMAIN log :
           /\ new[j].phase_id = log[j].phase_id
           /\ new[j].review = log[j].review
           /\ new[j].decision = IF j = i THEN decision ELSE log[j].decision
      /\ after.phase_iterations = session.phase_iterations
      /\ after.feedback_loops = session.feedback_loops
  BY WithAnswerFacts
<1> HIDE DEF after, new
<1>2. \A j \in DOMAIN log : Ordinal(new, j) = Ordinal(log, j)
  <2> SUFFICES ASSUME NEW j \in DOMAIN log PROVE UpTo(new, j) = UpTo(log, j)
    BY DEF Ordinal
  <2> QED
    BY <1>1 DEF UpTo, EntriesOf
<1>3. Numbered(after)
  BY <1>1, <1>2 DEF WellKept, Numbered, new
<1>4. log[i].phase_id \in Human
  BY DEF WellKept, StubsHuman
<1>5. RoleSendBacks(new) = RoleSendBacks(log)
  BY <1>1, <1>4 DEF RoleSendBacks
<1>6. Counted(after)
  BY <1>1, <1>5 DEF WellKept, Counted, new
<1>7. StubsHuman(after)
  BY <1>1 DEF WellKept, StubsHuman, new, Decisions
<1> QED
  BY <1>3, <1>6, <1>7 DEF WellKept, after

-------------------------------------------------------------------------------
(***************************************************************************)
(* Every step keeps the records: a save stores an extension of the stored  *)
(* record because the revision check lets no other save in between.        *)
(***************************************************************************)
LEMMA KeptSave ==
  ASSUME Core, AllKept, NEW r \in Runners, ~At(r, "idle"), ~At(r, "missing"),
         NEW state \in Session, NEW pc, Save(r, state, pc),
         WellKept(State(r)) => WellKept(state)
  PROVE  AllKept'
<1> DEFINE s == SessionOf[r]
<1>1. CASE UNCHANGED store
  BY <1>1 DEF AllKept
<1>2. CASE Fresh(r) /\ store' = [store EXCEPT ![s] = Revised(state)]
  <2>1. s \in Sessions /\ State(r) = store[s]
    BY <1>2, CallFacts DEF Core, SnapshotCurrent
  <2>2. WellKept(Revised(state))
    BY <2>1, RevisedFacts, KeptSame DEF AllKept
  <2>3. \A t \in Sessions : store'[t] = IF t = s THEN Revised(state) ELSE store[t]
    BY <1>2 DEF Core, StoreTyped
  <2> QED
    BY <2>2, <2>3 DEF AllKept
<1> QED
  BY <1>1, <1>2 DEF Save

\* Transitions and ends leave the logs alone.
LEMMA KeptMove ==
  ASSUME Core, AllKept, NEW r \in Runners, ~At(r, "idle"), ~At(r, "missing"),
         \/ \E target : Route(r, target)
         \/ \E status \in Terminal : Finalize(r, status)
  PROVE  AllKept'
<1>1. State(r) \in Session
  BY CallFacts
<1>2. ASSUME NEW to \in Phases, Transition(r, to) PROVE AllKept'
  <2> DEFINE state == [State(r) EXCEPT !.current_phase = to]
  <2>1. /\ state \in Session
        /\ state.phase_iterations = State(r).phase_iterations
        /\ state.reviews = State(r).reviews
        /\ state.feedback_loops = State(r).feedback_loops
    BY <1>1 DEF Session
  <2>2. Save(r, state, Dispatch(state))
    BY <1>2 DEF Transition
  <2> HIDE DEF state
  <2> QED
    BY <2>1, <2>2, KeptSame, KeptSave
<1>3. ASSUME NEW status \in Terminal, Finalize(r, status) PROVE AllKept'
  <2> DEFINE state == [State(r) EXCEPT !.status = status]
  <2>1. /\ state \in Session
        /\ state.phase_iterations = State(r).phase_iterations
        /\ state.reviews = State(r).reviews
        /\ state.feedback_loops = State(r).feedback_loops
    BY <1>1 DEF Session, Statuses
  <2>2. \E pc : Save(r, state, pc)
    BY <1>3 DEF Finalize
  <2> HIDE DEF state
  <2> QED
    BY <2>1, <2>2, KeptSame, KeptSave
<1>4. CASE UNCHANGED store
  BY <1>4 DEF AllKept
<1> QED
  BY <1>2, <1>3, <1>4 DEF Route, Terminal

LEMMA KeptInitialize ==
  ASSUME Core, AllKept, NEW r \in Runners, Initialize(r)
  PROVE  AllKept'
<1>1. \/ UNCHANGED store
      \/ store' = [store EXCEPT ![SessionOf[r]] = Initialized]
  BY DEF Initialize
<1> QED
  BY <1>1, KeptAbsent DEF Core, StoreTyped, AllKept

LEMMA KeptStart ==
  ASSUME Inv, AllKept, NEW r \in Runners, Start(r)
  PROVE  AllKept'
<1> DEFINE state == [State(r) EXCEPT !.status = "in_progress",
                                     !.run_metadata = metadata[EngineOf[r]]]
<1>1. Core /\ State(r) \in Session /\ metadata[EngineOf[r]] \in Metadata
  BY InvParts, CallFacts, EngineAssumption DEF RestTyped
<1>2. /\ state \in Session
      /\ state.phase_iterations = State(r).phase_iterations
      /\ state.reviews = State(r).reviews
      /\ state.feedback_loops = State(r).feedback_loops
  BY <1>1 DEF Session, Statuses
<1>3. Save(r, state, Dispatch(state)) /\ ~At(r, "idle") /\ ~At(r, "missing")
  BY DEF Start, At
<1> HIDE DEF state
<1> QED
  BY <1>1, <1>2, <1>3, KeptSame, KeptSave

LEMMA KeptCommitIteration ==
  ASSUME Core, AllKept, NEW r \in Runners, CommitIteration(r)
  PROVE  AllKept'
<1> DEFINE result == run[r].result
           state == WithIteration(State(r), result)
<1>1. Formed(run[r]) /\ State(r) \in Session /\ run[r].pc = "published"
  BY CallFacts DEF CommitIteration, At
<1>2. result.confidence_score \in Scores /\ result.handoff \in BOOLEAN
  BY <1>1 DEF Formed, Working, ExecutionResult
<1>3. Save(r, state, "committed")
  BY DEF CommitIteration
<1>4. state \in Session /\ (WellKept(State(r)) => WellKept(state))
  BY <1>1, <1>2, WithIterationFacts, KeptIteration
<1> HIDE DEF state
<1> QED
  BY <1>1, <1>3, <1>4, KeptSave DEF At

LEMMA KeptAskHuman ==
  ASSUME Core, AllKept, NEW r \in Runners, AskHuman(r)
  PROVE  AllKept'
<1> DEFINE state == WithReview(State(r), "PENDING", NoPhase)
<1>1. /\ State(r) \in Session /\ run[r].pc = "review"
      /\ State(r).current_phase \in Human
  BY CallFacts DEF AskHuman, At
<1>2. Save(r, state, "idle")
  BY DEF AskHuman
<1>3. state \in Session /\ (WellKept(State(r)) => WellKept(state))
  BY <1>1, WithReviewFacts, KeptStub DEF Choices
<1> HIDE DEF state
<1> QED
  BY <1>1, <1>2, <1>3, KeptSave DEF At

LEMMA KeptCommitReview ==
  ASSUME Core, AllKept, NEW r \in Runners, CommitReview(r)
  PROVE  AllKept'
<1> DEFINE result == run[r].result
           state == WithDecision(State(r), result.decision, result.target_phase)
<1>1. /\ Formed(run[r]) /\ State(r) = run[r].stored
      /\ State(r) \in Session /\ run[r].pc = "reviewed"
  BY CallFacts DEF CommitReview, At
<1>2. /\ State(r).current_phase \notin Human
      /\ result.decision \in Decisions /\ result.target_phase \in Choices
  BY <1>1 DEF Formed, Reviewing, ReviewResult
<1>3. Save(r, state, "judged")
  BY DEF CommitReview
<1>4. state \in Session /\ (WellKept(State(r)) => WellKept(state))
  <2> HIDE DEF result
  <2> QED
    BY <1>1, <1>2, WithDecisionFacts, KeptDecision
<1> HIDE DEF state
<1> QED
  BY <1>1, <1>3, <1>4, KeptSave DEF At

LEMMA KeptInject ==
  ASSUME Core, AllKept, NEW s \in Sessions, Inject(s)
  PROVE  AllKept'
<1>1. PICK i \in DOMAIN store[s].reviews, d \in HumanDecisions :
        /\ store[s].reviews[i].decision = "PENDING"
        /\ store' = [store EXCEPT
                       ![s] = Revised(WithAnswer(@, i, d.decision, d.target_phase))]
  BY DEF Inject
<1> DEFINE state == WithAnswer(store[s], i, d.decision, d.target_phase)
<1>2. /\ store[s] \in Session /\ WellKept(store[s])
      /\ d.decision \in Decisions /\ d.target_phase \in Choices
  BY EngineAssumption DEF Core, StoreTyped, AllKept, HumanDecision
<1>3. state \in Session /\ WellKept(state)
  BY <1>1, <1>2, WithAnswerFacts, KeptAnswer
<1>4. store' = [store EXCEPT ![s] = Revised(state)]
  BY <1>1 DEF Core, StoreTyped
<1> HIDE DEF state
<1>5. WellKept(Revised(state))
  BY <1>3, RevisedFacts, KeptSame
<1> QED
  BY <1>4, <1>5 DEF Core, StoreTyped, AllKept

LEMMA KeptNext ==
  ASSUME Inv, AllKept, [Next]_vars
  PROVE  AllKept'
<1>1. Core
  BY InvParts
<1>2. CASE UNCHANGED store
  BY <1>2 DEF AllKept
<1>3. ASSUME NEW r \in Runners, Step(r) PROVE AllKept'
  <2>1. CASE Initialize(r)
    BY <1>1, <2>1, KeptInitialize
  <2>2. CASE Start(r)
    BY <2>2, KeptStart
  <2>3. CASE CommitIteration(r)
    BY <1>1, <2>3, KeptCommitIteration
  <2>4. CASE AskHuman(r)
    BY <1>1, <2>4, KeptAskHuman
  <2>5. CASE CommitReview(r)
    BY <1>1, <2>5, KeptCommitReview
  <2>6. CASE \/ AbandonWithoutHandoff(r) \/ GiveUp(r) \/ LeaveExecutor(r)
             \/ ApplyDecision(r) \/ ConcludeReview(r)
    BY <1>1, <2>6, KeptMove
    DEF AbandonWithoutHandoff, GiveUp, LeaveExecutor, ApplyDecision,
        ConcludeReview, Concluding, At, Terminal
  <2>7. CASE \/ Resume(r) \/ ReturnTerminal(r) \/ Execute(r) \/ PublishFiles(r)
             \/ PublishHandoff(r) \/ StopForQuestion(r) \/ Repeat(r)
             \/ InvokeReviewer(r) \/ LockPack(r)
    BY <1>2, <2>7
    DEF Resume, ReturnTerminal, Execute, PublishFiles, PublishHandoff,
        StopForQuestion, Repeat, InvokeReviewer, LockPack
  <2> QED
    BY <1>3, <2>1, <2>2, <2>3, <2>4, <2>5, <2>6, <2>7 DEF Step
<1>4. ASSUME NEW r \in Runners, Open(r) \/ Pause(r) \/ Interrupt(r) PROVE AllKept'
  BY <1>2, <1>4 DEF Open, Pause, Interrupt
<1>5. ASSUME NEW r \in Runners, Cancel(r) PROVE AllKept'
  BY <1>1, <1>5, KeptMove DEF Cancel, At, Terminal
<1>6. ASSUME NEW s \in Sessions, Inject(s) PROVE AllKept'
  BY <1>1, <1>6, KeptInject
<1> QED
  BY <1>2, <1>3, <1>4, <1>5, <1>6 DEF Next, vars

LEMMA Kept == Spec => []AllKept
<1>1. Init => AllKept
  BY KeptAbsent DEF Init, AllKept
<1>2. Inv /\ AllKept /\ [Next]_vars => AllKept'
  BY KeptNext
<1> QED
  BY <1>1, <1>2, Invariance, PTL DEF Spec

-------------------------------------------------------------------------------
\* The n-th entry of a phase carries the number n in both logs, whatever calls
\* overlap, resume or lose the race to save: artifact names, the lookup of a
\* person's decision and the iteration limit can count on it.
THEOREM NumberingCorrect == Spec => []EntriesNumbered
<1>1. AllKept => EntriesNumbered
  BY DEF AllKept, WellKept, Numbered, EntriesNumbered
<1> QED
  BY <1>1, Kept, PTL

\* The counter that the feedback cap is compared with is the number of send-backs
\* by reviewer roles in the log: retries, lost races and people's decisions never
\* make the two drift apart.
THEOREM FeedbackLoopsCorrect == Spec => []FeedbackLoopsCounted
<1>1. AllKept => FeedbackLoopsCounted
  BY DEF AllKept, WellKept, Counted, RoleSendBacks, FeedbackLoopsCounted
<1> QED
  BY <1>1, Kept, PTL

-------------------------------------------------------------------------------
(***************************************************************************)
(* The engine implements the durable session: a step is one on the record  *)
(* that the record and the graph justify, or leaves the store alone.  The  *)
(* instance has its own copy of SessionState; the copies are the same.     *)
(***************************************************************************)
LEMMA SameRecords ==
  /\ Durable!Absent = Absent /\ Durable!Initialized = Initialized
  /\ Durable!Reviews = Reviews /\ Durable!Choices = Choices
  /\ Durable!Decisions = Decisions
  /\ \A session : Durable!Revised(session) = Revised(session)
BY DEF Durable!Absent, Absent, Durable!Initialized, Initialized,
       Durable!Reviews, Reviews, Durable!Choices, Choices,
       Durable!Decisions, Decisions, Durable!Revised, Revised

LEMMA SameCounts ==
  ASSUME NEW log, NEW p
  PROVE  /\ Durable!EntriesOf(log, p) = EntriesOf(log, p)
         /\ Durable!CountOf(log, p) = CountOf(log, p)
<1>1. Durable!EntriesOf(log, p) = EntriesOf(log, p)
  BY DEF Durable!EntriesOf, EntriesOf
<1>2. \A S : Durable!Cardinality(S) = Cardinality(S)
  BY DEF Durable!Cardinality, Cardinality, Durable!IsFiniteSet, IsFiniteSet
<1> QED
  BY <1>1, <1>2 DEF Durable!CountOf, CountOf

LEMMA SameIteration ==
  ASSUME NEW session, NEW result
  PROVE  Durable!WithIteration(session, result) = WithIteration(session, result)
BY SameCounts
DEF Durable!WithIteration, WithIteration, Durable!NewIteration, NewIteration

LEMMA SameReview ==
  ASSUME NEW session, NEW decision, NEW target
  PROVE  /\ Durable!WithReview(session, decision, target)
              = WithReview(session, decision, target)
         /\ Durable!WithDecision(session, decision, target)
              = WithDecision(session, decision, target)
<1>1. Durable!WithReview(session, decision, target)
        = WithReview(session, decision, target)
  BY SameCounts DEF Durable!WithReview, WithReview, Durable!NewReview, NewReview
<1> QED
  BY <1>1 DEF Durable!WithDecision, WithDecision

LEMMA SameAnswer ==
  ASSUME NEW session, NEW i, NEW decision, NEW target
  PROVE  Durable!WithAnswer(session, i, decision, target)
           = WithAnswer(session, i, decision, target)
BY DEF Durable!WithAnswer, WithAnswer

LEMMA SameOutcome ==
  ASSUME NEW p, NEW score, NEW n
  PROVE  Durable!Outcome(p, score, n) = Outcome(p, score, n)
BY DEF Durable!Outcome, Outcome, Durable!IsSingleton, IsSingleton

-------------------------------------------------------------------------------
(***************************************************************************)
(* What the record itself says, in the terms of DurableSession.            *)
(***************************************************************************)
Implemented == Durable!Next \/ UNCHANGED store

\* A save that succeeds extends the stored record.
LEMMA SaveBecomes ==
  ASSUME Core, NEW r \in Runners, ~At(r, "idle"), ~At(r, "missing"),
         NEW state, NEW pc, Save(r, state, pc)
  PROVE  \/ UNCHANGED store
         \/ /\ State(r) = store[SessionOf[r]]
            /\ Durable!Becomes(SessionOf[r], state)
<1>1. CASE Fresh(r) /\ store' = [store EXCEPT ![SessionOf[r]] = Revised(state)]
  <2>1. State(r) = store[SessionOf[r]]
    BY <1>1 DEF Core, SnapshotCurrent
  <2> QED
    BY <1>1, <2>1, SameRecords DEF Durable!Becomes
<1> QED
  BY <1>1 DEF Save

\* The last entry of a log is the last of its phase.
LEMMA LastIsLast ==
  ASSUME NEW S, NEW log \in Seq(S), log # <<>>, NEW p,
         log[Len(log)].phase_id = p
  PROVE  Durable!IsLast(log, p, Len(log)) /\ Len(log) \in DOMAIN log
<1>1. DOMAIN log = 1..Len(log) /\ Len(log) \in Nat /\ Len(log) # 0
  OBVIOUS
<1>2. Len(log) \in EntriesOf(log, p)
  BY <1>1 DEF EntriesOf
<1>3. \A j \in EntriesOf(log, p) : j <= Len(log)
  BY <1>1 DEF EntriesOf
<1> QED
  BY <1>1, <1>2, <1>3, SameCounts DEF Durable!IsLast

\* A call that has committed an iteration knows what the record says of it.
LEMMA JudgedRecord ==
  ASSUME Core, NEW r \in Runners, At(r, "committed"),
         State(r) = store[SessionOf[r]], NEW outcome, Verdict(r) = outcome
  PROVE  Durable!Judged(SessionOf[r], outcome)
<1> DEFINE log == store[SessionOf[r]].phase_iterations
           p == PhaseOf(r)
           score == run[r].result.confidence_score
<1>1. /\ State(r) \in Session /\ p = store[SessionOf[r]].current_phase
      /\ run[r].result \in ExecutionResult
      /\ EndsWithIteration(State(r).phase_iterations, p, run[r].result)
  BY CallFacts DEF Formed, At, Working
<1>2. /\ log \in Seq(IterationEntry) /\ score \in Scores
      /\ log # <<>>
      /\ log[Len(log)].phase_id = p /\ log[Len(log)].confidence_score = score
  BY <1>1 DEF Session, ExecutionResult, EndsWithIteration
<1>3. Outcome(p, score, CountOf(log, p)) = outcome
  BY DEF Verdict
<1> HIDE DEF log, p, score
<1>4. Durable!IsLast(log, p, Len(log)) /\ Len(log) \in DOMAIN log
  BY <1>2, LastIsLast
<1>5. Durable!Phase(SessionOf[r]) = p
  BY <1>1 DEF Durable!Phase
<1>6. Durable!LastScore(SessionOf[r], score)
  BY <1>2, <1>4, <1>5 DEF Durable!LastScore, log
<1>7. Durable!Outcome(p, score, Durable!CountOf(log, p)) = outcome
  BY <1>3, SameCounts, SameOutcome
<1> QED
  BY <1>2, <1>5, <1>6, <1>7 DEF Durable!Judged, log

\* So does one that has committed a review.
LEMMA DecidedRecord ==
  ASSUME Core, NEW r \in Runners, At(r, "judged"),
         State(r) = store[SessionOf[r]]
  PROVE  Durable!LastDecision(SessionOf[r], run[r].result.decision)
<1> DEFINE log == store[SessionOf[r]].reviews
           p == PhaseOf(r)
<1>1. /\ State(r) \in Session /\ p = store[SessionOf[r]].current_phase
      /\ EndsWithReview(State(r).reviews, p, run[r].result)
  BY CallFacts DEF Formed, At
<1>2. /\ log \in Seq(ReviewEntry)
      /\ log # <<>>
      /\ log[Len(log)].phase_id = p
      /\ log[Len(log)].decision = run[r].result.decision
  BY <1>1 DEF Session, EndsWithReview
<1> HIDE DEF log, p
<1>3. Durable!IsLast(log, p, Len(log)) /\ Len(log) \in DOMAIN log
  BY <1>2, LastIsLast
<1>4. Durable!Phase(SessionOf[r]) = p
  BY <1>1 DEF Durable!Phase
<1> QED
  BY <1>2, <1>3, <1>4 DEF Durable!LastDecision, log

\* The decision a call acts upon is the last of the phase: there is no entry
\* with the next number, since entries are numbered.
LEMMA AppliedRecord ==
  ASSUME Core, AllKept, NEW r \in Runners, State(r) = store[SessionOf[r]],
         ToApply(r) # 0,
         NEW i, i \in Committed(State(r).reviews, PhaseOf(r), ToApply(r))
  PROVE  /\ Durable!LastDecision(SessionOf[r], State(r).reviews[i].decision)
         /\ State(r).reviews[i].decision \in Decisions
         /\ State(r).reviews[i].target_phase \in Choices
<1> DEFINE log == State(r).reviews
           p == PhaseOf(r)
           n == ToApply(r)
<1>1. /\ State(r) \in Session /\ p = store[SessionOf[r]].current_phase
      /\ SessionOf[r] \in Sessions
  BY CallFacts
<1>2. /\ log \in Seq(ReviewEntry) /\ i \in DOMAIN log
      /\ log[i].phase_id = p /\ log[i].review = n
      /\ log[i].decision # "PENDING"
  BY <1>1 DEF Session, Committed
<1>3. log[i] \in ReviewEntry
  BY <1>2
<1>4. CountOf(log, p) \in Nat
  BY <1>2, EntriesFinite
<1>5. n \in {CountOf(log, p) + 1, CountOf(log, p)}
  BY <1>4, ToApplyIs
<1>6. n = Ordinal(log, i)
  BY <1>1, <1>2 DEF AllKept, WellKept, Numbered
<1> HIDE DEF log, p, n
<1>7. Ordinal(log, i) <= CountOf(log, p) /\ Ordinal(log, i) \in Nat
  BY <1>2, OrdinalLast
<1>8. Ordinal(log, i) = CountOf(log, p)
  BY <1>4, <1>5, <1>6, <1>7
<1>9. \A j \in EntriesOf(log, p) : j <= i
  BY <1>2, <1>8, OrdinalLast
<1>10. Durable!IsLast(log, p, i)
  BY <1>2, <1>9, SameCounts DEF Durable!IsLast, EntriesOf
<1>11. Durable!Phase(SessionOf[r]) = p
  BY <1>1 DEF Durable!Phase
<1> QED
  BY <1>2, <1>3, <1>10, <1>11 DEF Durable!LastDecision, ReviewEntry, log

-------------------------------------------------------------------------------
(***************************************************************************)
(* Each action implements an action of DurableSession, or stutters.        *)
(***************************************************************************)
LEMMA DurableStep ==
  ASSUME NEW s \in Sessions,
         \/ Durable!Create(s) \/ Durable!Start(s) \/ Durable!Iterate(s)
         \/ Durable!Review(s) \/ Durable!Ask(s) \/ Durable!Answer(s)
         \/ Durable!Move(s) \/ Durable!Complete(s) \/ Durable!Fail(s)
         \/ Durable!Abandon(s)
  PROVE  Implemented
BY DEF Implemented, Durable!Next

\* What a call in its loop knows of a record it can still save.
LEMMA RunningCall ==
  ASSUME Core, NEW r \in Runners, run[r].pc \in Working \cup Reviewing
  PROVE  /\ ~At(r, "idle") /\ ~At(r, "missing")
         /\ State(r).status = "in_progress"
         /\ State(r) = store[SessionOf[r]]
              => /\ Durable!Running(SessionOf[r])
                 /\ Durable!Phase(SessionOf[r]) = PhaseOf(r)
         /\ run[r].pc \in Working => PhaseOf(r) \in Executors
         /\ run[r].pc \in Reviewing => PhaseOf(r) \in Reviews
<1>1. Formed(run[r]) /\ State(r) = run[r].stored /\ PhaseOf(r) = State(r).current_phase
  BY CallFacts
<1>2. State(r).status = "in_progress"
  BY <1>1 DEF Formed
<1>3. ~At(r, "idle") /\ ~At(r, "missing")
  BY DEF At, Working, Reviewing
<1>4. /\ run[r].pc \in Working => PhaseOf(r) \in Executors
      /\ run[r].pc \in Reviewing => PhaseOf(r) \in Reviews
  BY <1>1 DEF Formed
<1> QED
  BY <1>1, <1>2, <1>3, <1>4 DEF Durable!Running, Durable!Phase

LEMMA ImplementsInitialize ==
  ASSUME NEW r \in Runners, Initialize(r)
  PROVE  Implemented
<1>1. SessionOf[r] \in Sessions
  BY EngineAssumption
<1>2. UNCHANGED store \/ Durable!Create(SessionOf[r])
  BY SameRecords DEF Initialize, Durable!Create
<1> QED
  BY <1>1, <1>2, DurableStep DEF Implemented

LEMMA ImplementsStart ==
  ASSUME Inv, NEW r \in Runners, Start(r)
  PROVE  Implemented
<1> DEFINE m == metadata[EngineOf[r]]
           state == [State(r) EXCEPT !.status = "in_progress",
                                     !.run_metadata = m]
<1>1. Core /\ SessionOf[r] \in Sessions /\ m \in Metadata
  BY InvParts, EngineAssumption DEF RestTyped
<1>2. /\ ~At(r, "idle") /\ ~At(r, "missing")
      /\ State(r).status = "initialized"
      /\ Save(r, state, Dispatch(state))
  BY DEF Start, At
<1>3. \/ UNCHANGED store
      \/ State(r) = store[SessionOf[r]] /\ Durable!Becomes(SessionOf[r], state)
  <2> HIDE DEF state
  <2> QED
    BY <1>1, <1>2, SaveBecomes
<1> HIDE DEF m
<1>4. UNCHANGED store \/ Durable!Start(SessionOf[r])
  BY <1>1, <1>2, <1>3 DEF Durable!Start
<1> QED
  BY <1>1, <1>4, DurableStep DEF Implemented

LEMMA ImplementsCommitIteration ==
  ASSUME Core, NEW r \in Runners, CommitIteration(r)
  PROVE  Implemented
<1> DEFINE result == run[r].result
           s == SessionOf[r]
           bare == [confidence_score |-> result.confidence_score,
                    handoff |-> result.handoff]
<1>1. /\ run[r].pc = "published" /\ s \in Sessions /\ Formed(run[r])
      /\ Save(r, WithIteration(State(r), result), "committed")
  BY CallFacts DEF CommitIteration, At
<1>2. result.confidence_score \in Scores /\ result.handoff \in BOOLEAN
  BY <1>1 DEF Formed, Working, ExecutionResult
<1>3. /\ ~At(r, "idle") /\ ~At(r, "missing")
      /\ PhaseOf(r) \in Executors
      /\ State(r) = store[s] => Durable!Running(s) /\ Durable!Phase(s) = PhaseOf(r)
  BY <1>1, RunningCall DEF Working
<1>4. \/ UNCHANGED store
      \/ State(r) = store[s] /\ Durable!Becomes(s, WithIteration(State(r), result))
  BY <1>1, <1>3, SaveBecomes
<1>5. WithIteration(store[s], result) = Durable!WithIteration(store[s], bare)
  <2>1. WithIteration(store[s], result) = WithIteration(store[s], bare)
    BY DEF WithIteration, NewIteration
  <2> QED
    BY <2>1, SameIteration
<1>6. UNCHANGED store \/ Durable!Iterate(s)
  BY <1>2, <1>3, <1>4, <1>5 DEF Durable!Iterate
<1> QED
  BY <1>1, <1>6, DurableStep DEF Implemented

LEMMA ImplementsAskHuman ==
  ASSUME Core, NEW r \in Runners, AskHuman(r)
  PROVE  Implemented
<1> DEFINE s == SessionOf[r]
<1>1. /\ run[r].pc = "review" /\ s \in Sessions /\ PhaseOf(r) \in Human
      /\ Save(r, WithReview(State(r), "PENDING", NoPhase), "idle")
  BY CallFacts DEF AskHuman, At
<1>2. /\ ~At(r, "idle") /\ ~At(r, "missing")
      /\ PhaseOf(r) \in Reviews
      /\ State(r) = store[s] => Durable!Running(s) /\ Durable!Phase(s) = PhaseOf(r)
  BY <1>1, RunningCall DEF Reviewing
<1>3. \/ UNCHANGED store
      \/ /\ State(r) = store[s]
         /\ Durable!Becomes(s, WithReview(State(r), "PENDING", NoPhase))
  BY <1>1, <1>2, SaveBecomes
<1>4. UNCHANGED store \/ Durable!Ask(s)
  BY <1>1, <1>2, <1>3, SameReview, SameRecords DEF Durable!Ask
<1> QED
  BY <1>1, <1>4, DurableStep DEF Implemented

LEMMA ImplementsCommitReview ==
  ASSUME Core, NEW r \in Runners, CommitReview(r)
  PROVE  Implemented
<1> DEFINE s == SessionOf[r]
           decision == run[r].result.decision
           target == run[r].result.target_phase
<1>1. /\ run[r].pc = "reviewed" /\ s \in Sessions /\ Formed(run[r])
      /\ PhaseOf(r) = run[r].stored.current_phase
      /\ Save(r, WithDecision(State(r), decision, target), "judged")
  BY CallFacts DEF CommitReview, At
<1>2. decision \in Decisions /\ target \in Choices /\ PhaseOf(r) \notin Human
  BY <1>1 DEF Formed, Reviewing, ReviewResult
<1>3. /\ ~At(r, "idle") /\ ~At(r, "missing")
      /\ PhaseOf(r) \in Reviews
      /\ State(r) = store[s] => Durable!Running(s) /\ Durable!Phase(s) = PhaseOf(r)
  BY <1>1, RunningCall DEF Reviewing
<1> HIDE DEF decision, target
<1>4. \/ UNCHANGED store
      \/ /\ State(r) = store[s]
         /\ Durable!Becomes(s, WithDecision(State(r), decision, target))
  BY <1>1, <1>3, SaveBecomes
<1>5. UNCHANGED store \/ Durable!Review(s)
  BY <1>2, <1>3, <1>4, SameReview, SameRecords DEF Durable!Review
<1> QED
  BY <1>1, <1>5, DurableStep DEF Implemented

LEMMA ImplementsInject ==
  ASSUME Core, NEW s \in Sessions, Inject(s)
  PROVE  Implemented
<1>1. PICK i \in DOMAIN store[s].reviews, d \in HumanDecisions :
        /\ store[s].reviews[i].decision = "PENDING"
        /\ store' = [store EXCEPT
                       ![s] = Revised(WithAnswer(@, i, d.decision, d.target_phase))]
  BY DEF Inject
<1>2. d.decision \in Decisions /\ d.target_phase \in Choices
  BY EngineAssumption DEF HumanDecision
<1>3. Durable!Becomes(s, WithAnswer(store[s], i, d.decision, d.target_phase))
  BY <1>1, SameRecords DEF Durable!Becomes, Core, StoreTyped
<1>4. Durable!Running(s)
  BY DEF Inject, Durable!Running
<1>5. Durable!Answer(s)
  BY <1>1, <1>2, <1>3, <1>4, SameAnswer, SameRecords DEF Durable!Answer
<1> QED
  BY <1>5, DurableStep

\* A session that ends early.
LEMMA ImplementsAbandon ==
  ASSUME Core, NEW r \in Runners, run[r].pc \in Working \cup Reviewing,
         Finalize(r, "abandoned")
  PROVE  Implemented
<1> DEFINE s == SessionOf[r]
           state == [State(r) EXCEPT !.status = "abandoned"]
<1>1. \E pc : Save(r, state, pc)
  BY DEF Finalize
<1>2. /\ ~At(r, "idle") /\ ~At(r, "missing") /\ s \in Sessions
      /\ State(r) = store[s] => Durable!Running(s)
  BY CallFacts, RunningCall
<1>3. UNCHANGED store \/ (State(r) = store[s] /\ Durable!Becomes(s, state))
  <2> HIDE DEF state
  <2> QED
    BY <1>1, <1>2, SaveBecomes
<1>4. UNCHANGED store \/ Durable!Abandon(s)
  BY <1>2, <1>3 DEF Durable!Abandon
<1> QED
  BY <1>2, <1>4, DurableStep DEF Implemented

LEMMA ImplementsGiveUp ==
  ASSUME Core, NEW r \in Runners, GiveUp(r)
  PROVE  Implemented
<1> DEFINE s == SessionOf[r]
           state == [State(r) EXCEPT !.status = "failed"]
<1>1. /\ run[r].pc = "committed" /\ At(r, "committed") /\ s \in Sessions
      /\ Verdict(r) = "fail"
  BY CallFacts DEF GiveUp, Concluding, At
<1>2. \E pc : Save(r, state, pc)
  BY DEF GiveUp, Finalize
<1>3. /\ ~At(r, "idle") /\ ~At(r, "missing") /\ PhaseOf(r) \in Executors
      /\ State(r) = store[s] => Durable!Running(s) /\ Durable!Phase(s) = PhaseOf(r)
  BY <1>1, RunningCall DEF Working
<1>4. UNCHANGED store \/ (State(r) = store[s] /\ Durable!Becomes(s, state))
  <2> HIDE DEF state
  <2> QED
    BY <1>2, <1>3, SaveBecomes
<1>5. State(r) = store[s] => Durable!Judged(s, "fail")
  BY <1>1, JudgedRecord
<1>6. UNCHANGED store \/ Durable!Fail(s)
  BY <1>3, <1>4, <1>5 DEF Durable!Fail
<1> QED
  BY <1>1, <1>6, DurableStep DEF Implemented

\* A call that leaves a phase moves or completes the session, and may.
LEMMA ImplementsRoute ==
  ASSUME Core, NEW r \in Runners, run[r].pc \in Working \cup Reviewing,
         NEW target, Route(r, target),
         State(r) = store[SessionOf[r]] /\ target \in Phases
           => Durable!MayMove(SessionOf[r], target),
         State(r) = store[SessionOf[r]] /\ target = NoPhase
           => Durable!MayComplete(SessionOf[r])
  PROVE  Implemented
<1> DEFINE s == SessionOf[r]
<1>1. /\ ~At(r, "idle") /\ ~At(r, "missing") /\ s \in Sessions
      /\ State(r) = store[s] => Durable!Running(s)
  BY CallFacts, RunningCall
<1>2. CASE target \in Phases /\ Transition(r, target)
  <2> DEFINE state == [State(r) EXCEPT !.current_phase = target]
  <2>1. \E pc : Save(r, state, pc)
    BY <1>2 DEF Transition
  <2>2. UNCHANGED store \/ (State(r) = store[s] /\ Durable!Becomes(s, state))
    <3> HIDE DEF state
    <3> QED
      BY <1>1, <2>1, SaveBecomes
  <2>3. UNCHANGED store \/ Durable!Move(s)
    BY <1>1, <1>2, <2>2 DEF Durable!Move
  <2> QED
    BY <1>1, <2>3, DurableStep DEF Implemented
<1>3. CASE target = NoPhase /\ Finalize(r, "completed")
  <2> DEFINE state == [State(r) EXCEPT !.status = "completed"]
  <2>1. \E pc : Save(r, state, pc)
    BY <1>3 DEF Finalize
  <2>2. UNCHANGED store \/ (State(r) = store[s] /\ Durable!Becomes(s, state))
    <3> HIDE DEF state
    <3> QED
      BY <1>1, <2>1, SaveBecomes
  <2>3. UNCHANGED store \/ Durable!Complete(s)
    BY <1>1, <1>3, <2>2 DEF Durable!Complete
  <2> QED
    BY <1>1, <2>3, DurableStep DEF Implemented
<1> QED
  BY <1>2, <1>3 DEF Route, Implemented

LEMMA ImplementsLeaveExecutor ==
  ASSUME Core, NEW r \in Runners, LeaveExecutor(r)
  PROVE  Implemented
<1> DEFINE s == SessionOf[r]
           p == PhaseOf(r)
           chosen == run[r].result.chosen_next
           target == Resolve(OnComplete[p], chosen)
<1>1. /\ run[r].pc = "committed" /\ At(r, "committed")
      /\ Verdict(r) = "route" /\ Route(r, target)
      /\ Formed(run[r]) /\ p \in Phases
  BY CallFacts DEF LeaveExecutor, Concluding, At
<1>2. chosen \in Choices /\ OnComplete[p] \in SUBSET Phases
  BY <1>1, GraphAssumption DEF Formed, Working, ExecutionResult, ValidGraph
<1>3. \/ target \in OnComplete[p]
      \/ target = NoPhase /\ OnComplete[p] = {}
      \/ target = BadTarget
  BY <1>2, ResolveIn
<1>4. /\ p \in Executors
      /\ State(r) = store[s] => Durable!Phase(s) = p /\ Durable!Judged(s, "route")
  BY <1>1, RunningCall, JudgedRecord DEF Working
<1> HIDE DEF target, p
<1>5. /\ State(r) = store[s] /\ target \in Phases => Durable!MayMove(s, target)
      /\ State(r) = store[s] /\ target = NoPhase => Durable!MayComplete(s)
  <2>1. OnComplete[p] \subseteq Phases
    BY <1>2
  <2> QED
    BY <1>3, <1>4, <2>1, GraphAssumption DEF Durable!MayMove, Durable!MayComplete, ValidGraph
<1> QED
  BY <1>1, <1>5, ImplementsRoute DEF Working

\* The way a review's decision leads is one the graph has for it.
LEMMA ReviewRouteMay ==
  ASSUME NEW s, NEW p \in Reviews, Durable!Phase(s) = p,
         NEW decision \in Decisions, Durable!LastDecision(s, decision),
         NEW chosen \in Choices
  PROVE  LET target == ReviewRoute(p, decision, chosen) IN
         /\ target \in Phases => Durable!MayMove(s, target)
         /\ target = NoPhase => Durable!MayComplete(s)
<1> DEFINE target == ReviewRoute(p, decision, chosen)
<1>1. /\ OnApprove[p] \in SUBSET Phases
      /\ CanRequestChangesFrom[p] \in SUBSET Phases
  BY GraphAssumption DEF Reviews, ValidGraph
<1>2. CASE decision = "APPROVE"
  <2>1. \/ target \in OnApprove[p]
        \/ target = NoPhase /\ OnApprove[p] = {}
        \/ target = BadTarget
    BY <1>1, <1>2, ResolveIn DEF ReviewRoute
  <2> HIDE DEF target
  <2>2. target \in Phases => Durable!MayMove(s, target)
    BY <1>2, <2>1, GraphAssumption DEF Durable!MayMove, ValidGraph
  <2>3. target = NoPhase => Durable!MayComplete(s)
    BY <1>1, <1>2, <2>1, GraphAssumption, SameRecords DEF Durable!MayComplete, ValidGraph
  <2> QED
    BY <2>2, <2>3 DEF target
<1>3. CASE decision = "REQUEST_CHANGES"
  <2>1. target \in CanRequestChangesFrom[p] \/ target = BadTarget
    BY <1>1, <1>3, ResolveIn DEF ReviewRoute
  <2> HIDE DEF target
  <2>2. target \in Phases => Durable!MayMove(s, target)
    BY <1>3, <2>1, GraphAssumption DEF Durable!MayMove, ValidGraph
  <2>3. target # NoPhase
    BY <1>1, <2>1, GraphAssumption DEF ValidGraph
  <2> QED
    BY <2>2, <2>3 DEF target
<1> QED
  BY <1>2, <1>3 DEF Decisions

LEMMA ImplementsApplyDecision ==
  ASSUME Core, AllKept, NEW r \in Runners, ApplyDecision(r)
  PROVE  Implemented
<1> DEFINE s == SessionOf[r]
           p == PhaseOf(r)
           decided == Committed(State(r).reviews, p, ToApply(r))
           i == CHOOSE j \in decided : TRUE
           entry == State(r).reviews[i]
<1>1. /\ run[r].pc = "review" /\ ToApply(r) # 0
      /\ Route(r, ReviewRoute(p, entry.decision, entry.target_phase))
  BY DEF ApplyDecision, At
<1>2. decided # {}
  BY <1>1 DEF ToApply
<1>3. i \in decided
  BY <1>2
<1> HIDE DEF i
<1>4. State(r) = store[s]
        => /\ Durable!LastDecision(s, entry.decision)
           /\ entry.decision \in Decisions /\ entry.target_phase \in Choices
  BY <1>1, <1>3, AppliedRecord
<1>5. p \in Reviews /\ (State(r) = store[s] => Durable!Phase(s) = p)
  BY <1>1, RunningCall DEF Reviewing
<1> DEFINE target == ReviewRoute(p, entry.decision, entry.target_phase)
<1>6. /\ State(r) = store[s] /\ target \in Phases => Durable!MayMove(s, target)
      /\ State(r) = store[s] /\ target = NoPhase => Durable!MayComplete(s)
  BY <1>4, <1>5, ReviewRouteMay
<1> HIDE DEF target
<1> QED
  BY <1>1, <1>6, ImplementsRoute DEF target, Reviewing

LEMMA ImplementsConcludeReview ==
  ASSUME Core, NEW r \in Runners, ConcludeReview(r)
  PROVE  Implemented
<1> DEFINE s == SessionOf[r]
           p == PhaseOf(r)
           result == run[r].result
           chosen == IF result.decision = "APPROVE"
                     THEN result.chosen_next ELSE result.target_phase
           target == ReviewRoute(p, result.decision, chosen)
<1>1. /\ run[r].pc = "judged" /\ At(r, "judged") /\ Formed(run[r])
      /\ Finalize(r, "abandoned") \/ Route(r, target)
  BY CallFacts DEF ConcludeReview, At, ReviewerRoute
<1>2. result.decision \in Decisions /\ chosen \in Choices
  BY <1>1 DEF Formed, Reviewing, ReviewResult
<1>3. /\ p \in Reviews
      /\ State(r) = store[s] => /\ Durable!Phase(s) = p
                               /\ Durable!LastDecision(s, result.decision)
  BY <1>1, RunningCall, DecidedRecord DEF Reviewing
<1> HIDE DEF chosen
<1>4. /\ State(r) = store[s] /\ target \in Phases => Durable!MayMove(s, target)
      /\ State(r) = store[s] /\ target = NoPhase => Durable!MayComplete(s)
  BY <1>2, <1>3, ReviewRouteMay
<1> HIDE DEF target
<1> QED
  BY <1>1, <1>4, ImplementsRoute, ImplementsAbandon DEF Reviewing

\* Every step of the system is a step of the durable session or a stutter.
LEMMA ImplementsNext ==
  ASSUME Inv, AllKept, [Next]_vars
  PROVE  Implemented
<1>1. Core
  BY InvParts
<1>2. CASE UNCHANGED vars
  BY <1>2 DEF vars, Implemented
<1>3. ASSUME NEW r \in Runners, Step(r) PROVE Implemented
  <2>1. CASE Initialize(r)
    BY <2>1, ImplementsInitialize
  <2>2. CASE Start(r)
    BY <2>2, ImplementsStart
  <2>3. CASE CommitIteration(r)
    BY <1>1, <2>3, ImplementsCommitIteration
  <2>4. CASE AbandonWithoutHandoff(r)
    BY <1>1, <2>4, ImplementsAbandon DEF AbandonWithoutHandoff, At, Working
  <2>5. CASE GiveUp(r)
    BY <1>1, <2>5, ImplementsGiveUp
  <2>6. CASE LeaveExecutor(r)
    BY <1>1, <2>6, ImplementsLeaveExecutor
  <2>7. CASE ApplyDecision(r)
    BY <1>1, <2>7, ImplementsApplyDecision
  <2>8. CASE AskHuman(r)
    BY <1>1, <2>8, ImplementsAskHuman
  <2>9. CASE CommitReview(r)
    BY <1>1, <2>9, ImplementsCommitReview
  <2>10. CASE ConcludeReview(r)
    BY <1>1, <2>10, ImplementsConcludeReview
  <2>11. CASE \/ Resume(r) \/ ReturnTerminal(r) \/ Execute(r) \/ PublishFiles(r)
              \/ PublishHandoff(r) \/ StopForQuestion(r) \/ Repeat(r)
              \/ InvokeReviewer(r) \/ LockPack(r)
    BY <2>11
    DEF Resume, ReturnTerminal, Execute, PublishFiles, PublishHandoff,
        StopForQuestion, Repeat, InvokeReviewer, LockPack, Implemented
  <2> QED
    BY <1>3, <2>1, <2>2, <2>3, <2>4, <2>5, <2>6, <2>7, <2>8, <2>9, <2>10,
       <2>11 DEF Step
<1>4. ASSUME NEW r \in Runners, Open(r) \/ Pause(r) \/ Interrupt(r)
      PROVE  Implemented
  BY <1>4 DEF Open, Pause, Interrupt, Implemented
<1>5. ASSUME NEW r \in Runners, Cancel(r) PROVE Implemented
  <2>1. run[r].pc \in Working \cup Reviewing /\ Finalize(r, "abandoned")
    BY <1>5 DEF Cancel, Working, Reviewing
  <2> QED
    BY <1>1, <2>1, ImplementsAbandon
<1>6. ASSUME NEW s \in Sessions, Inject(s) PROVE Implemented
  BY <1>1, <1>6, ImplementsInject
<1> QED
  BY <1>2, <1>3, <1>4, <1>5, <1>6 DEF Next

-------------------------------------------------------------------------------
\* The engine implements the durable session: whatever calls overlap, crash,
\* retry or lose the race to save, each change of the stored record is one that
\* the record itself and the graph justify.
THEOREM Refinement == Spec => DurableSpec
<1>1. Init => Durable!Init
  BY SameRecords DEF Init, Durable!Init
<1>2. Inv /\ AllKept /\ [Next]_vars => [Durable!Next]_store
  BY ImplementsNext DEF Implemented
<1> QED
  BY <1>1, <1>2, Invariance, Kept, PTL DEF Spec, DurableSpec, Durable!Spec

===============================================================================
