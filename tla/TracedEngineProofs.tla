--------------------------- MODULE TracedEngineProofs ---------------------------
(***************************************************************************)
(* The observer's books, for every graph, policy and number of sessions,   *)
(* runners and engines: no span is lost whatever calls overlap; with one   *)
(* caller for each session, which is the observer's contract, the spans,   *)
(* totals and counters also tell what the record says.                     *)
(***************************************************************************)
EXTENDS TracedEngine, CallerProofs

-------------------------------------------------------------------------------
(***************************************************************************)
(* A step of the traced engine is one of the engine, the sudden end of a   *)
(* call or of all calls, or does not concern the engine.                   *)
(***************************************************************************)
AllDie ==
  /\ MayInterrupt
  /\ run' = [r \in Runners |-> Idle]
  /\ UNCHANGED <<store, artifacts, pack, applied, metadata, departures>>

LEMMA StepCases ==
  ASSUME NEW r \in Runners, TracedStep(r)
  PROVE  /\ CallOf(r) /\ queue[r] = <<>>
         /\ ~CommitIteration(r) /\ ~CommitReview(r) => Told(r) /\ UNCHANGED usage
BY DEF TracedStep, Told, CallOf, Step

LEMMA TracedCases ==
  ASSUME [TracedNext]_tracedVars
  PROVE  \/ UNCHANGED tracedVars
         \/ \E r \in Runners : TracedOpen(r) \/ TracedStep(r)
         \/ \E r \in Runners : Emit(r)
         \/ \E r \in Runners : Raise(r) \/ Abort(r)
         \/ \E s \in Sessions : Inject(s) /\ UNCHANGED tracing
         \/ Die
BY DEF TracedNext

LEMMA EngineCases ==
  ASSUME [TracedNext]_tracedVars
  PROVE  [Next]_vars \/ (\E r \in Runners : CutShort(r)) \/ AllDie
<1>1. CASE UNCHANGED tracedVars \/ \E r \in Runners : Emit(r)
  BY <1>1 DEF tracedVars, Emit
<1>2. ASSUME NEW r \in Runners, TracedOpen(r) \/ TracedStep(r)
      PROVE  [Next]_vars
  BY <1>2, StepCases DEF TracedOpen, CallOf, Next
<1>3. CASE \E r \in Runners : Raise(r) \/ Abort(r)
  BY <1>3 DEF Raise, Abort
<1>4. CASE \E s \in Sessions : Inject(s)
  BY <1>4 DEF Next
<1>5. CASE Die
  BY <1>5 DEF Die, AllDie
<1> QED
  BY <1>1, <1>2, <1>3, <1>4, <1>5, TracedCases

LEMMA InterruptTyped ==
  ASSUME Inv, MayInterrupt
  PROVE  interrupts' \in 0..MaxInterrupts /\ interrupts' = interrupts + 1
BY InvParts, EngineAssumption DEF RestTyped, MayInterrupt

\* The engine's invariants hold of the traced engine.
LEMMA TracedInvNext ==
  ASSUME Inv, AllKept, [TracedNext]_tracedVars
  PROVE  Inv' /\ AllKept'
<1>1. CASE [Next]_vars
  <2>1. Core' /\ RestTyped'
    BY <1>1, InvParts, CoreNext, RestNext
  <2>2. Inv'
    BY <2>1 DEF Inv, TypeOK, Core, RestTyped, StoreTyped, CallsTyped, AllFormed
  <2> QED
    BY <1>1, <2>2, KeptNext
<1>2. ASSUME MayInterrupt,
             UNCHANGED <<store, artifacts, pack, applied, metadata, departures>>,
             Core'
      PROVE  Inv' /\ AllKept'
  <2>1. RestTyped'
    BY <1>2, InvParts, InterruptTyped DEF RestTyped
  <2>2. Inv'
    BY <1>2, <2>1
    DEF Inv, TypeOK, Core, RestTyped, StoreTyped, CallsTyped, AllFormed
  <2> QED
    BY <1>2, <2>2 DEF AllKept
<1>3. CASE \E r \in Runners : CutShort(r)
  BY <1>2, <1>3, InvParts, LeaveStep DEF CutShort
<1>4. CASE AllDie
  <2>1. StoreTyped' /\ AbsentBare'
    BY <1>4, InvParts DEF AllDie, Core, StoreTyped, AbsentBare
  <2>2. \A r \in Runners : run'[r] = Idle
    BY <1>4 DEF AllDie
  <2>3. CallsTyped' /\ AllFormed'
    BY <1>4, <2>2, IdleFormed DEF AllDie, CallsTyped, AllFormed
  <2>4. SnapshotCurrent'
    <3> SUFFICES ASSUME NEW r \in Runners
                 PROVE  /\ run'[r].stored.revision <= store'[SessionOf[r]].revision
                        /\ run'[r].pc = "idle"
      BY DEF SnapshotCurrent, State, At
    <3>1. /\ Idle.stored.revision = 0 /\ Idle.pc = "idle"
          /\ store[SessionOf[r]].revision \in Nat
      BY AbsentType, InvParts, EngineAssumption DEF Idle, Core, StoreTyped, Session
    <3> QED
      BY <1>4, <2>2, <3>1 DEF AllDie
  <2>5. Core'
    BY <2>1, <2>3, <2>4 DEF Core
  <2> QED
    BY <1>2, <1>4, <2>5 DEF AllDie
<1> QED
  BY <1>1, <1>3, <1>4, EngineCases

LEMMA TracedInvariance == TracedSpec => [](Inv /\ AllKept)
<1>1. TracedInit => Inv /\ AllKept
  BY InvInit, KeptAbsent DEF TracedInit, Init, AllKept
<1>2. Inv /\ AllKept /\ [TracedNext]_tracedVars => Inv' /\ AllKept'
  BY TracedInvNext
<1> QED
  BY <1>1, <1>2, PTL DEF TracedSpec

-------------------------------------------------------------------------------
(***************************************************************************)
(* Types and open spans.  That unended is the number of spans held is part *)
(* of a span record's type: ending one that is not open would break it.    *)
(***************************************************************************)
TracedEvent ==
  {e \in [kind : EventKinds, phase_id : Choices, total : Nat] :
     e.kind = "PhaseStarted" => e.phase_id \in Phases}

Span ==
  {sp \in [run : {"none", "fresh", "resumed"}, phase : Choices, unended : Nat,
           tokens : Nat] : sp.unended = Held(sp)}

Books ==
  /\ queue \in [Runners -> Seq(TracedEvent)]
  /\ usage \in [Runners -> Nat]
  /\ spans \in [Sessions -> Span]
  /\ counted \in [Sessions -> Nat]
  /\ cut \subseteq Sessions

LEMMA EventTyped ==
  ASSUME NEW kind \in EventKinds, NEW p \in Choices, NEW total \in Nat,
         kind = "PhaseStarted" => p \in Phases
  PROVE  /\ Event(kind, p, total) \in TracedEvent
         /\ Notice(kind, p) \in TracedEvent
BY DEF Event, Notice, TracedEvent

\* The record of the spans, and when it is one that has lost none.
LEMMA SpanIs ==
  ASSUME NEW run_ \in {"none", "fresh", "resumed"}, NEW phase \in Choices,
         NEW unended, NEW tokens \in Nat,
         unended = (IF run_ = "none" THEN 0 ELSE 1) + (IF phase = NoPhase THEN 0 ELSE 1)
  PROVE  [run |-> run_, phase |-> phase, unended |-> unended, tokens |-> tokens] \in Span
<1> DEFINE sp == [run |-> run_, phase |-> phase, unended |-> unended, tokens |-> tokens]
<1>1. unended \in Nat
  OBVIOUS
<1>2. /\ sp \in [run : {"none", "fresh", "resumed"}, phase : Choices, unended : Nat,
                 tokens : Nat]
      /\ sp.run = run_ /\ sp.phase = phase /\ sp.unended = unended
  BY <1>1
<1> HIDE DEF sp
<1>3. sp \in Span
  BY <1>2 DEF Span, Held
<1> QED
  BY <1>3 DEF sp

LEMMA SpanFields ==
  ASSUME NEW sp \in Span
  PROVE  /\ sp.run \in {"none", "fresh", "resumed"} /\ sp.phase \in Choices
         /\ sp.tokens \in Nat /\ sp.unended \in Nat
         /\ sp.unended = (IF sp.run = "none" THEN 0 ELSE 1)
                           + (IF sp.phase = NoPhase THEN 0 ELSE 1)
         /\ sp = [run |-> sp.run, phase |-> sp.phase, unended |-> sp.unended,
                  tokens |-> sp.tokens]
BY DEF Span, Held

LEMMA EndSpans ==
  ASSUME NEW sp \in Span
  PROVE  /\ EndPhase(sp) \in Span /\ EndPhase(sp).phase = NoPhase
         /\ EndPhase(sp).run = sp.run /\ EndPhase(sp).tokens = sp.tokens
         /\ EndRun(EndPhase(sp)) \in Span
         /\ EndRun(EndPhase(sp)).run = "none"
         /\ EndRun(EndPhase(sp)).phase = NoPhase
<1>1. /\ EndPhase(sp) \in Span /\ EndPhase(sp).phase = NoPhase
      /\ EndPhase(sp).run = sp.run /\ EndPhase(sp).tokens = sp.tokens
  <2>1. CASE sp.phase = NoPhase
    BY <2>1 DEF EndPhase
  <2>2. CASE sp.phase # NoPhase
    <3> DEFINE t == [run |-> sp.run, phase |-> NoPhase,
                     unended |-> sp.unended - 1, tokens |-> sp.tokens]
    <3>1. EndPhase(sp) = t
      <4>1. EndPhase(sp) = [sp EXCEPT !.phase = NoPhase, !.unended = @ - 1]
        BY <2>2 DEF EndPhase
      <4> QED
        BY <4>1, SpanFields
    <3>2. /\ NoPhase \in Choices
          /\ sp.unended - 1 = (IF sp.run = "none" THEN 0 ELSE 1)
                                + (IF NoPhase = NoPhase THEN 0 ELSE 1)
      BY <2>2, SpanFields DEF Choices
    <3>3. t \in Span
      BY <3>2, SpanFields, SpanIs
    <3> QED
      BY <3>1, <3>3
  <2> QED
    BY <2>1, <2>2
<1>2. ASSUME NEW t \in Span, t.phase = NoPhase
      PROVE  EndRun(t) \in Span /\ EndRun(t).run = "none" /\ EndRun(t).phase = NoPhase
  <2>1. CASE t.run = "none"
    BY <1>2, <2>1 DEF EndRun
  <2>2. CASE t.run # "none"
    <3> DEFINE u == [run |-> "none", phase |-> t.phase,
                     unended |-> t.unended - 1, tokens |-> t.tokens]
    <3>1. EndRun(t) = u
      <4>1. EndRun(t) = [t EXCEPT !.run = "none", !.unended = @ - 1]
        BY <2>2 DEF EndRun
      <4> QED
        BY <4>1, SpanFields
    <3>2. t.unended - 1 = (IF "none" = "none" THEN 0 ELSE 1)
                           + (IF t.phase = NoPhase THEN 0 ELSE 1)
      BY <1>2, <2>2, SpanFields
    <3>3. u \in Span
      BY <3>2, SpanFields, SpanIs
    <3> QED
      BY <1>2, <3>1, <3>3
  <2> QED
    BY <2>1, <2>2
<1> QED
  BY <1>1, <1>2

\* on_event, by the kind of the event.
LEMMA OnEventIs ==
  ASSUME NEW sp, NEW e, e.kind \in EventKinds
  PROVE  /\ e.kind = "RunStarted" => OnEvent(sp, e) = StartRun(sp, "fresh")
         /\ e.kind = "RunResumed" => OnEvent(sp, e) = StartRun(sp, "resumed")
         /\ e.kind = "PhaseStarted" => OnEvent(sp, e) = StartPhase(sp, e.phase_id)
         /\ e.kind = "PhaseTransitioned" => OnEvent(sp, e) = EndPhase(sp)
         /\ e.kind \in {"RunCompleted", "RunFailed"} => OnEvent(sp, e) = EndAll(sp)
         /\ IsCommit(e) => OnEvent(sp, e) = [sp EXCEPT !.tokens = @ + e.total]
         /\ e.kind = "HumanReviewPending" => OnEvent(sp, e) = sp
BY DEF OnEvent, IsCommit, EventKinds

\* What the start of a run and of a phase leave of the spans.
LEMMA StartSpans ==
  ASSUME NEW sp \in Span
  PROVE  /\ \A how \in {"fresh", "resumed"} :
              /\ StartRun(sp, how) \in Span
              /\ StartRun(sp, how).run = how
              /\ StartRun(sp, how).tokens = 0
              /\ (sp.run = "none" => sp.phase = NoPhase)
                   => StartRun(sp, how).phase = NoPhase
         /\ \A p \in Phases :
              /\ StartPhase(sp, p) \in Span
              /\ StartPhase(sp, p).run = sp.run
              /\ StartPhase(sp, p).tokens = sp.tokens
              /\ StartPhase(sp, p).phase = p
<1>1. ASSUME NEW how \in {"fresh", "resumed"}
      PROVE  /\ StartRun(sp, how) \in Span
             /\ StartRun(sp, how).run = how
             /\ StartRun(sp, how).tokens = 0
             /\ (sp.run = "none" => sp.phase = NoPhase)
                  => StartRun(sp, how).phase = NoPhase
  <2> DEFINE before == IF sp.run = "none" THEN sp ELSE EndRun(EndPhase(sp))
             t == [run |-> how, phase |-> before.phase,
                   unended |-> before.unended + 1, tokens |-> 0]
  <2>1. /\ before \in Span /\ before.run = "none"
        /\ (sp.run = "none" => sp.phase = NoPhase) => before.phase = NoPhase
    BY EndSpans
  <2>2. StartRun(sp, how)
          = [before EXCEPT !.run = how, !.unended = @ + 1, !.tokens = 0]
    BY DEF StartRun
  <2> HIDE DEF before
  <2>3. StartRun(sp, how) = t
    BY <2>1, <2>2, SpanFields
  <2>4. /\ before.phase \in Choices
        /\ before.unended + 1 = (IF how = "none" THEN 0 ELSE 1)
                                  + (IF before.phase = NoPhase THEN 0 ELSE 1)
    BY <2>1, SpanFields
  <2>5. t \in Span
    BY <2>4, SpanIs
  <2> QED
    BY <2>1, <2>3, <2>5
<1>2. ASSUME NEW p \in Phases
      PROVE  /\ StartPhase(sp, p) \in Span
             /\ StartPhase(sp, p).run = sp.run
             /\ StartPhase(sp, p).tokens = sp.tokens
             /\ StartPhase(sp, p).phase = p
  <2> DEFINE before == EndPhase(sp)
             t == [run |-> before.run, phase |-> p,
                   unended |-> before.unended + 1, tokens |-> before.tokens]
  <2>1. /\ before \in Span /\ before.phase = NoPhase
        /\ before.run = sp.run /\ before.tokens = sp.tokens
    BY EndSpans
  <2>2. StartPhase(sp, p) = [before EXCEPT !.phase = p, !.unended = @ + 1]
    BY DEF StartPhase
  <2>3. p # NoPhase /\ p \in Choices
    BY GraphAssumption DEF ValidGraph, Choices
  <2> HIDE DEF before
  <2>4. StartPhase(sp, p) = t
    BY <2>1, <2>2, SpanFields
  <2>5. before.unended + 1 = (IF before.run = "none" THEN 0 ELSE 1)
                              + (IF p = NoPhase THEN 0 ELSE 1)
    BY <2>1, <2>3, SpanFields
  <2>6. t \in Span
    BY <2>1, <2>3, <2>5, SpanFields, SpanIs
  <2> QED
    BY <2>1, <2>4, <2>6
<1> QED
  BY <1>1, <1>2

\* Two records of spans that differ in their tokens only.
LEMMA TokensSpan ==
  ASSUME NEW sp \in Span, NEW tokens \in Nat
  PROVE  [sp EXCEPT !.tokens = tokens] \in Span
<1>1. [sp EXCEPT !.tokens = tokens]
        = [run |-> sp.run, phase |-> sp.phase, unended |-> sp.unended,
           tokens |-> tokens]
  BY SpanFields
<1> QED
  BY <1>1, SpanFields, SpanIs

LEMMA OnEventSpan ==
  ASSUME NEW sp \in Span, NEW e \in TracedEvent
  PROVE  OnEvent(sp, e) \in Span
<1>1. /\ e.kind \in EventKinds /\ e.total \in Nat
      /\ e.kind = "PhaseStarted" => e.phase_id \in Phases
  BY DEF TracedEvent
<1>2. EndAll(sp) \in Span
  BY EndSpans, TokensSpan DEF EndAll
<1>3. [sp EXCEPT !.tokens = @ + e.total] \in Span
  BY <1>1, SpanFields, TokensSpan
<1> QED
  BY <1>1, <1>2, <1>3, OnEventIs, EndSpans, StartSpans DEF EventKinds, IsCommit

\* What a step has to say are events.
LEMMA EventsTyped ==
  ASSUME Inv, Inv', NEW r \in Runners, usage[r] \in Nat
  PROVE  LET told == Seq(TracedEvent) IN
         /\ Failed \in told /\ <<>> \in told
         /\ StartEvents(r) \in told /\ ResumeEvents(r) \in told
         /\ EndEvents(r) \in told /\ MoveEvents(r) \in told
         /\ <<Notice("HumanReviewPending", PhaseOf(r))>> \in told
         /\ \A kind \in {"IterationCommitted", "ReviewCommitted"} :
              <<Event(kind, PhaseOf(r), 1)>> \in told
<1>1. /\ PhaseOf(r) \in Phases /\ PhaseOf(r) \in Choices /\ NoPhase \in Choices
      /\ store'[SessionOf[r]].current_phase \in Phases
  <2>1. store' \in [Sessions -> Session] /\ SessionOf[r] \in Sessions
    BY EngineAssumption DEF Inv, TypeOK
  <2> QED
    BY <2>1, InvParts, CallFacts DEF Session, Choices
<1>2. /\ \A kind \in EventKinds \ {"PhaseStarted"} :
           /\ Notice(kind, NoPhase) \in TracedEvent
           /\ Notice(kind, PhaseOf(r)) \in TracedEvent
           /\ Event(kind, PhaseOf(r), 1) \in TracedEvent
           /\ Event(kind, NoPhase, usage[r]) \in TracedEvent
      /\ \A p \in Phases : Notice("PhaseStarted", p) \in TracedEvent
  BY <1>1, EventTyped DEF EventKinds, Choices
<1>3. /\ \A e \in TracedEvent : <<e>> \in Seq(TracedEvent)
      /\ \A e, f \in TracedEvent : <<e, f>> \in Seq(TracedEvent)
      /\ <<>> \in Seq(TracedEvent)
  OBVIOUS
<1>4. Failed \in Seq(TracedEvent)
  BY <1>2, <1>3 DEF Failed, EventKinds
<1>5. StartEvents(r) \in Seq(TracedEvent) /\ ResumeEvents(r) \in Seq(TracedEvent)
  BY <1>1, <1>2, <1>3 DEF StartEvents, ResumeEvents, EventKinds
<1>6. EndEvents(r) \in Seq(TracedEvent)
  BY <1>2, <1>3 DEF EndEvents, EventKinds
<1>7. MoveEvents(r) \in Seq(TracedEvent)
  <2>1. TransitionEvents(PhaseOf(r), store'[SessionOf[r]].current_phase)
          \in Seq(TracedEvent)
    BY <1>1, <1>2, <1>3 DEF TransitionEvents, EventKinds
  <2> QED
    BY <1>3, <1>6, <2>1 DEF MoveEvents
<1>8. <<Notice("HumanReviewPending", PhaseOf(r))>> \in Seq(TracedEvent)
  BY <1>2, <1>3 DEF EventKinds
<1>9. \A kind \in {"IterationCommitted", "ReviewCommitted"} :
        <<Event(kind, PhaseOf(r), 1)>> \in Seq(TracedEvent)
  BY <1>2, <1>3 DEF EventKinds
<1> QED
  BY <1>3, <1>4, <1>5, <1>6, <1>7, <1>8, <1>9

LEMMA BooksStep ==
  ASSUME Inv, Inv', Books, NEW r \in Runners, TracedStep(r)
  PROVE  Books'
<1>1. /\ usage[r] \in Nat /\ usage \in [Runners -> Nat]
      /\ UNCHANGED <<spans, counted, cut>>
  BY DEF Books, TracedStep
<1>2. ASSUME NEW events \in Seq(TracedEvent),
             Queue(r, events) \/ UNCHANGED queue
      PROVE  queue' \in [Runners -> Seq(TracedEvent)]
  BY <1>2 DEF Books, Queue
<1>3. CASE Told(r) /\ UNCHANGED usage
  <2>1. \E events \in Seq(TracedEvent) : Queue(r, events) \/ UNCHANGED queue
    <3>1. CASE Start(r) /\ AfterSave(r, StartEvents(r))
      BY <1>1, <3>1, EventsTyped DEF AfterSave
    <3>2. CASE Resume(r) /\ Queue(r, ResumeEvents(r))
      BY <1>1, <3>2, EventsTyped
    <3>3. CASE AfterSave(r, MoveEvents(r))
      BY <1>1, <3>3, EventsTyped DEF AfterSave
    <3>4. CASE AfterSave(r, <<Notice("HumanReviewPending", PhaseOf(r))>>)
      BY <1>1, <3>4, EventsTyped DEF AfterSave
    <3>5. CASE Queue(r, EndEvents(r))
      BY <1>1, <3>5, EventsTyped
    <3>6. CASE \/ Queue(r, IF run'[r].pc = "idle" THEN Failed ELSE <<>>)
               \/ Queue(r, IF AdhocQuestions THEN <<>> ELSE Failed)
      BY <1>1, <3>6, EventsTyped
    <3>7. CASE UNCHANGED queue
      BY <1>1, <3>7, EventsTyped
    <3> QED
      BY <1>3, <3>1, <3>2, <3>3, <3>4, <3>5, <3>6, <3>7 DEF Told, Quietly
  <2>2. queue' \in [Runners -> Seq(TracedEvent)]
    BY <1>2, <2>1
  <2> QED
    BY <1>1, <1>3, <2>2 DEF Books
<1>4. ASSUME NEW kind \in {"IterationCommitted", "ReviewCommitted"}, Announce(r, kind)
      PROVE  Books'
  <2>1. \E events \in Seq(TracedEvent) : Queue(r, events)
    BY <1>1, <1>4, EventsTyped DEF Announce, AfterSave
  <2>2. usage' \in [Runners -> Nat]
    <3>1. (IF Saved THEN usage[r] + 1 ELSE usage[r]) \in Nat
      BY <1>1
    <3> QED
      BY <1>1, <1>4, <3>1 DEF Announce
  <2> QED
    BY <1>1, <1>2, <2>1, <2>2 DEF Books
<1> QED
  BY <1>3, <1>4 DEF TracedStep

LEMMA BooksEmit ==
  ASSUME Books, NEW r \in Runners, Emit(r)
  PROVE  /\ Books'
         /\ queue[r] \in Seq(TracedEvent) /\ Head(queue[r]) \in TracedEvent
<1>1. /\ queue[r] \in Seq(TracedEvent) /\ queue[r] # <<>>
      /\ SessionOf[r] \in Sessions
  BY EngineAssumption DEF Books, Emit
<1>2. Head(queue[r]) \in TracedEvent /\ Tail(queue[r]) \in Seq(TracedEvent)
  BY <1>1
<1>3. queue' \in [Runners -> Seq(TracedEvent)]
  BY <1>2 DEF Emit, Queue, Books
<1>4. spans' \in [Sessions -> Span]
  <2>1. OnEvent(spans[SessionOf[r]], Head(queue[r])) \in Span
    BY <1>1, <1>2, OnEventSpan DEF Books
  <2> QED
    BY <2>1 DEF Emit, Books
<1>5. counted' \in [Sessions -> Nat]
  BY <1>1 DEF Emit, Books
<1> QED
  BY <1>1, <1>2, <1>3, <1>4, <1>5 DEF Emit, Books

LEMMA BooksNext ==
  ASSUME Inv, Inv', Books, [TracedNext]_tracedVars
  PROVE  Books'
<1>1. Failed \in Seq(TracedEvent) /\ <<>> \in Seq(TracedEvent)
  <2>1. Notice("RunFailed", NoPhase) \in TracedEvent
    BY EventTyped DEF EventKinds, Choices
  <2> QED
    BY <2>1 DEF Failed
<1>2. CASE UNCHANGED tracedVars \/ \E s \in Sessions : Inject(s) /\ UNCHANGED tracing
  BY <1>2 DEF tracedVars, tracing, Books
<1>3. ASSUME NEW r \in Runners, TracedOpen(r) PROVE Books'
  BY <1>3 DEF TracedOpen, Books
<1>4. ASSUME NEW r \in Runners, Raise(r) PROVE Books'
  BY <1>1, <1>4 DEF Raise, Queue, Books
<1>5. ASSUME NEW r \in Runners, Abort(r) PROVE Books'
  BY <1>1, <1>5, EngineAssumption DEF Abort, Queue, Books
<1>6. CASE Die
  <2>1. NoSpans \in Span
    BY DEF NoSpans, Span, Held, Choices
  <2> QED
    BY <1>1, <1>6, <2>1 DEF Die, Books
<1> QED
  BY <1>2, <1>3, <1>4, <1>5, <1>6, BooksStep, BooksEmit, TracedCases

LEMMA BooksKept == TracedSpec => []Books
<1>1. TracedInit => Books
  BY DEF TracedInit, NoSpans, Span, Held, Choices, Books
<1>2. Inv /\ Inv' /\ Books /\ [TracedNext]_tracedVars => Books'
  BY BooksNext
<1> QED
  BY <1>1, <1>2, TracedInvariance, PTL DEF TracedSpec

\* The observer's state keeps its type: what is queued are events, and no span
\* is ended that is not open.
THEOREM TracedTypeCorrect == TracedSpec => []TracedTypeOK
<1>1. Books => TracedTypeOK
  <2> SUFFICES ASSUME Books PROVE TracedTypeOK
    OBVIOUS
  <2>1. ASSUME NEW r \in Runners, NEW i \in DOMAIN queue[r]
        PROVE  queue[r][i] \in [kind : EventKinds, phase_id : Choices, total : Nat]
    <3>1. queue[r] \in Seq(TracedEvent)
      BY DEF Books
    <3>2. queue[r][i] \in TracedEvent
      BY <3>1
    <3> QED
      BY <3>2 DEF TracedEvent
  <2>2. spans \in [Sessions -> [run : {"none", "fresh", "resumed"},
                               phase : Choices, unended : Nat, tokens : Nat]]
    BY DEF Books, Span
  <2> QED
    BY <2>1, <2>2 DEF Books, TracedTypeOK
<1> QED
  BY <1>1, BooksKept, PTL

\* No span is forgotten open, whatever calls overlap, pause, resume, fail or are
\* cancelled, and whichever of their events stay unsaid.
THEOREM SpansCorrect == TracedSpec => []NoSpanLost
<1>1. Books => NoSpanLost
  BY DEF Books, NoSpanLost, Span
<1> QED
  BY <1>1, BooksKept, PTL

-------------------------------------------------------------------------------
(***************************************************************************)
(* One caller for each session: the place of a call, what it has still to  *)
(* say and the spans of its session fit together.                          *)
(***************************************************************************)
InRun(r) == run[r].pc \notin {"idle", "missing", "opened"}

\* The span an entry of phase p is to be a child of.
Placed(sp, p) ==
  \/ sp.run # "none" /\ sp.phase = p
  \/ sp.run = "resumed" /\ sp.phase = NoPhase

\* Nothing to say: the children of the run span report what the call has used.
Silent(r) ==
  LET sp == spans[SessionOf[r]] IN
  /\ queue[r] = <<>>
  /\ InRun(r) => Placed(sp, PhaseOf(r)) /\ sp.tokens = usage[r]
  /\ run[r].pc \in {"missing", "opened"} => usage[r] = 0

Starting(r) ==
  /\ queue[r] \in {StartEvents(r), ResumeEvents(r)}
  /\ InRun(r) /\ usage[r] = 0

Entering(r) ==
  LET sp == spans[SessionOf[r]] IN
  /\ \/ queue[r] = <<Notice("PhaseStarted", PhaseOf(r))>>
     \/ \E from \in Phases : queue[r] = TransitionEvents(from, PhaseOf(r))
  /\ InRun(r) /\ sp.run # "none" /\ sp.tokens = usage[r]

Reporting(r) ==
  LET sp == spans[SessionOf[r]] IN
  /\ \E kind \in {"IterationCommitted", "ReviewCommitted"} :
       queue[r] = <<Event(kind, PhaseOf(r), 1)>>
  /\ InRun(r) /\ Placed(sp, PhaseOf(r)) /\ sp.tokens + 1 = usage[r]

Closing(r) ==
  /\ run[r].pc = "idle"
  /\ \/ queue[r] = <<Event("RunCompleted", NoPhase, spans[SessionOf[r]].tokens)>>
     \/ queue[r] = Failed
     \/ \E p \in Phases : queue[r] = <<Notice("HumanReviewPending", p)>>

Tracked(r) ==
  Silent(r) \/ Starting(r) \/ Entering(r) \/ Reporting(r) \/ Closing(r)

AllTracked ==
  /\ \A s \in Sessions : spans[s].run = "none" => spans[s].phase = NoPhase
  /\ \A r \in Runners : Tracked(r)

LEMMA SilentIs ==
  ASSUME NEW r \in Runners, Tracked(r), queue[r] = <<>>
  PROVE  Silent(r)
BY DEF Tracked, Starting, StartEvents, ResumeEvents, Entering, TransitionEvents,
   Reporting, Closing, Failed

\* A call that has ended has said, or has to say, how.
LEMMA IdleTracked ==
  ASSUME NEW r \in Runners, run'[r] = Idle, queue'[r] \in {<<>>, Failed}
  PROVE  Tracked(r)'
<1>1. run'[r].pc = "idle"
  BY IdleFormed
<1> QED
  BY <1>1 DEF Tracked, Silent, Closing, InRun, Failed, Notice, Event

\* A step that says nothing, of a call that stays in its phase.
LEMMA SilentTracked ==
  ASSUME NEW r \in Runners, Silent(r), queue'[r] = <<>>, InRun(r),
         UNCHANGED <<spans, usage>>,
         run'[r].stored.current_phase = run[r].stored.current_phase,
         run'[r].pc \notin {"missing", "opened"}
  PROVE  Tracked(r)'
<1>1. PhaseOf(r)' = PhaseOf(r)
  BY DEF PhaseOf, State
<1> QED
  BY <1>1 DEF Tracked, Silent, Placed

\* A save is seen in the store exactly when it is won.
LEMMA SavedIs ==
  ASSUME Core, NEW r \in Runners, NEW state \in Session, NEW pc \in Pcs,
         Save(r, state, pc), state.revision = State(r).revision
  PROVE  \/ ~Saved /\ run'[r] = Idle
         \/ /\ Saved
            /\ pc = "idle" => run'[r] = Idle
            /\ pc # "idle" =>
                 /\ run'[r].pc = pc
                 /\ run'[r].stored.current_phase = state.current_phase
<1>1. /\ store[SessionOf[r]].revision \in Nat /\ SessionOf[r] \in Sessions
      /\ Revised(state).revision = state.revision + 1
      /\ Revised(state).current_phase = state.current_phase
  BY CallFacts, RevisedFacts DEF Core, StoreTyped, Session
<1> QED
  BY <1>1, SaveOutcome DEF Saved, Fresh

LEMMA QueueIs ==
  ASSUME Books, NEW r \in Runners, NEW events
  PROVE  /\ Queue(r, events) => queue'[r] = events
         /\ AfterSave(r, events) => queue'[r] = IF Saved THEN events ELSE Failed
BY DEF Books, Queue, AfterSave

LEMMA TrackedStart ==
  ASSUME Inv, Books, NEW r \in Runners, Silent(r), UNCHANGED <<spans, usage>>,
         \/ Start(r) /\ AfterSave(r, StartEvents(r))
         \/ Resume(r) /\ Queue(r, ResumeEvents(r))
  PROVE  Tracked(r)'
<1>1. /\ Core /\ RestTyped /\ run[r] \in Call /\ State(r) \in Session
      /\ State(r) = run[r].stored /\ PhaseOf(r) = State(r).current_phase
  BY InvParts, CallFacts
<1>2. usage[r] = 0
  BY DEF Start, Resume, At, Silent
<1>3. ASSUME run'[r].pc \in {"work", "review"}, PhaseOf(r)' = PhaseOf(r),
             queue'[r] \in {StartEvents(r), ResumeEvents(r)}
      PROVE  Tracked(r)'
  BY <1>2, <1>3 DEF Tracked, Starting, StartEvents, ResumeEvents, InRun
<1>4. CASE Start(r) /\ AfterSave(r, StartEvents(r))
  <2> DEFINE state == [State(r) EXCEPT !.status = "in_progress",
                                       !.run_metadata = metadata[EngineOf[r]]]
  <2>1. /\ state \in Session /\ state.status = "in_progress"
        /\ state.revision = State(r).revision
        /\ state.current_phase = State(r).current_phase
    BY <1>1, EngineAssumption DEF RestTyped, Session, Statuses
  <2>2. Save(r, state, Dispatch(state))
    BY <1>4 DEF Start
  <2> HIDE DEF state
  <2>3. Dispatch(state) \in {"work", "review"}
    BY <2>1 DEF Dispatch
  <2>4. \/ ~Saved /\ run'[r] = Idle
        \/ /\ Saved
           /\ run'[r].pc \in {"work", "review"}
           /\ run'[r].stored.current_phase = State(r).current_phase
    BY <1>1, <2>1, <2>2, <2>3, SavedIs DEF Pcs
  <2>5. queue'[r] = IF Saved THEN StartEvents(r) ELSE Failed
    BY <1>4, QueueIs
  <2> QED
    BY <1>1, <1>3, <2>4, <2>5, IdleTracked DEF PhaseOf, State
<1>5. CASE Resume(r) /\ Queue(r, ResumeEvents(r))
  <2>1. State(r).status = "in_progress" /\ Dispatch(State(r)) \in {"work", "review"}
    BY <1>5 DEF Resume, Dispatch
  <2>2. run'[r] = NextCall(r, Dispatch(State(r)), State(r))
    BY <1>1, <1>5 DEF Resume, Continue, Core, CallsTyped
  <2>3. run'[r].pc \in {"work", "review"} /\ run'[r].stored = State(r)
    BY <2>1, <2>2 DEF NextCall
  <2>4. queue'[r] = ResumeEvents(r)
    BY <1>5, QueueIs
  <2> QED
    BY <1>1, <1>3, <2>3, <2>4 DEF PhaseOf, State
<1> QED
  BY <1>4, <1>5

LEMMA TrackedMove ==
  ASSUME Inv, Inv', Books, NEW r \in Runners, Silent(r), UNCHANGED <<spans, usage>>,
         Moving(r), AfterSave(r, MoveEvents(r))
  PROVE  Tracked(r)'
<1> DEFINE after == store'[SessionOf[r]]
           sp == spans[SessionOf[r]]
<1>1. /\ Core /\ State(r) \in Session /\ State(r).status = "in_progress"
      /\ PhaseOf(r) = State(r).current_phase /\ PhaseOf(r) \in Phases
      /\ SessionOf[r] \in Sessions /\ Moves(r)
  BY InvParts, CallFacts, MovingOutcome
<1>2. InRun(r) /\ Placed(sp, PhaseOf(r)) /\ sp.tokens = usage[r]
  BY <1>1, MovingOutcome DEF InRun, Silent
<1>3. queue'[r] = IF Saved THEN MoveEvents(r) ELSE Failed
  BY QueueIs
<1>4. CASE ~Saved
  <2>1. run'[r] = Idle
    <3>1. store[SessionOf[r]].revision \in Nat
      BY <1>1 DEF Core, StoreTyped, Session
    <3>2. Fresh(r) => store[SessionOf[r]].revision = State(r).revision
      BY DEF Fresh
    <3> QED
      BY <1>1, <1>4, <3>1, <3>2, MoveOutcome DEF Saved
  <2> QED
    BY <1>3, <1>4, <2>1, IdleTracked
<1>5. CASE Saved
  <2>1. /\ SameLogs(State(r), after)
        /\ \/ after.status = "in_progress"
           \/ after.status \in Terminal /\ after.current_phase = PhaseOf(r)
        /\ \/ run'[r] = Idle
           \/ /\ run'[r].pc \in {"work", "review", "lock"}
              /\ run'[r].stored = after
        /\ after.status = "in_progress" <=> run'[r].pc \in {"work", "review"}
    BY <1>1, <1>5, MoveOutcome DEF Saved
  <2>2. CASE after.status = "in_progress"
    <3>1. run'[r].pc \in {"work", "review"} /\ run'[r].stored = after
      BY <2>1, <2>2, IdleFormed
    <3>2. queue'[r] = TransitionEvents(PhaseOf(r), PhaseOf(r)')
      BY <1>3, <1>5, <2>2, <3>1 DEF MoveEvents, PhaseOf, State
    <3>3. sp.run # "none"
      BY <1>2 DEF Placed
    <3>4. Entering(r)'
      BY <1>1, <1>2, <3>1, <3>2, <3>3 DEF Entering, TransitionEvents, InRun
    <3> QED
      BY <3>4 DEF Tracked
  <2>3. CASE after.status # "in_progress" /\ run'[r] = Idle
    <3>1. run'[r].pc = "idle"
      BY <2>3, IdleFormed
    <3>2. queue'[r] = <<Event("RunCompleted", NoPhase, sp.tokens)>>
      BY <1>2, <1>3, <1>5, <2>3, <3>1 DEF MoveEvents, EndEvents
    <3> QED
      BY <3>1, <3>2 DEF Tracked, Closing, Event
  <2>4. CASE after.status # "in_progress" /\ run'[r] # Idle
    <3>1. run'[r].pc = "lock" /\ run'[r].stored.current_phase = PhaseOf(r)
      BY <2>1, <2>4
    <3>2. queue'[r] = <<>>
      BY <1>3, <1>5, <2>4, <3>1 DEF MoveEvents
    <3> QED
      BY <1>1, <1>2, <3>1, <3>2, SilentTracked DEF PhaseOf, State
  <2> QED
    BY <2>2, <2>3, <2>4
<1> QED
  BY <1>4, <1>5

LEMMA TrackedCommit ==
  ASSUME Inv, Books, NEW r \in Runners, Silent(r), UNCHANGED spans,
         \/ CommitIteration(r) /\ Announce(r, "IterationCommitted")
         \/ CommitReview(r) /\ Announce(r, "ReviewCommitted")
  PROVE  Tracked(r)'
<1> DEFINE sp == spans[SessionOf[r]]
<1>1. /\ Core /\ Formed(run[r]) /\ State(r) \in Session
      /\ State(r) = run[r].stored /\ PhaseOf(r) = State(r).current_phase
      /\ SessionOf[r] \in Sessions /\ sp \in Span /\ usage \in [Runners -> Nat]
  BY InvParts, CallFacts DEF Books
<1>2. Placed(sp, PhaseOf(r)) /\ sp.tokens = usage[r]
  BY DEF CommitIteration, CommitReview, At, Silent, InRun
<1>3. \/ ~Saved /\ run'[r] = Idle
      \/ /\ Saved
         /\ run'[r].pc \in {"committed", "judged"}
         /\ run'[r].stored.current_phase = PhaseOf(r)
  <2>1. CASE CommitIteration(r)
    <3> DEFINE state == WithIteration(State(r), run[r].result)
    <3>1. /\ run[r].result.confidence_score \in Scores
          /\ run[r].result.handoff \in BOOLEAN
      BY <1>1, <2>1 DEF CommitIteration, At, Formed, Working, ExecutionResult
    <3>2. /\ state \in Session /\ state.revision = State(r).revision
          /\ state.current_phase = PhaseOf(r)
      BY <1>1, <3>1, WithIterationFacts
    <3>3. Save(r, state, "committed")
      BY <2>1 DEF CommitIteration
    <3> HIDE DEF state
    <3> QED
      BY <1>1, <3>2, <3>3, SavedIs DEF Pcs
  <2>2. CASE CommitReview(r)
    <3> DEFINE state == WithDecision(State(r), run[r].result.decision,
                                     run[r].result.target_phase)
    <3>1. /\ run[r].result.decision \in Decisions
          /\ run[r].result.target_phase \in Choices
      BY <1>1, <2>2 DEF CommitReview, At, Formed, Reviewing, ReviewResult
    <3>2. /\ state \in Session /\ state.revision = State(r).revision
          /\ state.current_phase = PhaseOf(r)
      BY <1>1, <3>1, WithDecisionFacts
    <3>3. Save(r, state, "judged")
      BY <2>2 DEF CommitReview
    <3> HIDE DEF state
    <3> QED
      BY <1>1, <3>2, <3>3, SavedIs DEF Pcs
  <2> QED
    BY <2>1, <2>2
<1>4. PICK kind \in {"IterationCommitted", "ReviewCommitted"} : Announce(r, kind)
  OBVIOUS
<1>5. /\ queue'[r] = IF Saved THEN <<Event(kind, PhaseOf(r), 1)>> ELSE Failed
      /\ Saved => usage'[r] = usage[r] + 1
  BY <1>1, <1>4, QueueIs DEF Announce
<1>6. CASE ~Saved
  BY <1>3, <1>5, <1>6, IdleTracked
<1>7. CASE Saved
  <2>1. PhaseOf(r)' = PhaseOf(r) /\ InRun(r)'
    BY <1>3, <1>7 DEF PhaseOf, State, InRun
  <2>2. sp.tokens + 1 = usage'[r]
    BY <1>1, <1>2, <1>5, <1>7
  <2>3. Reporting(r)'
    BY <1>2, <1>5, <1>7, <2>1, <2>2 DEF Reporting, Placed, Event
  <2> QED
    BY <2>3 DEF Tracked
<1> QED
  BY <1>6, <1>7

LEMMA ExecuteOutcome ==
  ASSUME Core, NEW r \in Runners, Execute(r)
  PROVE  /\ run'[r].pc \in {"produced", "published"}
         /\ run'[r].stored = run[r].stored
BY DEF Execute, Core, CallsTyped, Call

\* The steps that say nothing of a commit or a move.
LEMMA TrackedQuiet ==
  ASSUME Inv, Books, NEW r \in Runners, Silent(r), UNCHANGED <<spans, usage>>,
         \/ AskHuman(r) /\ AfterSave(r, <<Notice("HumanReviewPending", PhaseOf(r))>>)
         \/ LockPack(r) /\ Queue(r, EndEvents(r))
         \/ /\ InvokeReviewer(r)
            /\ Queue(r, IF run'[r].pc = "idle" THEN Failed ELSE <<>>)
         \/ /\ StopForQuestion(r)
            /\ Queue(r, IF AdhocQuestions THEN <<>> ELSE Failed)
         \/ /\ \/ Initialize(r) \/ ReturnTerminal(r) \/ Execute(r) \/ Repeat(r)
               \/ PublishFiles(r) \/ PublishHandoff(r) \/ Pause(r)
            /\ Quietly(r)
  PROVE  Tracked(r)'
<1>1. /\ Core /\ run[r] \in Call /\ State(r) \in Session
      /\ State(r) = run[r].stored /\ PhaseOf(r) \in Phases
      /\ queue[r] = <<>>
  BY InvParts, CallFacts DEF Silent
<1>2. CASE AskHuman(r) /\ AfterSave(r, <<Notice("HumanReviewPending", PhaseOf(r))>>)
  <2> DEFINE state == WithReview(State(r), "PENDING", NoPhase)
  <2>1. /\ State(r) \in Session /\ NoPhase \in Choices
        /\ "PENDING" \in Decisions \cup {"PENDING"}
    BY <1>1 DEF Choices
  <2>2. state \in Session
    BY <2>1, WithReviewFacts
  <2>3. Save(r, state, "idle")
    BY <1>2 DEF AskHuman
  <2> HIDE DEF state
  <2>4. run'[r] = Idle
    BY <1>1, <2>2, <2>3, SaveOutcome DEF Pcs
  <2>5. queue'[r] = Failed \/ queue'[r] = <<Notice("HumanReviewPending", PhaseOf(r))>>
    BY <1>2, QueueIs
  <2>6. Closing(r)'
    BY <1>1, <2>4, <2>5, IdleFormed DEF Closing, Failed, Notice, Event
  <2> QED
    BY <2>6 DEF Tracked
<1>3. CASE LockPack(r) /\ Queue(r, EndEvents(r))
  <2>1. run'[r] = Idle /\ spans[SessionOf[r]].tokens = usage[r]
    BY <1>1, <1>3, EndingOutcome DEF Ending, LockPack, At, Silent, InRun
  <2>2. queue'[r] = EndEvents(r)
    BY <1>3, QueueIs
  <2>3. Closing(r)'
    BY <2>1, <2>2, IdleFormed DEF Closing, EndEvents, Event
  <2> QED
    BY <2>3 DEF Tracked
<1>4. CASE /\ StopForQuestion(r)
           /\ Queue(r, IF AdhocQuestions THEN <<>> ELSE Failed)
  BY <1>1, <1>4, EndingOutcome, QueueIs, IdleTracked DEF Ending
<1>5. CASE (ReturnTerminal(r) \/ Pause(r)) /\ Quietly(r)
  BY <1>1, <1>5, EndingOutcome, IdleTracked DEF Ending, Quietly
<1>6. CASE Initialize(r) /\ Quietly(r)
  <2>1. run'[r] = Idle \/ run'[r].pc = "opened"
    BY <1>1, <1>6 DEF Initialize, Leave, Continue, Core, CallsTyped, NextCall
  <2>2. usage[r] = 0 /\ queue'[r] = <<>>
    BY <1>1, <1>6 DEF Initialize, At, Silent, Quietly
  <2>3. CASE run'[r].pc = "opened"
    BY <2>2, <2>3 DEF Tracked, Silent, InRun
  <2> QED
    BY <2>1, <2>2, <2>3, IdleTracked
<1>7. CASE /\ InvokeReviewer(r)
           /\ Queue(r, IF run'[r].pc = "idle" THEN Failed ELSE <<>>)
  <2>1. \/ run'[r] = Idle
        \/ run'[r].pc = "reviewed" /\ run'[r].stored = run[r].stored
    BY <1>1, <1>7 DEF InvokeReviewer, Leave, Core, CallsTyped, Call
  <2>2. queue'[r] = IF run'[r].pc = "idle" THEN Failed ELSE <<>>
    BY <1>7, QueueIs
  <2>3. InRun(r)
    BY <1>7 DEF InvokeReviewer, At, InRun
  <2> QED
    BY <2>1, <2>2, <2>3, IdleFormed, IdleTracked, SilentTracked
<1>8. CASE (Execute(r) \/ PublishFiles(r) \/ PublishHandoff(r)) /\ Quietly(r)
  <2>1. /\ run'[r].pc \in {"produced", "published", "filed"}
        /\ run'[r].stored = run[r].stored
    <3>1. CASE Execute(r)
      BY <1>1, <3>1, ExecuteOutcome
    <3>2. CASE PublishFiles(r) \/ PublishHandoff(r)
      BY <1>1, <3>2 DEF PublishFiles, PublishHandoff, Core, CallsTyped, Call
    <3> QED
      BY <1>8, <3>1, <3>2
  <2>2. InRun(r)
    BY <1>8 DEF Execute, PublishFiles, PublishHandoff, At, InRun
  <2> QED
    BY <1>1, <1>8, <2>1, <2>2, SilentTracked DEF Quietly
<1>9. CASE Repeat(r) /\ Quietly(r)
  <2>1. run'[r].pc = "work" /\ run'[r].stored = run[r].stored
    BY <1>1, <1>9 DEF Repeat, Continue, NextCall, Core, CallsTyped
  <2>2. InRun(r)
    BY <1>9 DEF Repeat, Concluding, At, InRun
  <2> QED
    BY <1>1, <1>9, <2>1, <2>2, SilentTracked DEF Quietly
<1> QED
  BY <1>2, <1>3, <1>4, <1>5, <1>6, <1>7, <1>8, <1>9

LEMMA TrackedStep ==
  ASSUME Inv, Inv', Books, NEW r \in Runners, Tracked(r), TracedStep(r)
  PROVE  Tracked(r)'
<1>1. Silent(r) /\ UNCHANGED spans
  BY SilentIs DEF TracedStep
<1>2. CASE Told(r) /\ UNCHANGED usage
  <2>1. \/ /\ \/ Start(r) /\ AfterSave(r, StartEvents(r))
              \/ Resume(r) /\ Queue(r, ResumeEvents(r))
        \/ Moving(r) /\ AfterSave(r, MoveEvents(r))
        \/ AskHuman(r) /\ AfterSave(r, <<Notice("HumanReviewPending", PhaseOf(r))>>)
        \/ LockPack(r) /\ Queue(r, EndEvents(r))
        \/ /\ InvokeReviewer(r)
           /\ Queue(r, IF run'[r].pc = "idle" THEN Failed ELSE <<>>)
        \/ /\ StopForQuestion(r)
           /\ Queue(r, IF AdhocQuestions THEN <<>> ELSE Failed)
        \/ /\ \/ Initialize(r) \/ ReturnTerminal(r) \/ Execute(r) \/ Repeat(r)
              \/ PublishFiles(r) \/ PublishHandoff(r) \/ Pause(r)
           /\ Quietly(r)
    BY <1>2 DEF Told, Moving
  <2> QED
    BY <1>1, <1>2, <2>1, TrackedStart, TrackedMove, TrackedQuiet
<1>3. CASE \/ CommitIteration(r) /\ Announce(r, "IterationCommitted")
           \/ CommitReview(r) /\ Announce(r, "ReviewCommitted")
  BY <1>1, <1>3, TrackedCommit
<1> QED
  BY <1>2, <1>3 DEF TracedStep

\* The events a call has to say, said one by one.
LEMMA TrackedEmit ==
  ASSUME Inv, Books, NEW r \in Runners, Tracked(r), Emit(r),
         LET sp == spans[SessionOf[r]] IN sp.run = "none" => sp.phase = NoPhase
  PROVE  LET sp == spans'[SessionOf[r]] IN
         /\ sp.run = "none" => sp.phase = NoPhase
         /\ Tracked(r)'
<1> DEFINE s == SessionOf[r]
           sp == spans[s]
           e == Head(queue[r])
           p == PhaseOf(r)
<1>1. /\ s \in Sessions /\ sp \in Span /\ e \in TracedEvent /\ e.kind \in EventKinds
      /\ p \in Phases
      /\ spans'[s] = OnEvent(sp, e)
      /\ queue'[r] = Tail(queue[r])
      /\ UNCHANGED <<run, usage>>
      /\ queue[r] # <<>>
  BY InvParts, CallFacts, BooksEmit DEF Books, Emit, Queue, vars, TracedEvent
<1>2. PhaseOf(r)' = PhaseOf(r) /\ (InRun(r)' <=> InRun(r))
  BY <1>1 DEF PhaseOf, State, InRun
<1>3. CASE Starting(r)
  <2>1. CASE queue[r] = StartEvents(r)
    <3>1. e.kind = "RunStarted" /\ Tail(queue[r]) = <<Notice("PhaseStarted", p)>>
      BY <2>1 DEF StartEvents, Notice, Event
    <3>2. spans'[s] = StartRun(sp, "fresh")
      BY <1>1, <3>1, OnEventIs
    <3>3. spans'[s].run = "fresh" /\ spans'[s].tokens = 0
      BY <1>1, <3>2, StartSpans
    <3>4. Entering(r)'
      BY <1>1, <1>2, <1>3, <3>1, <3>3 DEF Starting, Entering, Notice, Event
    <3> QED
      BY <3>3, <3>4 DEF Tracked
  <2>2. CASE queue[r] = ResumeEvents(r)
    <3>1. e.kind = "RunResumed" /\ Tail(queue[r]) = <<>>
      BY <2>2 DEF ResumeEvents, Notice, Event
    <3>2. spans'[s] = StartRun(sp, "resumed")
      BY <1>1, <3>1, OnEventIs
    <3>3. /\ spans'[s].run = "resumed" /\ spans'[s].tokens = 0
          /\ spans'[s].phase = NoPhase
      BY <1>1, <3>2, StartSpans
    <3>4. Silent(r)'
      BY <1>1, <1>2, <1>3, <3>1, <3>3 DEF Starting, Silent, Placed, InRun
    <3> QED
      BY <3>3, <3>4 DEF Tracked
  <2> QED
    BY <1>3, <2>1, <2>2 DEF Starting
<1>4. CASE Entering(r)
  <2>1. CASE queue[r] = <<Notice("PhaseStarted", p)>>
    <3>1. /\ e.kind = "PhaseStarted" /\ e.phase_id = p
          /\ Tail(queue[r]) = <<>>
      BY <2>1 DEF Notice, Event
    <3>2. spans'[s] = StartPhase(sp, p)
      BY <1>1, <3>1, OnEventIs
    <3>3. /\ spans'[s].run = sp.run /\ spans'[s].phase = p
          /\ spans'[s].tokens = sp.tokens
      <4>1. \A q \in Phases :
              /\ StartPhase(sp, q).run = sp.run /\ StartPhase(sp, q).phase = q
              /\ StartPhase(sp, q).tokens = sp.tokens
        BY <1>1, StartSpans
      <4> QED
        BY <1>1, <3>2, <4>1
    <3>4. Silent(r)'
      BY <1>1, <1>2, <1>4, <3>1, <3>3 DEF Entering, Silent, Placed, InRun
    <3> QED
      BY <1>4, <3>3, <3>4 DEF Tracked, Entering
  <2>2. CASE \E from \in Phases : queue[r] = TransitionEvents(from, p)
    <3>1. /\ e.kind = "PhaseTransitioned"
          /\ Tail(queue[r]) = <<Notice("PhaseStarted", p)>>
      BY <2>2 DEF TransitionEvents, Notice, Event
    <3>2. spans'[s] = EndPhase(sp)
      BY <1>1, <3>1, OnEventIs
    <3>3. spans'[s].run = sp.run /\ spans'[s].tokens = sp.tokens
      BY <1>1, <3>2, EndSpans
    <3>4. Entering(r)'
      BY <1>1, <1>2, <1>4, <3>1, <3>3 DEF Entering, Notice, Event
    <3> QED
      BY <1>4, <3>3, <3>4 DEF Tracked, Entering
  <2> QED
    BY <1>4, <2>1, <2>2 DEF Entering
<1>5. CASE Reporting(r)
  <2>1. PICK kind \in {"IterationCommitted", "ReviewCommitted"} :
          queue[r] = <<Event(kind, p, 1)>>
    BY <1>5 DEF Reporting
  <2>2. IsCommit(e) /\ e.total = 1 /\ Tail(queue[r]) = <<>>
    BY <2>1 DEF IsCommit, Event
  <2>3. spans'[s] = [sp EXCEPT !.tokens = @ + 1]
    BY <1>1, <2>2, OnEventIs
  <2>4. /\ spans'[s].run = sp.run /\ spans'[s].phase = sp.phase
        /\ spans'[s].tokens = sp.tokens + 1
    BY <1>1, <2>3, SpanFields
  <2>5. Silent(r)'
    BY <1>1, <1>2, <1>5, <2>2, <2>4 DEF Reporting, Silent, Placed, InRun
  <2> QED
    BY <2>4, <2>5 DEF Tracked
<1>6. CASE Closing(r)
  <2>1. /\ Tail(queue[r]) = <<>>
        /\ e.kind \in {"RunCompleted", "RunFailed", "HumanReviewPending"}
    <3>1. \E f : /\ queue[r] = <<f>>
                 /\ f.kind \in {"RunCompleted", "RunFailed", "HumanReviewPending"}
      <4> DEFINE total == spans[SessionOf[r]].tokens
      <4>1. /\ Event("RunCompleted", NoPhase, total).kind = "RunCompleted"
            /\ Notice("RunFailed", NoPhase).kind = "RunFailed"
            /\ \A q : Notice("HumanReviewPending", q).kind = "HumanReviewPending"
        BY DEF Notice, Event
      <4>2. \/ queue[r] = <<Event("RunCompleted", NoPhase, total)>>
            \/ queue[r] = <<Notice("RunFailed", NoPhase)>>
            \/ \E q \in Phases : queue[r] = <<Notice("HumanReviewPending", q)>>
        BY <1>6 DEF Closing, Failed
      <4> QED
        BY <4>1, <4>2
    <3> QED
      BY <3>1
  <2>2. spans'[s] = EndAll(sp) \/ spans'[s] = sp
    BY <1>1, <2>1, OnEventIs
  <2>3. spans'[s].run = "none" => spans'[s].phase = NoPhase
    BY <1>1, <2>2, EndSpans, SpanFields DEF EndAll
  <2>4. Silent(r)'
    BY <1>1, <1>6, <2>1 DEF Closing, Silent, InRun
  <2> QED
    BY <2>3, <2>4 DEF Tracked
<1> QED
  BY <1>1, <1>3, <1>4, <1>5, <1>6 DEF Tracked, Silent

\* A call and a session that a step does not concern stay as they were.
LEMMA TrackedSame ==
  ASSUME NEW r \in Runners, Tracked(r), run'[r] = run[r], queue'[r] = queue[r],
         usage'[r] = usage[r], spans'[SessionOf[r]] = spans[SessionOf[r]]
  PROVE  Tracked(r)'
<1>1. PhaseOf(r)' = PhaseOf(r) /\ (InRun(r)' <=> InRun(r))
  BY DEF PhaseOf, State, InRun
<1> QED
  BY <1>1 DEF Tracked, Silent, Starting, Entering, Reporting, Closing, Placed,
     StartEvents, ResumeEvents, TransitionEvents, Failed

\* The queues and totals a step of one call leaves alone.
LEMMA QueueOthers ==
  ASSUME Books, NEW r \in Runners,
         \/ TracedOpen(r) \/ TracedStep(r) \/ Emit(r) \/ Raise(r) \/ Abort(r)
  PROVE  /\ \A q \in Runners \ {r} : queue'[q] = queue[q] /\ usage'[q] = usage[q]
         /\ \A s \in Sessions \ {SessionOf[r]} : spans'[s] = spans[s]
<1>1. /\ queue \in [Runners -> Seq(TracedEvent)] /\ usage \in [Runners -> Nat]
      /\ spans \in [Sessions -> Span]
  BY DEF Books
<1>2. CASE TracedOpen(r)
  BY <1>1, <1>2 DEF TracedOpen
<1>3. CASE TracedStep(r)
  <2>1. UNCHANGED spans
    BY <1>3 DEF TracedStep
  <2>2. \/ \E events : Queue(r, events)
        \/ UNCHANGED queue
    BY <1>3 DEF TracedStep, Told, Announce, AfterSave, Quietly
  <2>3. UNCHANGED usage \/ \E n : usage' = [usage EXCEPT ![r] = n]
    BY <1>3 DEF TracedStep, Announce
  <2> QED
    BY <1>1, <2>1, <2>2, <2>3 DEF Queue
<1>4. CASE Emit(r)
  BY <1>1, <1>4 DEF Emit, Queue
<1>5. CASE Raise(r) \/ Abort(r)
  BY <1>1, <1>5 DEF Raise, Abort, Queue
<1> QED
  BY <1>2, <1>3, <1>4, <1>5

LEMMA TrackedNext ==
  ASSUME OneCaller, Inv, Inv', Books, AllTracked, [TracedNext]_tracedVars
  PROVE  AllTracked'
<1>1. ASSUME UNCHANGED <<run, queue, usage, spans>> PROVE AllTracked'
  BY <1>1, TrackedSame DEF AllTracked
<1>2. CASE UNCHANGED tracedVars \/ \E s \in Sessions : Inject(s) /\ UNCHANGED tracing
  BY <1>1, <1>2 DEF tracedVars, vars, tracing, Inject
<1>3. CASE Die
  <2>1. \A r \in Runners : run'[r] = Idle /\ queue'[r] = <<>>
    BY <1>3 DEF Die
  <2>2. \A s \in Sessions : spans'[s].phase = NoPhase
    BY <1>3 DEF Die, NoSpans
  <2> QED
    BY <2>1, <2>2, IdleTracked DEF AllTracked
<1>4. ASSUME NEW r \in Runners,
             \/ TracedOpen(r) \/ TracedStep(r) \/ Emit(r) \/ Raise(r) \/ Abort(r)
      PROVE  AllTracked'
  <2>1. /\ Core /\ Tracked(r) /\ SessionOf[r] \in Sessions
        /\ spans[SessionOf[r]].run = "none" => spans[SessionOf[r]].phase = NoPhase
    BY InvParts, CallFacts DEF AllTracked
  <2>2. \A q \in Runners \ {r} : run'[q] = run[q]
    <3>1. CASE TracedOpen(r) \/ TracedStep(r)
      BY <3>1, StepCases, LocalStep DEF TracedOpen, CallOf, OthersStay
    <3>2. CASE Emit(r) \/ Raise(r) \/ Abort(r)
      BY <2>1, <3>2 DEF Emit, vars, Raise, Abort, CutShort, Leave, Core, CallsTyped
    <3> QED
      BY <1>4, <3>1, <3>2
  <2>3. ASSUME NEW q \in Runners \ {r} PROVE Tracked(q)'
    <3>1. SessionOf[q] \in Sessions \ {SessionOf[r]}
      BY EngineAssumption DEF OneCaller
    <3> QED
      BY <1>4, <2>2, <3>1, QueueOthers, TrackedSame DEF AllTracked
  <2>4. /\ Tracked(r)'
        /\ spans'[SessionOf[r]].run = "none" => spans'[SessionOf[r]].phase = NoPhase
    <3>1. CASE TracedOpen(r)
      <4>1. /\ run'[r].pc \in {"missing", "opened"} /\ queue'[r] = <<>>
            /\ usage'[r] = 0 /\ UNCHANGED spans
        BY <2>1, <3>1
        DEF TracedOpen, Open, Continue, NextCall, Core, CallsTyped, Books
      <4> QED
        BY <2>1, <4>1 DEF Tracked, Silent, InRun
    <3>2. CASE TracedStep(r)
      BY <2>1, <3>2, TrackedStep DEF TracedStep
    <3>3. CASE Emit(r)
      BY <2>1, <3>3, TrackedEmit
    <3>4. CASE Raise(r) \/ Abort(r)
      <4>1. /\ run'[r] = Idle /\ queue'[r] \in {<<>>, Failed} /\ UNCHANGED spans
        BY <2>1, <3>4
        DEF Raise, Abort, CutShort, Leave, Queue, Core, CallsTyped, Books
      <4> QED
        BY <2>1, <4>1, IdleTracked
    <3> QED
      BY <1>4, <3>1, <3>2, <3>3, <3>4
  <2>5. \A s \in Sessions \ {SessionOf[r]} : spans'[s] = spans[s]
    BY <1>4, QueueOthers
  <2> QED
    BY <2>3, <2>4, <2>5 DEF AllTracked
<1> QED
  BY <1>2, <1>3, <1>4, TracedCases

LEMMA TrackedKept ==
  ASSUME OneCaller
  PROVE  TracedSpec => []AllTracked
<1>1. TracedInit => AllTracked
  BY IdleFormed DEF TracedInit, Init, NoSpans, AllTracked, Tracked, Silent, InRun
<1>2. Inv /\ Inv' /\ Books /\ AllTracked /\ [TracedNext]_tracedVars => AllTracked'
  BY TrackedNext
<1> QED
  BY <1>1, <1>2, TracedInvariance, BooksKept, PTL DEF TracedSpec

\* The kinds of event a call may have to say first.
LEMMA HeadKinds ==
  ASSUME NEW r \in Runners
  PROVE  LET e == Head(queue[r]) IN
         /\ Starting(r) => e.kind \in {"RunStarted", "RunResumed"}
         /\ Entering(r) => e.kind \in {"PhaseStarted", "PhaseTransitioned"}
         /\ Reporting(r) => IsCommit(e) /\ e.phase_id = PhaseOf(r)
         /\ Closing(r) =>
              \/ e.kind = "RunCompleted" /\ e.total = spans[SessionOf[r]].tokens
              \/ e.kind \in {"RunFailed", "HumanReviewPending"}
<1> DEFINE e == Head(queue[r])
           total == spans[SessionOf[r]].tokens
<1>1. ASSUME NEW kind, NEW q, NEW n
      PROVE  /\ Event(kind, q, n).kind = kind /\ Event(kind, q, n).phase_id = q
             /\ Event(kind, q, n).total = n
             /\ Notice(kind, q).kind = kind
  BY DEF Event, Notice
<1>2. ASSUME Starting(r)
      PROVE  e.kind \in {"RunStarted", "RunResumed"}
  <2>1. e \in {Notice("RunStarted", PhaseOf(r)), Notice("RunResumed", PhaseOf(r))}
    BY <1>2 DEF Starting, StartEvents, ResumeEvents
  <2>2. /\ Notice("RunStarted", PhaseOf(r)).kind = "RunStarted"
        /\ Notice("RunResumed", PhaseOf(r)).kind = "RunResumed"
    BY <1>1
  <2> QED
    BY <2>1, <2>2
<1>3. ASSUME Entering(r)
      PROVE  e.kind \in {"PhaseStarted", "PhaseTransitioned"}
  <2>1. \/ e = Notice("PhaseStarted", PhaseOf(r))
        \/ \E from \in Phases : e = Notice("PhaseTransitioned", from)
    BY <1>3 DEF Entering, TransitionEvents
  <2>2. /\ Notice("PhaseStarted", PhaseOf(r)).kind = "PhaseStarted"
        /\ \A from : Notice("PhaseTransitioned", from).kind = "PhaseTransitioned"
    BY <1>1
  <2> QED
    BY <2>1, <2>2
<1>4. ASSUME Reporting(r)
      PROVE  IsCommit(e) /\ e.phase_id = PhaseOf(r)
  <2>1. PICK kind \in {"IterationCommitted", "ReviewCommitted"} :
          e = Event(kind, PhaseOf(r), 1)
    BY <1>4 DEF Reporting
  <2>2. e.kind = kind /\ e.phase_id = PhaseOf(r)
    BY <1>1, <2>1
  <2> QED
    BY <2>2 DEF IsCommit
<1>5. ASSUME Closing(r)
      PROVE  \/ e.kind = "RunCompleted" /\ e.total = total
             \/ e.kind \in {"RunFailed", "HumanReviewPending"}
  <2>1. \/ e = Event("RunCompleted", NoPhase, total)
        \/ e = Notice("RunFailed", NoPhase)
        \/ \E q \in Phases : e = Notice("HumanReviewPending", q)
    BY <1>5 DEF Closing, Failed
  <2>2. /\ Event("RunCompleted", NoPhase, total).kind = "RunCompleted"
        /\ Event("RunCompleted", NoPhase, total).total = total
        /\ Notice("RunFailed", NoPhase).kind = "RunFailed"
        /\ \A q : Notice("HumanReviewPending", q).kind = "HumanReviewPending"
    BY <1>1
  <2> QED
    BY <2>1, <2>2
<1> QED
  BY <1>2, <1>3, <1>4, <1>5

\* With one caller for each session, the totals that RunCompleted puts on a run
\* span are those its children report, though calls before this one may have
\* been paused, cancelled or have crashed with commits of their own.
THEOREM TotalsCorrect ==
  ASSUME OneCaller
  PROVE  TracedSpec => []TotalsAgree
<1>1. AllTracked => TotalsAgree
  <2> SUFFICES ASSUME NEW r \in Runners, Tracked(r), queue[r] # <<>>,
                      Head(queue[r]).kind = "RunCompleted"
               PROVE  Head(queue[r]).total = spans[SessionOf[r]].tokens
    BY DEF AllTracked, TotalsAgree
  <2>1. ~(Starting(r) \/ Entering(r) \/ Reporting(r))
    BY HeadKinds DEF IsCommit
  <2>2. Closing(r)
    BY <2>1 DEF Tracked, Silent
  <2> QED
    BY <2>2, HeadKinds
<1> QED
  BY <1>1, TrackedKept, PTL

\* With one caller for each session, the span of an iteration or a review becomes
\* the child of the span of its own phase, or of none where the run was resumed.
THEOREM ParentsCorrect ==
  ASSUME OneCaller
  PROVE  TracedSpec => OwnParent
<1>1. AllTracked /\ [TracedNext]_tracedVars =>
        [\A r \in Runners :
           LET sp == spans[SessionOf[r]]
               e == Head(queue[r])
           IN Emit(r) /\ IsCommit(e) =>
                \/ sp.phase = e.phase_id /\ sp.run # "none"
                \/ sp.phase = NoPhase /\ sp.run = "resumed"]_tracedVars
  <2> SUFFICES ASSUME NEW r \in Runners, Tracked(r), Emit(r),
                      IsCommit(Head(queue[r]))
               PROVE  Placed(spans[SessionOf[r]], Head(queue[r]).phase_id)
    BY DEF AllTracked, Placed
  <2>1. queue[r] # <<>>
    BY DEF Emit
  <2>2. ~(Starting(r) \/ Entering(r) \/ Closing(r))
    BY HeadKinds DEF IsCommit
  <2>3. Reporting(r)
    BY <2>1, <2>2 DEF Tracked, Silent
  <2> QED
    BY <2>3, HeadKinds DEF Reporting
<1> QED
  BY <1>1, TrackedKept, PTL DEF TracedSpec, OwnParent

-------------------------------------------------------------------------------
(***************************************************************************)
(* One caller for each session: the counters of the observer.  Commits are *)
(* those of iterations and of reviewer roles; each is said once, and at    *)
(* most one waits to be said.                                              *)
(***************************************************************************)
RoleEntries(log) == {i \in DOMAIN log : log[i].phase_id \notin Human}
Tally(session) ==
  Len(session.phase_iterations) + Cardinality(RoleEntries(session.reviews))

LEMMA RoleEntriesFinite ==
  ASSUME NEW log \in Seq(ReviewEntry)
  PROVE  /\ IsFiniteSet(RoleEntries(log)) /\ RoleEntries(log) \subseteq 1..Len(log)
         /\ Cardinality(RoleEntries(log)) \in Nat
<1>1. RoleEntries(log) \subseteq 1..Len(log)
  BY DEF RoleEntries
<1>2. IsFiniteSet(RoleEntries(log))
  BY <1>1, FS_Interval, FS_Subset
<1> QED
  BY <1>1, <1>2, FS_CardinalityType

\* An entry more counts unless it is a person's.
LEMMA RoleEntriesAppend ==
  ASSUME NEW log \in Seq(ReviewEntry), NEW e \in ReviewEntry
  PROVE  Cardinality(RoleEntries(Append(log, e)))
           = Cardinality(RoleEntries(log)) + (IF e.phase_id \in Human THEN 0 ELSE 1)
<1> DEFINE R == RoleEntries(log)
           n == Len(log) + 1
<1>1. /\ DOMAIN log = 1..Len(log) /\ Len(log) \in Nat
      /\ DOMAIN Append(log, e) = 1..n
      /\ \A i \in 1..Len(log) : Append(log, e)[i] = log[i]
      /\ Append(log, e)[n] = e
  OBVIOUS
<1>2. RoleEntries(Append(log, e)) = IF e.phase_id \in Human THEN R ELSE R \cup {n}
  BY <1>1 DEF RoleEntries
<1>3. IsFiniteSet(R) /\ n \notin R /\ Cardinality(R) \in Nat
  BY <1>1, RoleEntriesFinite
<1>4. Cardinality(R \cup {n}) = Cardinality(R) + 1
  BY <1>3, FS_AddElement
<1>5. Cardinality(RoleEntries(Append(log, e)))
        = IF e.phase_id \in Human THEN Cardinality(R) ELSE Cardinality(R \cup {n})
  BY <1>2
<1> QED
  BY <1>3, <1>4, <1>5

LEMMA TallyNat ==
  ASSUME NEW session \in Session
  PROVE  Tally(session) \in Nat
BY RoleEntriesFinite DEF Tally, Session

LEMMA CommitsAre ==
  ASSUME Inv, NEW s \in Sessions
  PROVE  Commits(s) = Tally(store[s]) /\ Commits(s) \in Nat
<1>1. store[s] \in Session
  BY InvParts DEF Core, StoreTyped
<1> QED
  BY <1>1, TallyNat DEF Commits, Tally, RoleEntries

\* A commit that is saved is one more entry, one that is not is none.
LEMMA TallyCommit ==
  ASSUME Inv, NEW r \in Runners, CommitIteration(r) \/ CommitReview(r)
  PROVE  LET s == SessionOf[r] IN
         /\ Tally(store'[s]) = Tally(store[s]) + (IF Saved THEN 1 ELSE 0)
         /\ UNCHANGED interrupts
<1> DEFINE s == SessionOf[r]
<1>1. /\ Core /\ Formed(run[r]) /\ State(r) = run[r].stored
      /\ State(r) \in Session /\ s \in Sessions /\ store[s] \in Session
      /\ PhaseOf(r) = State(r).current_phase
      /\ ~At(r, "idle") /\ ~At(r, "missing") /\ UNCHANGED interrupts
  BY InvParts, CallFacts
  DEF CommitIteration, CommitReview, At, Core, StoreTyped, world
<1>2. ASSUME NEW state \in Session, NEW pc \in Pcs, Save(r, state, pc),
             Tally(state) = Tally(State(r)) + 1,
             state.revision = State(r).revision
      PROVE  Tally(store'[s]) = Tally(store[s]) + (IF Saved THEN 1 ELSE 0)
  <2>1. CASE ~Fresh(r) /\ UNCHANGED store
    BY <1>1, <2>1, TallyNat DEF Saved
  <2>2. CASE Fresh(r) /\ store'[s] = Revised(state)
    <3>1. State(r) = store[s]
      BY <1>1, <2>2 DEF Core, SnapshotCurrent
    <3>2. store'[s].revision # store[s].revision
      <4>1. Revised(state).revision = state.revision + 1
        BY <1>2, RevisedFacts
      <4>2. store[s].revision \in Nat
        BY <1>1 DEF Session
      <4> QED
        BY <1>2, <2>2, <3>1, <4>1, <4>2
    <3>3. Tally(Revised(state)) = Tally(state)
      BY RevisedFacts DEF Tally
    <3> QED
      BY <1>2, <2>2, <3>1, <3>2, <3>3 DEF Saved
  <2> QED
    BY <1>1, <1>2, <2>1, <2>2, SaveOutcome
<1>3. CASE CommitIteration(r)
  <2> DEFINE state == WithIteration(State(r), run[r].result)
             e == NewIteration(State(r), run[r].result)
  <2>1. /\ run[r].result.confidence_score \in Scores
        /\ run[r].result.handoff \in BOOLEAN
    BY <1>1, <1>3 DEF CommitIteration, At, Formed, Working, ExecutionResult
  <2>2. /\ state \in Session /\ e \in IterationEntry
        /\ state.phase_iterations = Append(State(r).phase_iterations, e)
        /\ state.reviews = State(r).reviews
        /\ state.revision = State(r).revision
    BY <1>1, <2>1, WithIterationFacts
  <2>3. Save(r, state, "committed")
    BY <1>3 DEF CommitIteration
  <2> HIDE DEF state, e
  <2>4. Tally(state) = Tally(State(r)) + 1
    <3>1. /\ State(r).phase_iterations \in Seq(IterationEntry)
          /\ State(r).reviews \in Seq(ReviewEntry)
      BY <1>1 DEF Session
    <3>2. Len(state.phase_iterations) = Len(State(r).phase_iterations) + 1
      BY <2>2, <3>1
    <3> QED
      BY <2>2, <3>1, <3>2, RoleEntriesFinite DEF Tally
  <2> QED
    BY <1>1, <1>2, <2>2, <2>3, <2>4 DEF Pcs
<1>4. CASE CommitReview(r)
  <2> DEFINE state == WithDecision(State(r), run[r].result.decision,
                                   run[r].result.target_phase)
             e == NewReview(State(r), run[r].result.decision,
                            run[r].result.target_phase)
  <2>1. /\ run[r].result.decision \in Decisions
        /\ run[r].result.target_phase \in Choices
        /\ State(r).current_phase \notin Human
    BY <1>1, <1>4 DEF CommitReview, At, Formed, Reviewing, ReviewResult
  <2>2. /\ state \in Session /\ e \in ReviewEntry
        /\ e.phase_id = State(r).current_phase
        /\ state.reviews = Append(State(r).reviews, e)
        /\ state.phase_iterations = State(r).phase_iterations
        /\ state.revision = State(r).revision
    BY <1>1, <2>1, WithDecisionFacts
  <2>3. Save(r, state, "judged")
    BY <1>4 DEF CommitReview
  <2> HIDE DEF state, e
  <2>4. Tally(state) = Tally(State(r)) + 1
    <3>1. /\ State(r).phase_iterations \in Seq(IterationEntry)
          /\ State(r).reviews \in Seq(ReviewEntry)
      BY <1>1 DEF Session
    <3>2. Cardinality(RoleEntries(state.reviews))
            = Cardinality(RoleEntries(State(r).reviews)) + 1
      BY <2>1, <2>2, <3>1, RoleEntriesAppend
    <3> QED
      BY <2>2, <3>1, <3>2, RoleEntriesFinite DEF Tally
  <2> QED
    BY <1>1, <1>2, <2>2, <2>3, <2>4 DEF Pcs
<1> QED
  BY <1>1, <1>3, <1>4

\* Any other step of a call, AskHuman included, commits nothing of a role.
LEMMA TallyRest ==
  ASSUME Inv, NEW r \in Runners,
         \/ Open(r) \/ Initialize(r) \/ Start(r) \/ Resume(r) \/ Repeat(r)
         \/ Ending(r) \/ Proceeding(r) \/ AskHuman(r) \/ Moving(r)
  PROVE  Tally(store'[SessionOf[r]]) = Tally(store[SessionOf[r]])
<1> DEFINE s == SessionOf[r]
<1>1. /\ Core /\ RestTyped /\ State(r) \in Session /\ s \in Sessions
      /\ store[s] \in Session /\ PhaseOf(r) = State(r).current_phase
  BY InvParts, CallFacts DEF Core, StoreTyped
<1>2. CASE Open(r) \/ Resume(r) \/ Repeat(r) \/ Ending(r) \/ Proceeding(r)
  BY <1>1, <1>2, EndingOutcome, ProceedingOutcome DEF Open, Resume, Repeat
<1>3. CASE Initialize(r)
  <2>1. UNCHANGED store \/ (store[s] = Absent /\ store'[s] = Initialized)
    BY <1>1, <1>3 DEF Initialize, Core, StoreTyped, AbsentBare
  <2> QED
    BY <2>1, AbsentType DEF Tally
<1>4. ASSUME ~At(r, "idle"), ~At(r, "missing"), Fresh(r)
      PROVE  State(r) = store[s]
  BY <1>1, <1>4 DEF Core, SnapshotCurrent
<1>5. ASSUME NEW state \in Session, NEW pc \in Pcs, Save(r, state, pc),
             ~At(r, "idle"), ~At(r, "missing"),
             Tally(state) = Tally(State(r))
      PROVE  Tally(store'[s]) = Tally(store[s])
  <2>1. Tally(Revised(state)) = Tally(state)
    BY RevisedFacts DEF Tally
  <2> QED
    BY <1>1, <1>4, <1>5, <2>1, SaveOutcome
<1>6. CASE Start(r)
  <2> DEFINE state == [State(r) EXCEPT !.status = "in_progress",
                                       !.run_metadata = metadata[EngineOf[r]]]
  <2>1. /\ state \in Session /\ state.phase_iterations = State(r).phase_iterations
        /\ state.reviews = State(r).reviews
    BY <1>1, EngineAssumption DEF RestTyped, Session, Statuses
  <2>2. Save(r, state, Dispatch(state)) /\ ~At(r, "idle") /\ ~At(r, "missing")
    BY <1>6 DEF Start, At
  <2>3. Dispatch(state) \in Pcs
    BY DEF Dispatch, Pcs
  <2> HIDE DEF state
  <2> QED
    BY <1>5, <2>1, <2>2, <2>3 DEF Tally
<1>7. CASE AskHuman(r)
  <2> DEFINE state == WithReview(State(r), "PENDING", NoPhase)
             e == NewReview(State(r), "PENDING", NoPhase)
  <2>1. /\ State(r) \in Session /\ NoPhase \in Choices
        /\ State(r).current_phase \in Human
    BY <1>1, <1>7 DEF Choices, AskHuman
  <2>2. /\ state \in Session /\ e \in ReviewEntry
        /\ e.phase_id = State(r).current_phase
        /\ state.reviews = Append(State(r).reviews, e)
        /\ state.phase_iterations = State(r).phase_iterations
    <3>1. "PENDING" \in Decisions \cup {"PENDING"}
      OBVIOUS
    <3> HIDE DEF state, e
    <3>2. state = WithReview(State(r), "PENDING", NoPhase)
      BY DEF state
    <3>3. e = NewReview(State(r), "PENDING", NoPhase)
      BY DEF e
    <3> QED
      BY <2>1, <3>1, <3>2, <3>3, WithReviewFacts
  <2>3. Save(r, state, "idle") /\ ~At(r, "idle") /\ ~At(r, "missing")
    BY <1>7 DEF AskHuman, At
  <2> HIDE DEF state, e
  <2>4. Tally(state) = Tally(State(r))
    <3>1. State(r).reviews \in Seq(ReviewEntry)
      BY <1>1 DEF Session
    <3>2. Cardinality(RoleEntries(state.reviews))
            = Cardinality(RoleEntries(State(r).reviews))
      BY <2>1, <2>2, <3>1, RoleEntriesAppend, RoleEntriesFinite
    <3> QED
      BY <2>2, <3>2 DEF Tally
  <2> QED
    BY <1>5, <2>2, <2>3, <2>4 DEF Pcs
<1>8. CASE Moving(r)
  <2>1. ~At(r, "idle") /\ ~At(r, "missing")
    BY <1>1, <1>8, MovingOutcome DEF At
  <2>2. \/ UNCHANGED store
        \/ Fresh(r) /\ SameLogs(State(r), store'[s])
    BY <1>1, <1>8, MovingOutcome, MoveOutcome
  <2> QED
    BY <1>4, <2>1, <2>2 DEF SameLogs, Tally
<1> QED
  BY <1>2, <1>3, <1>6, <1>7, <1>8

\* A person's answer takes the place of the stub.
LEMMA TallyInject ==
  ASSUME Inv, AllKept, NEW s \in Sessions, Inject(s), NEW t \in Sessions
  PROVE  Tally(store'[t]) = Tally(store[t])
<1>1. CASE t # s
  BY <1>1, InjectOutcome
<1>2. CASE t = s
  <2>1. RoleEntries(store'[s].reviews) = RoleEntries(store[s].reviews)
    <3>1. PICK i \in DOMAIN store[s].reviews :
            /\ store[s].reviews[i].phase_id \in Human
            /\ DOMAIN store'[s].reviews = DOMAIN store[s].reviews
            /\ store'[s].reviews[i].phase_id \in Human
            /\ \A j \in DOMAIN store[s].reviews \ {i} :
                 store'[s].reviews[j] = store[s].reviews[j]
      BY InjectOutcome
    <3> QED
      BY <3>1 DEF RoleEntries
  <2>2. store'[s].phase_iterations = store[s].phase_iterations
    BY InjectOutcome DEF Behind
  <2> QED
    BY <1>2, <2>1, <2>2 DEF Tally
<1> QED
  BY <1>1, <1>2

\* A commit of the session waits to be said; only the head of a queue can be one.
Speaking(r) == queue[r] # <<>> /\ IsCommit(Head(queue[r]))
Unsaid(s) == IF \E r \in Runners : SessionOf[r] = s /\ Speaking(r) THEN 1 ELSE 0

Reckoned(s) ==
  LET told == counted[s] + Unsaid(s)
  IN told <= Commits(s) /\ Commits(s) <= told + interrupts

AllReckoned == \A s \in Sessions : Reckoned(s)

LEMMA UnsaidOwn ==
  ASSUME OneCaller, NEW r \in Runners
  PROVE  /\ Unsaid(SessionOf[r]) = IF Speaking(r) THEN 1 ELSE 0
         /\ Unsaid(SessionOf[r])' = IF Speaking(r)' THEN 1 ELSE 0
BY DEF OneCaller, Unsaid

\* No commit follows the head of a queue.
LEMMA TailQuiet ==
  ASSUME NEW r \in Runners, Tracked(r), queue[r] # <<>>
  PROVE  Tail(queue[r]) # <<>> => ~IsCommit(Head(Tail(queue[r])))
<1>1. \A p : ~IsCommit(Notice("PhaseStarted", p))
  BY DEF IsCommit, Notice, Event
<1>2. ASSUME NEW e, queue[r] = <<e>> PROVE Tail(queue[r]) = <<>>
  BY <1>2
<1>3. ASSUME NEW e, NEW p, queue[r] = <<e, Notice("PhaseStarted", p)>>
      PROVE  Tail(queue[r]) = <<Notice("PhaseStarted", p)>>
  BY <1>3
<1>4. \/ \E e : queue[r] = <<e>>
      \/ \E e, p : queue[r] = <<e, Notice("PhaseStarted", p)>>
  <2>1. ~Silent(r)
    BY DEF Silent
  <2>2. CASE Starting(r)
    BY <2>2 DEF Starting, StartEvents, ResumeEvents
  <2>3. CASE Entering(r)
    BY <2>3 DEF Entering, TransitionEvents
  <2>4. CASE Reporting(r) \/ Closing(r)
    BY <2>4 DEF Reporting, Closing, Failed
  <2> QED
    BY <2>1, <2>2, <2>3, <2>4 DEF Tracked
<1>5. \/ Tail(queue[r]) = <<>>
      \/ \E p : Tail(queue[r]) = <<Notice("PhaseStarted", p)>>
  BY <1>2, <1>3, <1>4
<1>6. ASSUME NEW p, NEW rest, rest = <<Notice("PhaseStarted", p)>>
      PROVE  ~IsCommit(Head(rest))
  <2>1. Head(rest) = Notice("PhaseStarted", p)
    BY <1>6
  <2> QED
    BY <1>1, <2>1
<1> QED
  BY <1>5, <1>6

\* A step that announces no commit leaves none to be said.
LEMMA ToldQuiet ==
  ASSUME NEW r \in Runners, Books, queue[r] = <<>>, Told(r)
  PROVE  ~Speaking(r)'
<1>1. /\ \A kind \in EventKinds \ {"IterationCommitted", "ReviewCommitted"} :
           \A p : \A n : ~IsCommit(Event(kind, p, n)) /\ ~IsCommit(Notice(kind, p))
      /\ ~IsCommit(Head(Failed))
  BY DEF IsCommit, Notice, Event, Failed
<1> DEFINE quiet(events) == events # <<>> => ~IsCommit(Head(events))
<1>2. ASSUME NEW events, Queue(r, events), quiet(events) PROVE ~Speaking(r)'
  <2>1. queue'[r] = events
    BY <1>2 DEF Queue, Books
  <2> QED
    BY <1>2, <2>1 DEF Speaking
<1>3. quiet(StartEvents(r)) /\ quiet(ResumeEvents(r))
  <2>1. /\ Head(StartEvents(r)) = Notice("RunStarted", PhaseOf(r))
        /\ Head(ResumeEvents(r)) = Notice("RunResumed", PhaseOf(r))
    BY DEF StartEvents, ResumeEvents
  <2> QED
    BY <1>1, <2>1 DEF EventKinds
<1>4. quiet(EndEvents(r)) /\ quiet(Failed) /\ quiet(<<>>)
  BY <1>1 DEF EndEvents, EventKinds, Failed
<1>5. quiet(MoveEvents(r)) /\ quiet(<<Notice("HumanReviewPending", PhaseOf(r))>>)
  <2>1. ~IsCommit(Notice("HumanReviewPending", PhaseOf(r)))
    BY <1>1 DEF EventKinds
  <2>2. ASSUME NEW from, NEW to
        PROVE  quiet(TransitionEvents(from, to))
    <3>1. Head(TransitionEvents(from, to)) = Notice("PhaseTransitioned", from)
      BY DEF TransitionEvents
    <3> QED
      BY <1>1, <3>1 DEF EventKinds
  <2>3. \/ MoveEvents(r) \in {EndEvents(r), <<>>}
        \/ \E from, to : MoveEvents(r) = TransitionEvents(from, to)
    BY DEF MoveEvents
  <2>4. quiet(MoveEvents(r))
    BY <1>4, <2>2, <2>3
  <2> QED
    BY <2>1, <2>4
<1> HIDE DEF quiet
<1>6. \/ \E events : Queue(r, events) /\ quiet(events)
      \/ UNCHANGED queue
  BY <1>3, <1>4, <1>5 DEF Told, AfterSave, Quietly
<1>7. CASE UNCHANGED queue
  BY <1>7 DEF Speaking
<1> QED
  BY <1>2, <1>6, <1>7

\* A step of the session's call.
LEMMA ReckonedStep ==
  ASSUME OneCaller, Inv, Inv', Books, NEW r \in Runners, Reckoned(SessionOf[r]),
         TracedOpen(r) \/ TracedStep(r)
  PROVE  Reckoned(SessionOf[r])'
<1> DEFINE s == SessionOf[r]
<1>1. /\ s \in Sessions /\ counted[s] \in Nat /\ counted'[s] = counted[s]
      /\ Commits(s) = Tally(store[s]) /\ Commits(s)' = Tally(store'[s])
      /\ Commits(s) \in Nat
      /\ queue[r] = <<>> /\ CallOf(r)
  <2>1. s \in Sessions /\ UNCHANGED counted /\ queue[r] = <<>> /\ CallOf(r)
    BY EngineAssumption, StepCases DEF TracedOpen, TracedStep, CallOf
  <2>2. Commits(s)' = Tally(store'[s])
    BY DEF Commits, Tally, RoleEntries
  <2> QED
    BY <2>1, <2>2, CommitsAre DEF Books
<1>2. Unsaid(s) = 0
  BY <1>1, UnsaidOwn DEF Speaking
<1>3. interrupts \in Nat /\ interrupts' \in Nat /\ interrupts <= interrupts'
  BY <1>1, InterruptsGrow
<1>4. ASSUME Tally(store'[s]) = Tally(store[s]), ~Speaking(r)'
      PROVE  Reckoned(s)'
  <2>1. Unsaid(s)' = 0
    BY <1>4, UnsaidOwn
  <2> QED
    BY <1>1, <1>2, <1>3, <1>4, <2>1 DEF Reckoned
<1>5. CASE TracedOpen(r)
  <2>1. ~Speaking(r)'
    BY <1>1, <1>5 DEF TracedOpen, Speaking
  <2>2. Tally(store'[s]) = Tally(store[s])
    BY <1>5, TallyRest DEF TracedOpen
  <2> QED
    BY <1>4, <2>1, <2>2
<1>6. CASE Told(r)
  <2>1. \/ Initialize(r) \/ Start(r) \/ Resume(r) \/ Repeat(r)
        \/ Ending(r) \/ Proceeding(r) \/ AskHuman(r) \/ Moving(r)
    BY <1>6 DEF Told, Ending, Proceeding, Moving
  <2> QED
    BY <1>1, <1>4, <1>6, <2>1, TallyRest, ToldQuiet
<1>7. ASSUME NEW kind \in {"IterationCommitted", "ReviewCommitted"},
             CommitIteration(r) \/ CommitReview(r), Announce(r, kind)
      PROVE  Reckoned(s)'
  <2>1. /\ Tally(store'[s]) = Tally(store[s]) + (IF Saved THEN 1 ELSE 0)
        /\ interrupts' = interrupts
    BY <1>7, TallyCommit
  <2>2. queue'[r] = IF Saved THEN <<Event(kind, PhaseOf(r), 1)>> ELSE Failed
    BY <1>7 DEF Announce, AfterSave, Queue, Books
  <2>3. IsCommit(Event(kind, PhaseOf(r), 1)) /\ ~IsCommit(Notice("RunFailed", NoPhase))
    BY <1>7 DEF IsCommit, Event, Notice
  <2>4. Speaking(r)' <=> Saved
    BY <2>2, <2>3 DEF Speaking, Failed
  <2>5. Unsaid(s)' = IF Saved THEN 1 ELSE 0
    BY <2>4, UnsaidOwn
  <2> QED
    BY <1>1, <1>2, <1>3, <2>1, <2>5 DEF Reckoned
<1> QED
  BY <1>5, <1>6, <1>7 DEF TracedStep

\* An event is said, or the call that was to say it has ended.
LEMMA ReckonedSaid ==
  ASSUME OneCaller, Inv, Inv', Books, NEW r \in Runners, Tracked(r),
         Reckoned(SessionOf[r]), Emit(r) \/ Raise(r) \/ Abort(r)
  PROVE  Reckoned(SessionOf[r])'
<1> DEFINE s == SessionOf[r]
<1>1. /\ s \in Sessions /\ counted \in [Sessions -> Nat] /\ UNCHANGED store
      /\ Commits(s) \in Nat /\ interrupts \in Nat
  BY InvParts, EngineAssumption, CommitsAre
  DEF Books, RestTyped, Emit, vars, Raise, Abort, CutShort
<1>2. Commits(s)' = Commits(s)
  BY <1>1 DEF Commits
<1>3. CASE Emit(r)
  <2>1. /\ counted'[s] = IF IsCommit(Head(queue[r])) THEN counted[s] + 1 ELSE counted[s]
        /\ queue'[r] = Tail(queue[r]) /\ queue[r] # <<>>
        /\ interrupts' = interrupts
    BY <1>1, <1>3 DEF Emit, Queue, Books, vars
  <2>2. ~Speaking(r)'
    BY <2>1, TailQuiet DEF Speaking
  <2>3. Unsaid(s)' = 0 /\ Unsaid(s) = IF IsCommit(Head(queue[r])) THEN 1 ELSE 0
    BY <2>1, <2>2, UnsaidOwn DEF Speaking
  <2> QED
    BY <1>1, <1>2, <2>1, <2>3 DEF Reckoned
<1>4. CASE Raise(r) \/ Abort(r)
  <2>1. /\ counted'[s] = counted[s] /\ queue'[r] \in {<<>>, Failed}
        /\ interrupts' = interrupts + 1
    BY <1>1, <1>4 DEF Raise, Abort, CutShort, MayInterrupt, Queue, Books
  <2>2. ~IsCommit(Notice("RunFailed", NoPhase))
    BY DEF IsCommit, Notice, Event
  <2>3. ~Speaking(r)'
    BY <2>1, <2>2 DEF Speaking, Failed
  <2>4. Unsaid(s)' = 0 /\ Unsaid(s) \in {0, 1}
    BY <2>3, UnsaidOwn
  <2> QED
    BY <1>1, <1>2, <2>1, <2>4 DEF Reckoned
<1> QED
  BY <1>3, <1>4

LEMMA ReckonedNext ==
  ASSUME OneCaller, Inv, Inv', AllKept, Books, AllTracked, AllReckoned,
         [TracedNext]_tracedVars
  PROVE  AllReckoned'
<1>1. /\ counted \in [Sessions -> Nat] /\ interrupts \in Nat
      /\ \A s \in Sessions : Commits(s) \in Nat /\ Unsaid(s) \in {0, 1}
  BY InvParts, CommitsAre, EngineAssumption DEF Books, RestTyped, Unsaid
<1>2. CASE UNCHANGED tracedVars
  BY <1>2 DEF tracedVars, vars, tracing, AllReckoned, Reckoned, Unsaid, Speaking,
     Commits
<1>3. ASSUME NEW s \in Sessions, Inject(s), UNCHANGED tracing PROVE AllReckoned'
  <2>1. ASSUME NEW t \in Sessions PROVE Commits(t)' = Commits(t)
    <3>1. Commits(t)' = Tally(store'[t])
      BY DEF Commits, Tally, RoleEntries
    <3> QED
      BY <1>3, <3>1, TallyInject, CommitsAre
  <2> QED
    BY <1>3, <2>1, InjectOutcome
    DEF tracing, AllReckoned, Reckoned, Unsaid, Speaking
<1>4. CASE Die
  <2> SUFFICES ASSUME NEW s \in Sessions PROVE Reckoned(s)'
    BY DEF AllReckoned
  <2>1. Unsaid(s)' = 0 /\ Commits(s)' = Commits(s) /\ counted'[s] = counted[s]
    BY <1>4 DEF Die, Unsaid, Speaking, Commits
  <2>2. interrupts' = interrupts + 1
    BY <1>4 DEF Die, MayInterrupt
  <2> QED
    BY <1>1, <2>1, <2>2 DEF AllReckoned, Reckoned
<1>5. ASSUME NEW r \in Runners,
             \/ TracedOpen(r) \/ TracedStep(r) \/ Emit(r) \/ Raise(r) \/ Abort(r)
      PROVE  AllReckoned'
  <2> SUFFICES ASSUME NEW s \in Sessions PROVE Reckoned(s)'
    BY DEF AllReckoned
  <2>1. CASE s = SessionOf[r]
    BY <1>5, <2>1, ReckonedStep, ReckonedSaid DEF AllReckoned, AllTracked
  <2>2. CASE s # SessionOf[r]
    <3>1. store'[s] = store[s] /\ counted'[s] = counted[s]
      <4>1. CASE TracedOpen(r) \/ TracedStep(r)
        <5>1. CallOf(r) /\ UNCHANGED counted
          BY <4>1, StepCases DEF TracedOpen, TracedStep, CallOf
        <5> QED
          BY <2>2, <5>1, LocalStep DEF OthersStay
      <4>2. CASE Emit(r) \/ Raise(r) \/ Abort(r)
        BY <1>1, <2>2, <4>2 DEF Emit, vars, Raise, Abort, CutShort
      <4> QED
        BY <1>5, <4>1, <4>2
    <3>2. \A q \in Runners : SessionOf[q] = s => queue'[q] = queue[q]
      BY <1>5, <2>2, QueueOthers
    <3>3. Unsaid(s)' = Unsaid(s) /\ Commits(s)' = Commits(s)
      BY <3>1, <3>2 DEF Unsaid, Speaking, Commits
    <3>4. interrupts' \in Nat /\ interrupts <= interrupts'
      <4>1. CASE TracedOpen(r) \/ TracedStep(r)
        BY <4>1, StepCases, InterruptsGrow DEF TracedOpen, CallOf
      <4>2. CASE Emit(r) \/ Raise(r) \/ Abort(r)
        BY <1>1, <4>2 DEF Emit, vars, Raise, Abort, CutShort, MayInterrupt
      <4> QED
        BY <1>5, <4>1, <4>2
    <3> QED
      BY <1>1, <3>1, <3>3, <3>4 DEF AllReckoned, Reckoned
  <2> QED
    BY <2>1, <2>2
<1> QED
  BY <1>2, <1>3, <1>4, <1>5, TracedCases

\* With one caller for each session, the iteration and review counters have each
\* commit once, but for one that waits to be said and those whose event an
\* interruption has replaced: at most one for each.
THEOREM CommitsCorrect ==
  ASSUME OneCaller
  PROVE  TracedSpec => []CommitsCounted
<1>1. TracedInit => AllReckoned
  <2> SUFFICES ASSUME TracedInit, NEW s \in Sessions PROVE Reckoned(s)
    BY DEF AllReckoned
  <2>1. /\ store[s] = Absent /\ counted[s] = 0 /\ interrupts = 0
        /\ \A r \in Runners : queue[r] = <<>>
    BY DEF TracedInit, Init
  <2>2. Unsaid(s) = 0
    BY <2>1 DEF Unsaid, Speaking
  <2>3. Commits(s) = 0
    <3>1. RoleEntries(<<>>) = {}
      BY DEF RoleEntries
    <3>2. Commits(s) = Len(<<>>) + Cardinality({})
      BY <2>1, <3>1, AbsentType DEF Commits, RoleEntries
    <3> QED
      BY <3>2, FS_EmptySet
  <2> QED
    BY <2>1, <2>2, <2>3 DEF Reckoned
<1>2. Inv /\ Inv' /\ AllKept /\ Books /\ AllTracked /\ AllReckoned
        /\ [TracedNext]_tracedVars => AllReckoned'
  BY ReckonedNext
<1>3. AllReckoned => CommitsCounted
  <2> SUFFICES ASSUME AllReckoned, NEW s \in Sessions
               PROVE  LET pending == {r \in Runners : /\ SessionOf[r] = s
                                                      /\ queue[r] # <<>>
                                                      /\ IsCommit(Head(queue[r]))}
                          told == counted[s] + Cardinality(pending)
                      IN told <= Commits(s) /\ Commits(s) <= told + interrupts
    BY DEF CommitsCounted
  <2> DEFINE pending == {r \in Runners : /\ SessionOf[r] = s
                                         /\ queue[r] # <<>>
                                         /\ IsCommit(Head(queue[r]))}
  <2>1. Cardinality(pending) = Unsaid(s)
    <3>1. CASE \E r \in Runners : SessionOf[r] = s /\ Speaking(r)
      <4>1. PICK r \in Runners : SessionOf[r] = s /\ Speaking(r)
        BY <3>1
      <4>2. pending = {r}
        BY <4>1 DEF OneCaller, Speaking
      <4> QED
        BY <3>1, <4>2, FS_Singleton DEF Unsaid
    <3>2. CASE ~\E r \in Runners : SessionOf[r] = s /\ Speaking(r)
      <4>1. pending = {}
        BY <3>2 DEF Speaking
      <4> QED
        BY <3>2, <4>1, FS_EmptySet DEF Unsaid
    <3> QED
      BY <3>1, <3>2
  <2> QED
    BY <2>1 DEF AllReckoned, Reckoned
<1> QED
  BY <1>1, <1>2, <1>3, TracedInvariance, BooksKept, TrackedKept, PTL DEF TracedSpec

===============================================================================
