----------------------------- MODULE TracedEngine -----------------------------
(***************************************************************************)
(* The engine with its observer: the events run() emits after each durable *)
(* write, and the span bookkeeping and counters the OpenTelemetry observer *)
(* (adapters/otel.py) keeps between them.                                  *)
(*                                                                         *)
(* An event is emitted after the write it tells of, so a call may end with *)
(* events unsaid: an exception replaces them by RunFailed, a cancellation  *)
(* (CancelledError, KeyboardInterrupt) by nothing, and the death of the    *)
(* process takes the open spans along.  One observer serves all sessions;  *)
(* its contract is one call at a time for each session.                    *)
(***************************************************************************)
EXTENDS WorkflowEngine

VARIABLES
  queue,    \* runner -> events of its last write not emitted yet
  usage,    \* runner -> total_tokens of the call, one token for each role answer
  spans,    \* session -> _active_spans[session], with what the spans have seen
  counted,  \* session -> commits in the iteration and review counters
  cut       \* history: sessions whose end a cancellation kept from the observer

tracing == <<queue, usage, spans, counted, cut>>
tracedVars == <<vars, tracing>>

Event(kind, p, total) == [kind |-> kind, phase_id |-> p, total |-> total]
Notice(kind, p) == Event(kind, p, 0)

\* run: no run span, one opened by RunStarted or by RunResumed; phase: the open
\* phase span.  unended counts spans started and not ended, tokens those that
\* the children of the run span report: what a trace backend would see.
NoSpans == [run |-> "none", phase |-> NoPhase, unended |-> 0, tokens |-> 0]

TracedInit ==
  /\ Init
  /\ queue = [r \in Runners |-> <<>>]
  /\ usage = [r \in Runners |-> 0]
  /\ spans = [s \in Sessions |-> NoSpans]
  /\ counted = [s \in Sessions |-> 0]
  /\ cut = {}

-------------------------------------------------------------------------------
(***************************************************************************)
(* Emission.  A step that was to save and has not ends in ConcurrencyError *)
(* or TransitionError, and in RunFailed.                                   *)
(***************************************************************************)
Saved == store' # store
Queue(r, events) == queue' = [queue EXCEPT ![r] = events]
Failed == <<Notice("RunFailed", NoPhase)>>
AfterSave(r, events) == Queue(r, IF Saved THEN events ELSE Failed)

\* _start_run_events
StartEvents(r) ==
  <<Notice("RunStarted", PhaseOf(r)), Notice("PhaseStarted", PhaseOf(r))>>

\* Mutant of ResumeEvents: the last commit is announced again.
ResumeReplaying(r) ==
  <<Notice("RunResumed", PhaseOf(r)), Notice("IterationCommitted", PhaseOf(r))>>

\* A resumed run announces no phase.
ResumeEvents(r) == <<Notice("RunResumed", PhaseOf(r))>>

\* Mutant of TransitionEvents: swapped.
TransitionSwapped(from, to) ==
  <<Notice("PhaseStarted", to), Notice("PhaseTransitioned", from)>>

\* _transition_events
TransitionEvents(from, to) ==
  <<Notice("PhaseTransitioned", from), Notice("PhaseStarted", to)>>

\* _finalize_event
EndEvents(r) == <<Event("RunCompleted", NoPhase, usage[r])>>

\* What a step that leaves a phase or ends the session has to say; a completed
\* discovery says it only once its pack is locked.
MoveEvents(r) ==
  LET after == store'[SessionOf[r]] IN
  IF after.status = "in_progress"
  THEN TransitionEvents(PhaseOf(r), after.current_phase)
  ELSE IF run'[r].pc = "lock" THEN <<>> ELSE EndEvents(r)

\* The event of a commit; _accumulate_runtime_usage comes before it.
Announce(r, kind) ==
  /\ AfterSave(r, <<Event(kind, PhaseOf(r), 1)>>)
  /\ usage' = [usage EXCEPT ![r] = IF Saved THEN @ + 1 ELSE @]

Quietly(r) == UNCHANGED queue

\* The steps of a call that announce no commit.
Told(r) ==
  \/ Start(r) /\ AfterSave(r, StartEvents(r))
  \/ Resume(r) /\ Queue(r, ResumeEvents(r))
  \/ /\ \/ AbandonWithoutHandoff(r) \/ GiveUp(r) \/ LeaveExecutor(r)
        \/ ApplyDecision(r) \/ ConcludeReview(r) \/ Cancel(r)
     /\ AfterSave(r, MoveEvents(r))
  \/ AskHuman(r) /\ AfterSave(r, <<Notice("HumanReviewPending", PhaseOf(r))>>)
  \/ LockPack(r) /\ Queue(r, EndEvents(r))
  \/ /\ InvokeReviewer(r)
     /\ Queue(r, IF run'[r].pc = "idle" THEN Failed ELSE <<>>)
  \/ /\ StopForQuestion(r)
     /\ Queue(r, IF AdhocQuestions THEN <<>> ELSE Failed)
  \/ /\ \/ Initialize(r) \/ ReturnTerminal(r) \/ Execute(r) \/ Repeat(r)
        \/ PublishFiles(r) \/ PublishHandoff(r) \/ Pause(r)
     /\ Quietly(r)

\* Nothing else happens in a call while it has events to emit.
TracedStep(r) ==
  /\ queue[r] = <<>>
  /\ \/ Told(r) /\ UNCHANGED usage
     \/ CommitIteration(r) /\ Announce(r, "IterationCommitted")
     \/ CommitReview(r) /\ Announce(r, "ReviewCommitted")
  /\ UNCHANGED <<spans, counted, cut>>

\* Mutant of TracedOpen: the totals of the last call go on.
OpenWithTotals(r) ==
  /\ queue[r] = <<>>
  /\ Open(r)
  /\ UNCHANGED tracing

\* Each call has a _Runtime of its own, and totals of its own.
TracedOpen(r) ==
  /\ queue[r] = <<>>
  /\ Open(r)
  /\ usage' = [usage EXCEPT ![r] = 0]
  /\ UNCHANGED <<queue, spans, counted, cut>>

-------------------------------------------------------------------------------
(***************************************************************************)
(* The observer.                                                           *)
(***************************************************************************)

\* Mutant of EndPhase: the ended span stays where it was.
EndPhaseKept(sp) ==
  IF sp.phase = NoPhase THEN sp ELSE [sp EXCEPT !.unended = @ - 1]

\* _end_phase_span
EndPhase(sp) ==
  IF sp.phase = NoPhase THEN sp
  ELSE [sp EXCEPT !.phase = NoPhase, !.unended = @ - 1]

EndRun(sp) ==
  IF sp.run = "none" THEN sp
  ELSE [sp EXCEPT !.run = "none", !.unended = @ - 1]

\* Mutant of StartRun: the run span of a paused call is forgotten.
StartRunOver(sp, how) ==
  [EndPhase(sp) EXCEPT !.run = how, !.unended = @ + 1, !.tokens = 0]

\* _trace_run_started: what an earlier call has left open ends first.
StartRun(sp, how) ==
  LET before == IF sp.run = "none" THEN sp ELSE EndRun(EndPhase(sp))
  IN [before EXCEPT !.run = how, !.unended = @ + 1, !.tokens = 0]

\* _trace_phase_started
StartPhase(sp, p) == [EndPhase(sp) EXCEPT !.phase = p, !.unended = @ + 1]

\* _trace_run_completed and _trace_run_failed
EndAll(sp) == [EndRun(EndPhase(sp)) EXCEPT !.tokens = 0]

\* An iteration or a review has a span of its own, ended at once.
IsCommit(e) == e.kind \in {"IterationCommitted", "ReviewCommitted"}

\* Mutant of OnEvent: a failed run keeps its span.
OnEventUnlessFailed(sp, e) ==
  CASE e.kind = "RunStarted"        -> StartRun(sp, "fresh")
    [] e.kind = "RunResumed"        -> StartRun(sp, "resumed")
    [] e.kind = "PhaseStarted"      -> StartPhase(sp, e.phase_id)
    [] e.kind \in {"PhaseTransitioned", "RunFailed"} -> EndPhase(sp)
    [] e.kind = "RunCompleted"      -> EndAll(sp)
    [] IsCommit(e)                  -> [sp EXCEPT !.tokens = @ + e.total]
    [] OTHER                        -> sp

\* on_event
OnEvent(sp, e) ==
  CASE e.kind = "RunStarted"        -> StartRun(sp, "fresh")
    [] e.kind = "RunResumed"        -> StartRun(sp, "resumed")
    [] e.kind = "PhaseStarted"      -> StartPhase(sp, e.phase_id)
    [] e.kind = "PhaseTransitioned" -> EndPhase(sp)
    [] e.kind \in {"RunCompleted", "RunFailed"} -> EndAll(sp)
    [] IsCommit(e)                  -> [sp EXCEPT !.tokens = @ + e.total]
    [] OTHER                        -> sp

Emit(r) ==
  LET s == SessionOf[r]
      e == Head(queue[r])
  IN
  /\ queue[r] # <<>>
  /\ Queue(r, Tail(queue[r]))
  /\ spans' = [spans EXCEPT ![s] = OnEvent(@, e)]
  /\ counted' = [counted EXCEPT ![s] = IF IsCommit(e) THEN @ + 1 ELSE @]
  /\ UNCHANGED <<vars, usage, cut>>

-------------------------------------------------------------------------------
\* A call ends before its code does.
CutShort(r) ==
  /\ MayInterrupt
  /\ ~At(r, "idle") \/ queue[r] # <<>>
  /\ Leave(r)
  /\ UNCHANGED <<store, artifacts, pack, applied, metadata, departures>>

\* An exception, of the observer too.  The try begins after load and initialize.
Raise(r) ==
  /\ CutShort(r)
  /\ queue[r] # Failed
  /\ Queue(r, IF At(r, "missing") THEN <<>> ELSE Failed)
  /\ UNCHANGED <<usage, spans, counted, cut>>

\* A cancellation, or an exception out of the emission of RunFailed itself.
Abort(r) ==
  LET s == SessionOf[r] IN
  /\ CutShort(r)
  /\ Queue(r, <<>>)
  /\ cut' = IF store[s].status \in Terminal THEN cut \cup {s} ELSE cut
  /\ UNCHANGED <<usage, spans, counted>>

\* The process dies, with every call and span in it.
Die ==
  /\ MayInterrupt
  /\ run' = [r \in Runners |-> Idle]
  /\ queue' = [r \in Runners |-> <<>>]
  /\ spans' = [s \in Sessions |-> NoSpans]
  /\ UNCHANGED <<store, artifacts, pack, applied, metadata, departures, usage,
                 counted, cut>>

TracedNext ==
  \/ \E r \in Runners :
       TracedOpen(r) \/ TracedStep(r) \/ Emit(r) \/ Raise(r) \/ Abort(r)
  \/ \E s \in Sessions : Inject(s) /\ UNCHANGED tracing
  \/ Die

TracedSpec ==
  /\ TracedInit
  /\ [][TracedNext]_tracedVars
  /\ \A r \in Runners :
       WF_tracedVars(TracedOpen(r)) /\ WF_tracedVars(TracedStep(r))
         /\ WF_tracedVars(Emit(r))

-------------------------------------------------------------------------------
(***************************************************************************)
(* Properties                                                              *)
(***************************************************************************)
EventKinds ==
  {"RunStarted", "RunResumed", "PhaseStarted", "IterationCommitted",
   "ReviewCommitted", "HumanReviewPending", "PhaseTransitioned",
   "RunCompleted", "RunFailed"}

\* Types of the observer's state; a span is never ended twice.
TracedTypeOK ==
  /\ \A r \in Runners, i \in 1..2 :
       i \in DOMAIN queue[r] =>
         queue[r][i] \in [kind : EventKinds, phase_id : Choices, total : Nat]
  /\ usage \in [Runners -> Nat]
  /\ spans \in [Sessions -> [run : {"none", "fresh", "resumed"},
                             phase : Choices, unended : Nat, tokens : Nat]]
  /\ counted \in [Sessions -> Nat]
  /\ cut \subseteq Sessions

\* No span is forgotten open: over pauses, resumes, errors and cancellations the
\* observer still holds each span it has started and not ended.
Held(sp) ==
  (IF sp.run = "none" THEN 0 ELSE 1) + (IF sp.phase = NoPhase THEN 0 ELSE 1)
NoSpanLost == \A s \in Sessions : spans[s].unended = Held(spans[s])

\* The span of an iteration or a review is the child of the span of its own phase;
\* only a resumed run, which announces no phase, has roots instead.
OwnParent ==
  [][\A r \in Runners :
       LET sp == spans[SessionOf[r]]
           e == Head(queue[r])
       IN Emit(r) /\ IsCommit(e) =>
            \/ sp.phase = e.phase_id /\ sp.run # "none"
            \/ sp.phase = NoPhase /\ sp.run = "resumed"]_tracedVars

\* The totals RunCompleted puts on a run span are those its children report,
\* though a session may have taken several calls.
TotalsAgree ==
  \A r \in Runners :
     queue[r] # <<>> /\ Head(queue[r]).kind = "RunCompleted" =>
       Head(queue[r]).total = spans[SessionOf[r]].tokens

\* The iteration and review counters count each commit once, and miss one only
\* where an interruption came between the write and its event.
Commits(s) ==
  Len(store[s].phase_iterations)
    + Cardinality({i \in DOMAIN store[s].reviews :
                     store[s].reviews[i].phase_id \notin Human})
CommitsCounted ==
  \A s \in Sessions :
     LET pending == {r \in Runners : /\ SessionOf[r] = s
                                     /\ queue[r] # <<>>
                                     /\ IsCommit(Head(queue[r]))}
         told == counted[s] + Cardinality(pending)
     IN told <= Commits(s) /\ Commits(s) <= told + interrupts

\* When a session is over its spans end, unless a cancellation has kept the end
\* from the observer.
EndIsTraced ==
  \A s \in Sessions :
     store[s].status \in Terminal ~> (spans[s].unended = 0 \/ s \in cut)

===============================================================================
