------------------------------- MODULE LLMRoles -------------------------------
(***************************************************************************)
(* The LLM-backed roles of the asynchronous stack (llm/roles.py) and the   *)
(* structured output they are built on (llm/structured.py), called by      *)
(* sessions that run concurrently in one event loop: a call is interrupted *)
(* at every backend.complete, and a role object may serve several calls.   *)
(*                                                                         *)
(* A reply is a sequence of pieces, each an answer or a wrong piece of     *)
(* JSON, in a fenced block or not, on one line or on several.  Prose is    *)
(* left out.  A token count is a number; 0 stands for no usage reported.   *)
(***************************************************************************)
EXTENDS PhaseConfig

CONSTANTS
  Sessions,         \* sessions running in the event loop, one call each
  RoleObject,       \* session -> the role object bound for it
  MaxRetries,       \* max_retries of a role
  BackfillRetries,  \* artifact_backfill_retries of a role
  Gates,            \* quality_gates: [critical, high], or Unset
  Setups,           \* the configurations sessions are built from
  ExecutorTexts,    \* replies to an executor's prompt
  ReviewerTexts,    \* replies to a reviewer's prompt
  FileTexts,        \* replies to a backfill prompt
  Tokens            \* token counts a reply may report

ASSUME RolesAssumption ==
  /\ MaxRetries \in Nat
  /\ BackfillRetries \in Nat
  /\ Tokens \subseteq Nat

\* The configuration is typed, and a graph object that is given is a validated one.
ASSUME SetupsAssumption ==
  \A given \in Setups :
    /\ given.phases \in Seq(PhaseDefinition)
    /\ \/ given.graph = Unset
       \/ given.graph \in Seq(PhaseDefinition) /\ Validated(given.graph)

VARIABLES
  setup,       \* the configuration, with the pack's children and bindings
  graph,       \* Unset, <<>> (ConfigurationError) or the phases accepted
  call,        \* the role call of each session
  last_usage   \* role object -> role.last_usage

vars == <<setup, graph, call, last_usage>>

(***************************************************************************)
(* _iter_json_candidates: the fenced blocks in order, then the first JSON  *)
(* object of the text, then the first that fills a line.  json is FALSE    *)
(* for a piece the decoder refuses.  Candidates are positions in the text; *)
(* an object that fills a line comes no earlier than the first object.     *)
(***************************************************************************)
FirstIn(S) == IF S = {} THEN {} ELSE {Min(S)}

\* Mutant of FencedBlocks: only the first one is tried.
FirstFence(text) == FirstIn({i \in DOMAIN text : text[i].fenced})

FencedBlocks(text) == {i \in DOMAIN text : text[i].fenced}

BareObjects(text) ==
  LET decoded == {i \in DOMAIN text : text[i].json}
  IN FirstIn(decoded) \union FirstIn({i \in decoded : text[i].one_line})

(***************************************************************************)
(* _parse_response: the raw text if it is nothing but the answer, else the *)
(* first candidate the response model accepts; <<>> when none is.          *)
(***************************************************************************)
Accepted(piece) == piece.json /\ piece.answer # Unset

ParseResponse(text) ==
  LET valid == {i \in DOMAIN text : Accepted(text[i])}
      fenced == valid \intersect FencedBlocks(text)
      bare == valid \intersect BareObjects(text)
  IN IF Len(text) = 1 /\ ~text[1].fenced /\ 1 \in valid THEN text
     ELSE IF fenced # {} THEN <<text[Min(fenced)]>>
     ELSE IF bare # {} THEN <<text[Min(bare)]>>
     ELSE <<>>

\* The response model of a reviewer (ReviewerOutput) knows two decisions, that of
\* an executor has a list of artifacts named.
ASSUME AnswersAssumption ==
  /\ \A text \in ReviewerTexts :
       LET read == ParseResponse(text)
       IN read # <<>> => read[1].answer.decision \in {"APPROVE", "REQUEST_CHANGES"}
  /\ \A text \in ExecutorTexts :
       LET read == ParseResponse(text)
       IN read # <<>> =>
            LET named == read[1].answer.key_artifacts IN DOMAIN named = 1..Len(named)

(***************************************************************************)
(* A role call.  wanted are the positions, among the key_artifacts of the  *)
(* output, of the files still to be asked for.  Of the fields at its end:  *)
(* own is the usage of the replies behind the result, missed that some     *)
(* rejected reply held an answer in a fenced block; both are there for the *)
(* properties only.                                                        *)
(***************************************************************************)
NoCall ==
  [at |-> "idle", phase |-> Unset, attempt |-> 0, total |-> 0, output |-> Unset,
   wanted |-> {}, files |-> <<>>, result |-> Unset, own |-> 0, missed |-> FALSE]

Init ==
  /\ setup \in Setups
  /\ graph = Unset
  /\ call = [c \in Sessions |-> NoCall]
  /\ last_usage = [r \in {RoleObject[c] : c \in Sessions} |-> 0]

(***************************************************************************)
(* The session is constructed: its graph is the one given or built.        *)
(***************************************************************************)
Configure ==
  /\ graph = Unset
  /\ graph' = SessionGraph(setup.graph, setup)
  /\ UNCHANGED <<setup, call, last_usage>>

(***************************************************************************)
(* A run reaches a phase and calls its role, after the engine's checks.    *)
(* Overrides that do not make a role config raise before the first request *)
(* (_resolve_role_config).                                                 *)
(***************************************************************************)
Call(c) ==
  /\ graph \notin {Unset, <<>>}
  /\ Bound(graph, setup.bindings) /\ SourcesKnown(graph, setup.children)
  /\ c \in setup.running /\ call[c].at = "idle"
  /\ \E phase \in ToSet(graph) :
       /\ phase.kind = "executor" \/ ~phase.human
       /\ call' = [call EXCEPT ![c] =
            [NoCall EXCEPT !.phase = phase,
               !.at = IF phase.role_overrides = "invalid" THEN "ConfigurationError"
                      ELSE "asking"]]
  /\ UNCHANGED <<setup, graph, last_usage>>

(***************************************************************************)
(* _enforce_quality_gates and check_quality_gates; the target of a         *)
(* send-back the model left open (_resolve_request_changes_target_phase).  *)
(***************************************************************************)
Decision(answer) ==
  IF /\ Gates # Unset /\ answer.decision = "APPROVE"
     /\ answer.critical > Gates.critical \/ answer.high > Gates.high
  THEN "REQUEST_CHANGES" ELSE answer.decision

\* Mutant of TargetPhase: what the model left open stays open.
TargetAsAnswered(answer, targets) == answer.target_phase

TargetPhase(answer, targets) ==
  IF /\ Decision(answer) = "REQUEST_CHANGES"
     /\ answer.target_phase = NoPhase /\ Len(targets) > 1
  THEN Last(targets) ELSE answer.target_phase

ReviewResult(phase, answer, usage) ==
  [decision |-> Decision(answer),
   target_phase |-> TargetPhase(answer, phase.can_request_changes_from),
   chosen_next |-> IF Decision(answer) = "APPROVE"
                   THEN ResolveChosenNext(answer.confidence_score, phase.routing)
                   ELSE NoPhase,
   usage |-> usage]

ExecutionResult(phase, answer, usage) ==
  [decision |-> "COMPLETE",
   target_phase |-> NoPhase,
   chosen_next |-> ResolveChosenNext(answer.confidence_score, phase.routing),
   usage |-> usage]

(***************************************************************************)
(* The call returns result, unless no routing rule covers the score.       *)
(***************************************************************************)
Returned(k, result) ==
  IF result.chosen_next = NoRule THEN [k EXCEPT !.at = "ConfigurationError"]
  ELSE [k EXCEPT !.at = "returned", !.result = result]

(***************************************************************************)
(* An executor asks for the next missing file or, when none is left,       *)
(* returns its result with the role's last_usage.                          *)
(***************************************************************************)
NextFile(k, usage) ==
  IF k.wanted # {} THEN [k EXCEPT !.at = "backfilling", !.attempt = 0, !.total = 0]
  ELSE Returned(k, ExecutionResult(k.phase, k.output, usage))

(***************************************************************************)
(* _run_backfill_async: the .md files a handoff names are asked for if the *)
(* answer came without any artifact and backfill is on.                    *)
(***************************************************************************)
MissingFiles(answer) ==
  IF answer.artifacts # <<>> \/ BackfillRetries = 0 THEN {}
  ELSE {i \in DOMAIN answer.key_artifacts : answer.key_artifacts[i].md}

\* The file asked for is done with, obtained or not.
Tried(k) == [k EXCEPT !.wanted = @ \ {Min(@)}]

(***************************************************************************)
(* A reply from which ParseResponse reads an answer, and the three places  *)
(* that wait for one.                                                      *)
(***************************************************************************)
Texts(c) ==
  IF call[c].at = "backfilling" THEN FileTexts
  ELSE IF call[c].phase.kind = "executor" THEN ExecutorTexts ELSE ReviewerTexts

Waiting(c) == call[c].at \in {"asking", "backfilling"}

ExecutorAnswers(c) ==
  /\ call[c].at = "asking" /\ call[c].phase.kind = "executor"
  /\ \E text \in ExecutorTexts, tokens \in Tokens :
       LET read == ParseResponse(text)
           usage == call[c].total + tokens
           k == [call[c] EXCEPT !.output = read[1].answer,
                   !.total = usage, !.own = usage,
                   !.files = read[1].answer.artifacts,
                   !.wanted = MissingFiles(read[1].answer)]
       IN /\ read # <<>>
          /\ last_usage' = [last_usage EXCEPT ![RoleObject[c]] = usage]
          /\ call' = [call EXCEPT ![c] = NextFile(k, usage)]
  /\ UNCHANGED <<setup, graph>>

ReviewerAnswers(c) ==
  /\ call[c].at = "asking" /\ call[c].phase.kind = "review"
  /\ \E text \in ReviewerTexts, tokens \in Tokens :
       LET read == ParseResponse(text)
           usage == call[c].total + tokens
           k == [call[c] EXCEPT !.output = read[1].answer, !.total = usage, !.own = usage]
       IN /\ read # <<>>
          /\ last_usage' = [last_usage EXCEPT ![RoleObject[c]] = usage]
          /\ call' = [call EXCEPT ![c] =
               Returned(k, ReviewResult(k.phase, read[1].answer, usage))]
  /\ UNCHANGED <<setup, graph>>

\* Mutant of Merged: the backfill's usage replaces the role's.
MergedLast(usage, addition) == IF addition = 0 THEN usage ELSE addition

Merged(usage, addition) == usage + addition

\* Mutant of Usable: JSON is taken for markdown.
UsableUnlessEmpty(content) == content # "empty"

Usable(content) == content \notin {"empty", "json"}

(***************************************************************************)
(* A backfilled file: content that is empty or looks like JSON is skipped, *)
(* and its tokens are not counted (_apply_backfill_result).                *)
(***************************************************************************)
FileAnswers(c) ==
  /\ call[c].at = "backfilling"
  /\ \E text \in FileTexts, tokens \in Tokens :
       LET read == ParseResponse(text)
           spent == call[c].total + tokens
           usage == Merged(last_usage[RoleObject[c]], spent)
           asked == call[c].output.key_artifacts[Min(call[c].wanted)]
           rest == Tried(call[c])
       IN /\ read # <<>>
          /\ IF Usable(read[1].answer)
             THEN /\ last_usage' = [last_usage EXCEPT ![RoleObject[c]] = usage]
                  /\ call' = [call EXCEPT ![c] = NextFile(
                       [rest EXCEPT !.own = @ + spent,
                          !.files = Append(@, [ref |-> asked, content |-> read[1].answer])], usage)]
             ELSE /\ call' = [call EXCEPT ![c] = NextFile(rest, last_usage[RoleObject[c]])]
                  /\ UNCHANGED last_usage
  /\ UNCHANGED <<setup, graph>>

(***************************************************************************)
(* A call that fails for good: LLMError from a role call ends it, from a   *)
(* backfill call only gives up the file.                                   *)
(***************************************************************************)
\* Mutant of Failed: a file that could not be obtained is asked for again.
FailedAskAgain(c, k) ==
  IF k.at = "asking" THEN [k EXCEPT !.at = "LLMError"]
  ELSE NextFile(k, last_usage[RoleObject[c]])

Failed(c, k) ==
  IF k.at = "asking" THEN [k EXCEPT !.at = "LLMError"]
  ELSE NextFile(Tried(k), last_usage[RoleObject[c]])

\* Mutant of AttemptsLeft: one attempt too many.
OneMoreAttempt(k) ==
  k.attempt <= IF k.at = "asking" THEN MaxRetries ELSE BackfillRetries

AttemptsLeft(k) ==
  k.attempt < IF k.at = "asking" THEN MaxRetries ELSE BackfillRetries

(***************************************************************************)
(* A reply that cannot be read: asked again, at most max_retries times.    *)
(***************************************************************************)
Unreadable(c) ==
  /\ Waiting(c)
  /\ \E text \in Texts(c), tokens \in Tokens :
       LET k == [call[c] EXCEPT !.total = @ + tokens,
                   !.missed = @ \/ \E piece \in ToSet(text) : piece.fenced /\ Accepted(piece)]
       IN /\ ParseResponse(text) = <<>>
          /\ call' = [call EXCEPT ![c] =
               IF AttemptsLeft(k) THEN [k EXCEPT !.attempt = @ + 1] ELSE Failed(c, k)]
  /\ UNCHANGED <<setup, graph, last_usage>>

(***************************************************************************)
(* The backend raises: an LLMError is handled like the one of exhausted    *)
(* attempts, but at once; anything else ends the role call.                *)
(***************************************************************************)
BackendRaises(c) ==
  /\ Waiting(c)
  /\ \/ call' = [call EXCEPT ![c] = [Failed(c, call[c]) EXCEPT
           !.at = IF @ = "LLMError" THEN "raised" ELSE @]]
     \/ call' = [call EXCEPT ![c].at = "raised"]
  /\ UNCHANGED <<setup, graph, last_usage>>

Reply(c) ==
  ExecutorAnswers(c) \/ ReviewerAnswers(c) \/ FileAnswers(c) \/ Unreadable(c)

Next == Configure \/ \E c \in Sessions : Call(c) \/ Reply(c) \/ BackendRaises(c)

(***************************************************************************)
(* The backend answers every request, or the call raises.                  *)
(***************************************************************************)
Spec == Init /\ [][Next]_vars /\ \A c \in Sessions : WF_vars(Reply(c))

-------------------------------------------------------------------------------
Ended == {"returned", "LLMError", "ConfigurationError", "raised"}

(***************************************************************************)
(* Type correctness: a call's attempts stay within the larger of the two   *)
(* retry limits, and it has a result exactly when it returned.             *)
(***************************************************************************)
RolesTypeOK ==
  /\ last_usage \in [{RoleObject[c] : c \in Sessions} -> Nat]
  /\ \A c \in Sessions :
       LET k == call[c]
       IN /\ k.at \in {"idle", "asking", "backfilling"} \union Ended
          /\ k.attempt \in 0..Max({MaxRetries, BackfillRetries})
          /\ k.total \in Nat /\ k.own \in Nat
          /\ (k.at = "returned") = (k.result # Unset)
          /\ k.at = "backfilling" => k.wanted # {}

(***************************************************************************)
(* What PhaseGraph accepts is a phase graph: every constant and assumption *)
(* of the engine's model holds of it, so the engine never routes to a      *)
(* phase that does not exist nor keeps targets a kind of phase cannot use. *)
(***************************************************************************)
AcceptedIsGraph == graph \in {Unset, <<>>} \/ Graph(graph)!ValidGraph

(***************************************************************************)
(* An answer is not thrown away: LLMError is raised only after every       *)
(* attempt was used, and none of the replies held a valid answer in a      *)
(* fenced block, whatever else surrounded it.                              *)
(***************************************************************************)
AnswersAreFound ==
  \A c \in Sessions :
    /\ ~call[c].missed
    /\ call[c].at = "LLMError" => call[c].attempt = MaxRetries

(***************************************************************************)
(* The usage in a result is what that result cost: every attempt of the    *)
(* call and of each file taken, and nothing of another session's.          *)
(***************************************************************************)
UsageIsOwn ==
  \A c \in Sessions :
    call[c].at = "returned" => call[c].result.usage = call[c].own

(***************************************************************************)
(* The files of a result are the artifacts of the answer or, when it had   *)
(* none, markdown files of its handoff, in the handoff's order, each place *)
(* at most once and each with content that was obtained for it.            *)
(***************************************************************************)
FilesAreBackfilled ==
  \A c \in Sessions :
    LET k == call[c]
        named == k.output.key_artifacts
    IN k.at = "returned" /\ k.phase.kind = "executor" =>
       \/ k.files = k.output.artifacts
       \/ /\ k.output.artifacts = <<>>
          /\ \E place \in [DOMAIN k.files -> {i \in DOMAIN named : named[i].md}] :
               /\ \A i, j \in DOMAIN k.files : i < j => place[i] < place[j]
               /\ \A i \in DOMAIN k.files :
                    /\ k.files[i].ref = named[place[i]]
                    /\ k.files[i].content \notin {"empty", "json"}

(***************************************************************************)
(* A result can be routed: on an accepted graph, where every phase with a  *)
(* choice has routing rules, the engine's routing of a result never raises *)
(* TransitionError, unless the model itself named a phase it may not name  *)
(* or sent work back from a phase that has nowhere to send it.             *)
(***************************************************************************)
HasRules(phase) == Cardinality(ForwardTargets(phase)) > 1 => phase.routing # <<>>

ResultRoutes ==
  \A c \in Sessions :
    LET k == call[c]
        p == k.phase.phase_id
    IN k.at = "returned" /\ HasRules(k.phase) =>
       CASE k.result.decision = "COMPLETE" ->
              Graph(graph)!Resolve(ToSet(k.phase.on_complete), k.result.chosen_next) # BadTarget
         [] k.result.decision = "APPROVE" ->
              Graph(graph)!ReviewRoute(p, "APPROVE", k.result.chosen_next) # BadTarget
         [] k.result.decision = "REQUEST_CHANGES" ->
              \/ k.output.target_phase \notin {NoPhase} \union ToSet(k.phase.can_request_changes_from)
              \/ k.phase.can_request_changes_from = <<>>
              \/ Graph(graph)!ReviewRoute(p, "REQUEST_CHANGES", k.result.target_phase) # BadTarget

(***************************************************************************)
(* Every call of a role ends, whatever the model replies, as long as the   *)
(* backend answers each request: retries and backfill are bounded.         *)
(***************************************************************************)
CallsEnd == \A c \in Sessions : Waiting(c) ~> call[c].at \in Ended

===============================================================================
