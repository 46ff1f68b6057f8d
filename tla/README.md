# A formal model of pawc-kit

pawc-kit runs *phase graphs*: executor roles produce work with a confidence
score, review roles (or people) approve it or send it back, and an engine takes a
durable session through the graph, across pauses, crashes, retries and
injected human decisions. This directory holds TLA+ modules translated from
the code under `src/pawc_kit/`, the TLC configurations that check them on small
instances, and theorems checked by TLAPS for every instance.

Contents: 1 the system; 2 the modules; 3 the abstractions; 4 the runs; 5 fairness;
6 the proofs; 7 what the checks found; 8 what is not modelled; 9 the plan;
10 how to run it.

## 1. The system

| component | state | operations | what is hard | what makes it correct |
|---|---|---|---|---|
| workflow engines, `workflow/engine.py` (sync and async) | per `run()` call: the `StoredSession` last seen; per engine object: `_metadata`, `_applied_human_reviews` | `run()`: load or initialize, start or resume, the executor loop, the review step, transitions, finalization, signals | a crash, PAUSE, CANCEL, or an exception after each durable write; overlapping calls; engine state shared between runs; decisions injected from outside | each change of the record is justified by the record; caps and limits hold; a decision is acted upon once; every loop ends |
| phase graph, `workflow/graph.py` | immutable | validation; targets of a phase | multi-target routing, missing or wrong choices | routing only follows edges |
| session record, `contracts/state.py`, `ports/state.py` | status, current phase, iteration and review logs, feedback counter, metadata, revision | append an iteration or a review, replace a stub, move, finish | numbers and counters that are derived from the logs | numbering, counter and logs agree |
| run controller, `ports/controller.py` | a signal | `check()` | where it is asked | PAUSE is resumable, CANCEL final |
| state stores, `adapters/fs/state_store.py`, `testing/state_store.py` | the record, its revision | `load`, `initialize`, `save` with an expected revision, `delete` | two files per record; a check and a write | a save never overwrites what its caller has not seen |
| artifact stores, `adapters/fs/artifact_store.py` | handoffs and decisions by phase and sequence number, files | `save_handoff`, `save_decision`, `save_file`, `load_artifact` | written before the record names them; overwritten by retries | references resolve, to the right content |
| context pack writer, `adapters/fs/context.py` | metadata (approved, finalized), discovery files, questions | `initialize`, `write_discovery_file`, `append_question`, `update_question`, `finalize` | read-modify-write of one file; completion before locking | a locked pack is final; a completed discovery left its handoff there |
| roles and invokers, `workflow/roles.py`, `adapters/local_invoker.py` | registered roles | `invoke_executor`, `invoke_reviewer` | answers the graph does not allow | an illegal answer changes nothing durable |
| LLM roles, `llm/roles.py`, `llm/prompts.py` | `last_usage` of a role object | build a prompt, turn structured output into results, ask again for missing files | quality gates, defaults for targets, backfill, concurrent calls | a routable result or an error; its usage is its own |
| structured output, `llm/structured.py`, `llm/backend.py` | attempts, usage | ask, parse, retry | retry bound, accumulated usage, an answer among other JSON | stops, counts every attempt, finds an answer in a fenced block |
| context compressor, `llm/compressor.py` | none | shorten the chunks of a file by policy, cut a text at `max_chars` | halves of small limits, negative limits, what goes without a word | nothing is shown twice, what a policy leaves out is counted |
| context packs, `_context_impl.py` | files on disk | load, validate, compose two levels, scope to a phase | two sets of rules for the same files, a pack composed of itself, partial packs | a pack that is validated has its request; a role sees what its phase may see |
| sessions and their configuration, `session.py`, `async_session.py`, `_session_config.py` | role bindings | resolve the graph and settings, build an engine for each run | concurrent runs of one session object | the documented order; runs do not mix |
| configuration, `contracts/config.py`, `config/loader.py` | immutable | parse, validate | schema rules | rejects what the graph would reject |
| observers and events, `contracts/events.py`, `adapters/otel.py`, `adapters/logging.py` | open spans by session, counters | `on_event` | calls that end with events unsaid, resumed sessions | each span opened is held or closed, and hangs under its own parent |
| runtime factories, contracts and validators, test kit, templates | none | construct, validate | none | schemas |

The engine calls roles through an invoker, saves artifacts *before* the record
that names them, saves the record with the revision it last saw, and emits an
event *after* each save. People and other tools reach a session only through its
store: they load the record, replace a `PENDING` review entry by a decision and
save it. `run()` returns at a `PENDING` stub, at a question, at PAUSE or CANCEL,
at a terminal status, or by an exception; calling it again resumes from the
record. So the behaviour worth modelling is a loop that may end after any
durable write, with everything in memory lost, and begin again, perhaps twice at
the same time.

Each save is followed by events; an observer turns them into spans and counters.
An LLM-backed role asks a model through structured output, which retries, and asks
again for files the answer names but does not hold. What it shows the model is a
context pack (written by discovery sessions, loaded and scoped to the phase) and
the session's history.

The hazards listed in `PROJECT.json` name the lines where that bites, and the
properties that watch each.

## 2. The modules

| module | models | notes |
|---|---|---|
| `PhaseGraph` | a validated graph (`ValidGraph`, what an engine may take for granted); `_resolve_target`, `_resolve_review_transition` | pure operators over constants; target lists as sets |
| `SessionState` | the record, its revision, `_count_*`, `_build_*`, `_commit_*`, the conclusion of an iteration | pure operators |
| `DurableSession` | abstract specification: what a reader of the store may rely on | ten actions, each justified by the record alone |
| `WorkflowEngine` | `run()` of both engines, `_run_executor`, `_run_review`, `_apply_committed_review`, `_finalize`, `_check_signal`, the stores as the engine uses them, people | the core |
| `MCReviewLoop`, `MCHumanGate`, `MCRouting` | instances: a review loop, discovery with a human gate, branching | graphs taken from `templates/` |
| `TracedEngine` | the engine with the events of each step, their emission, and the spans and counters of `adapters/otel.py` | extends `WorkflowEngine` |
| `MCTracedEngine` | a discovery with a reviewer role and a person | |
| `PhaseConfig` | from configuration to graph: `from_config`, `from_discovery_config`, `_validate`, `resolve_chosen_next`, `_SessionConfig.resolve`, `_validate_bindings` | pure operators; target lists as sequences |
| `LLMRoles` | concurrent role calls: configuration, structured output with retries, gates, targets, rules, backfill, usage | extends `PhaseConfig` |
| `MCLLMRoles` | a family of configurations, replies, two sessions | |
| `PromptContext` | scoping, the sections of a prompt, the history window, compression | pure operators |
| `ContextPack` | `FsContextPackWriter` write by write, the loader, the validators, a role's prompt | extends `PromptContext` |
| `MCContextPack` | a parent and a child pack, settings of prompts | |
| `SnapshotStore` | abstract specification: a store that compares the records themselves | five actions |
| `FsStateStore` | `FsStateStore`: `state.json` and `.state.json.revision`, one action for each file touched | clients, crashes |
| `MCFsStateStore` | one process, two processes | |
| `PositionLemmas` | the first and last of a set of positions, which the models use for "the first entry that" and "the last entry of" | TLAPS |
| `WorkflowEngineProofs` | lemmas on the operators of `SessionState`; the inductive invariant `Inv` | TLAPS |
| `SessionRecordProofs` | numbering and feedback counter; `WorkflowEngine` implements `DurableSession` | TLAPS |
| `CallerProofs` | what holds for one caller for each session, or one engine for each caller | TLAPS |
| `TracedEngineProofs` | spans, totals and counters | TLAPS |
| `LLMRolesProofs` | accepted graphs, results, files, answers, usage | TLAPS |
| `ContextPackProofs` | the writer's files, prompts, compression, history | TLAPS |
| `FsStateStoreProofs` | `FsStateStore` implements `SnapshotStore` | TLAPS |

The proof modules form a chain, `PositionLemmas`, `WorkflowEngineProofs`,
`SessionRecordProofs`, `CallerProofs`, `TracedEngineProofs`; the other three stand alone
or use `PositionLemmas`.

`WorkflowEngine` extends `SessionState`, which extends `PhaseGraph`, and
instantiates `DurableSession` with the same constants and the same `store`.
`FsStateStore` stands beside it and instantiates `SnapshotStore`, with the state file
as the record: it shows that the atomic store of `WorkflowEngine` is a fair
picture of the two files, and for whom. `TracedEngine` conjoins each engine action
with the events it queues. `PhaseConfig` instantiates `PhaseGraph` for the list of
phases a configuration yields: what `WorkflowEngine` assumes of its constants,
`ValidGraph`, is there an invariant (`AcceptedIsGraph`) of the code that builds
them, and its routing is what a role's result is tried against (`ResultRoutes`).

### A call and its places

`run[r]` is the call in flight of runner `r`: `stored` is `runtime.stored`,
`result` the role's last answer, `previous` the review entry shown to the executor
(`history.previous_decision`, as a position of the log), and `pc` the place
where it may be suspended or die:

| `pc` | in the code | leaves by |
|---|---|---|
| `idle` | no call | `Open` |
| `missing` | `load` raised `StateNotFoundError` | `Initialize` |
| `opened` | loaded | `Start`, `Resume`, `ReturnTerminal` |
| `work` | top of the executor loop, where the signal is checked | `Execute`, `Pause`, `Cancel` |
| `produced`, `filed`, `published` | handoff saved; files written to the pack; canonical handoff written | `PublishFiles`, `PublishHandoff` or `AbandonWithoutHandoff`, `CommitIteration` |
| `committed` | iteration saved | `StopForQuestion`, `Repeat`, `GiveUp`, `LeaveExecutor` |
| `review` | entry of `_run_review` | `ApplyDecision`, `AskHuman`, `InvokeReviewer` |
| `reviewed` | decision artifact saved | `CommitReview` |
| `judged` | review saved, where the signal is checked | `ConcludeReview`, `Pause`, `Cancel` |
| `lock` | session saved as completed, pack not yet locked | `LockPack` |

`Interrupt` may end a call at any place. Each action covers the code from one
durable write, exclusive, to the next, inclusive. `Save` is the same in all
actions: it succeeds and takes the next revision, or finds another revision, and
`ConcurrencyError` ends the call.

`store`, `artifacts` and `pack` are what survives a call; `applied` and `metadata`
belong to an engine object, which a caller may reuse or share; `interrupts`
counts `Pause`, `Cancel` and `Interrupt`; `departures` is a history variable
that only properties read.

### Events and spans

`queue[r]` holds the events of the last write of call `r`, which the call emits one
by one (`Emit`) before its next step. `spans[s]` is `_active_spans[s]`, with two
counts that the spans themselves carry: how many have been started and not ended,
and the tokens the children of the run span report. `usage[r]` is
`_Runtime.total_tokens`, `counted[s]` the iteration and review counters. A call may
end early in three ways: `Raise`, after which `RunFailed` is emitted; `Abort`, a
cancellation that `except Exception` does not catch; `Die`, the process with all
calls and spans.

### Role calls

`call[c].at` is where the role call of session `c` waits: `asking` for the answer,
`backfilling` for the first of `wanted`, which holds positions of the handoff's list
of files, or one of its ends. Each action of `Reply`
is one return of `backend.complete` with all that follows up to the next request
or the end. `last_usage` belongs to the role object, `RoleObject[c]`. `own` and
`missed` are history fields.

### Packs

`disk[id]` is the directory of a pack, `running` the writer's operation with
the writes still to be made: `WriteNext` makes one (`atomic_write`), `Crash` drops the
rest. `AddByHand` is someone who puts a file into `request/`. `Load` is `load_context_pack`
on what is there, `Assemble` one prompt of it. A loaded pack keeps its children as a
list, as the code does, and what a prompt shows is told apart by the place it comes
from: 0 for the pack, the index of a child.

## 3. The abstractions

- A score stands for the whole content of an iteration, its handoff and files; a
  decision for the content of a decision artifact. Artifacts are named by phase
  and sequence number, as in `FsArtifactStore`.
- Summaries, timestamps, role ids, most contents of events and log
  lines are left out. A token count is one number. `completed_at` is a function of the status.
- Target lists are sets. The code only tests them for emptiness, length 1 and
  membership; a list that names one target twice would count as several there,
  and is not an instance of the model.
- A read is merged with the local steps around it, up to the next durable
  write. A read of the store by `run()` is `Open`; the engine never reads the
  record again within a call.
- The sync engine is the async one without a context pack (`HasPack` FALSE). It
  finalizes on CANCEL inside `_check_signal`, the async one in the handler of
  `_CancelRequested`: the same write, the model's `Cancel`.
- A role result is any member of a set of results, those the graph does not
  allow included. An exception from a role, an observer, a store or
  a validation is an `Interrupt`.
- `Inject` is not code of the repository. It stands for the tool that replaces
  a `PENDING` entry, as `docs/workflow-config-reference.md` and the tests of
  human reviews do.
- The store of `WorkflowEngine` is atomic. `FsStateStore` takes it apart.
- In `FsStateStore` a record is the list of the saves that led to it, which tells any
  two records apart that were made differently. `atomic_write` (a temporary
  file and `os.replace`) is one step on its file. A run directory has one
  session, so the comparison of session ids is left out; `list` and
  `list_sessions` only read. An error ends the run of its caller, as in the
  engine: the caller then holds nothing and loads again.
- In `LLMRoles` a reply is a sequence of pieces: JSON that is or is not an answer, or
  is broken, fenced or not, on one line or several. Prose between them is left out, and
  so is the length of the pause between attempts. The sync stack is the async one
  with nothing in between.
- In `ContextPack` one operation of the writer runs at a time, as in one thread or one
  awaiting task; `write_discovery_file` writes documents, not `q-and-a.json`.
  A document is whole, malformed or without parts. The request files of one pack are a
  set, as they are a dictionary of the code; each is directly in `request/` or not, and
  decodes as UTF-8 or not. A file of the config snapshot that does not decode makes
  `initialize` raise between two writes, which is the model's `Crash`.
- In `PromptContext` a file is one chunk of a kind and a number of units (lines,
  items, sentences, rows), some of them comments or front matter. The units also stand
  for the characters that `max_chars` counts, and what `[:max_chars]` leaves is a number
  of units of the head, then of the tail. The splitting and classification of text,
  blank lines and all wording are left out.

## 4. The runs

| run | instance | question | expected |
|---|---|---|---|
| `Routing` | one runner on branching phases, a phase cap of 3 above the engine's 1, a floor, five results, illegal choices, one interruption | is the record consistent with itself and with the artifacts, is each change justified, does the cap hold but for interruptions? | pass |
| `ReviewLoopFair` | `FairSpec`, legal answers, one interruption | does each session end, and within which budget of iterations? | pass |
| `TwoRunners` | two runners with an engine each, one session | does the revision check hold, is the metadata the session's? | pass |
| `HumanGate` | discovery with a pack, questions, people, one interruption | what do a completed session and a locked pack guarantee; is a decision acted upon once in a run? | pass |
| `Tracing` | `TracedSpec`, a discovery with a reviewer role and a person, two interruptions | are spans, counters and totals those of the record? | pass |
| `LLMRoles` | some hundreds of configurations with one session each, and one with two; one retry, one backfill attempt | is an accepted graph runnable; do calls end, and with a result that is routable, complete and paid for? | pass |
| `ContextPack` | a parent and a child that may compose themselves and each other, three operations, crashes; then a load and a prompt | is what was written kept, has a validated pack its request, is what is shown allowed, and the rest counted? | pass |
| `StoreTurns` | two processes taking turns, no crash, four saves | do the two files compare as the records would? | pass |
| `StoreCrash` | one process, four crashes, deletions, four saves | is a save accepted exactly when it was made from the stored record? | pass |
| `BareSendBack` | send-backs without `target_phase` | `FindingsReachExecutor` | violation |
| `HumanGateAsking` | questions, no interruption | `DecisionsUsedOnce` | violation |
| `SharedUsage` | two sessions, one role object | `UsageIsOwn` | violation |

Bounds of the model: `MaxWork` and `MaxReviews` limit the two logs of a session,
`MaxInterrupts` the interruptions. They appear only as guards of `Execute`,
`AskHuman`, `InvokeReviewer` and `MayInterrupt`. Two iterations per visit and
two to four reviews are enough for a retry after a crash, for a send-back and
a second round, for a cap to be reached and for a stub to be answered, asked
again and answered once more. One interruption may fall at any place of any
round; a second one in the runs that expect a pass would only repeat it from a
later record, since all memory of a call is gone after the first. Where a run
needs the full length (`ReviewLoopFair`) the bounds do not bind: the limits of
the code stop the loops first, and deadlock is checked. In the other
runs a session at its bound has no next step, and a session may wait for a person
for ever, so `CHECK_DEADLOCK` is off.

In `FsStateStore`, `MaxSaves` bounds the length of a record and `MaxCrashes` the
crashes: enough for one in each of `save`, `initialize`, `delete` and a `load`, in any
order, with a save between any two. Saves that go on after the last one
have no counterpart, so deadlock is not checked there either.

In `LLMRoles` the limits of retries are 1: the first, the last and the exhausted
attempt are then all there. The configurations are each of a few ways to fill in three
phases, right and wrong (unknown, duplicate and missing targets, targets of
the wrong kind, rules that lead elsewhere, approvals listed too late), so that each
rule of `_validate` alone decides on some. In `ContextPack` three operations
(`MaxOps`) are an initialize that crashes, its retry and one more, or a pack with a
handoff that is locked; `MaxSize` is 2, so that a composition may be at its limit. There
are two answers, so that one may replace the other. The files are shorter and longer
than the limits of the compressors, 6, 2 and 1, and than `max_chars`; one setting has
negative limits, one a negative `max_chars`.

Scores are chosen around the limits: 40 below the floor, 70 between floor and
threshold, 90 above. No run uses symmetry: the runners differ in their engines.

## 5. Fairness

`FairSpec` asks weak fairness of `Open(r)` and `Step(r)` for each runner: a caller
retries until the session is over, and a call in flight goes on. The engine runs
one coroutine without waiting for any other, so a step that is possible stays
possible until it is taken. Nothing is asked of people, and of interruptions only
that there are finitely many (`MaxInterrupts`). Roles answer legally in the fair
run: a role that answers with an impossible target for ever makes every retry fail, in
the code too. Under this, `Terminates` shows that the caps and limits end every
loop. `IterationBudget` gives the number: `max_iterations` per phase, and
one more for each send-back and interruption. The
extra ones are real. Iterations are counted over the whole log, so a phase entered
again has used up its budget, runs once and fails or passes.

`TracedSpec` adds weak fairness of `Emit(r)`: a call emits what it has to say before
it does anything else. With it `EndIsTraced` shows that the spans of an ended session
end, unless a cancellation has kept the end from the observer.

The `Spec` of `LLMRoles` asks weak fairness of `Reply(c)`: the backend answers each
request with something, or raises. It need not answer well. `CallsEnd` is
then due to the retry and backfill limits alone.

## 6. The proofs

`WorkflowEngineProofs`: **`Spec => []Inv`** (`Invariance`), for every graph, policy,
number of sessions, runners and engines, with or without packs. `TypeOK` and
`SnapshotCurrent` follow (`TypeCorrect`, `SnapshotsCurrent`). Neither is inductive
alone. `SnapshotCurrent` (a call whose revision is the stored one holds the stored
record) is preserved by a `Save` because a revision is never used twice;
typing the record a call will save needs to know what it holds at its place:
`Formed` says which phase kind and which result each `pc` implies, and that the
entry just committed is the last of the log. `AbsentBare` is the base of the
revision argument: a session not yet created has revision 0. The proof splits
the invariant into `Core` (calls and record) and `RestTyped` (everything else), and has
a lemma for each way of touching the record (`CallStep`, `WriteStep`, `SaveStep`,
`LeaveStep`), then one per action.

`SessionRecordProofs`: **`Spec => []EntriesNumbered`** and
**`Spec => []FeedbackLoopsCounted`**. The invariant, `AllKept`, says of *both* the
stored record and each record held by a call that its logs are numbered, its
counter is right and stubs stand in human phases only. The last part is what
keeps the counter right when a person's answer replaces an entry by a
`REQUEST_CHANGES`: it is not a reviewer's.

The same module: **`Spec => DurableSpec`** (`Refinement`). Each step of the engine is a step
of `DurableSession` or leaves `store` alone. The step is justified by the record
and not by the call's memory because a save that succeeds has the stored
revision, so by `SnapshotCurrent` the call holds the stored record; by `Formed` the
result it acts on is that of the last entry. For a person's decision, the number
looked up is that of the last entry of the phase by `EntriesNumbered`.

`FsStateStoreProofs`: **`Spec => ImplementsSnapshots`** and **`Spec => CurrentSaveAccepted`**, in two
situations. For clients that take turns without crashes or deletions
(`TurnsImplement`, `TurnsAccept`), the invariant `TurnsInv` says that while nobody is
between two files, who holds the stored revision holds the stored record,
and conversely: the number and the log grow together. For one client that may crash
and delete as often as it likes (`LoneImplements`, `LoneAccepts`) the number and the
record need not match at all, since a crash in `save` leaves a new record under an old
number; `LoneInv` says instead that what the client holds, if anything, is
the stored record with the stored number, or that the record is gone. It is the crash
itself, by taking the client's memory, that makes the old number harmless. For
two clients and a crash neither holds: the one that survives may hold the
older record with the number that stayed. The types need no hypothesis
(`StoreTypeCorrect`), but are not inductive: a crash or a delete between the files is
harmless because a client never holds a record that was not written (`Known`).

### One caller, or an engine of one's own: `CallerProofs`

`TwoRunners` shows why these theorems need a hypothesis: calls that overlap on one
session overwrite each other's artifacts, handoffs and locks, and an engine object
that serves two sessions mixes their metadata. `OneCaller` says that a session has one
runner, which may make any number of calls one after the other. `OwnEngine`
says that an engine object serves one runner: `session.py` builds an engine for each run.
The hypotheses bind the shape of an instance and nothing else; interruptions,
people and illegal answers are as free as before.

| theorem | hypotheses | invariant it rests on |
|---|---|---|
| `ArtifactsCorrect` | `OneCaller` | `ArtifactReady`, `Matching`: artifacts beyond the log are attempts of the call that will commit them, or leftovers that the next attempt overwrites |
| `LockedPackCorrect` | `OneCaller` | `AllBehind` (what a call holds is not ahead of the record), `LockedDone` (a locked pack is a completed session's) |
| `HandoffCorrect` | `OneCaller` | `PackFollows`: where the session has gone past the finalize phase, the pack holds its last handoff |
| `FeedbackCapCorrect` | `OneCaller`, no human phases, some review phase, caps at least 1 | `AllFresh`, `BelowCap`: unless a judged send-back is waiting for the test of the cap, there is still room for one |
| `BudgetCorrect` | `OneCaller`, no human phases, `MaxIterations >= 1`, forward edges without a cycle, `Steady` steps | `InBudget`, below |
| `ReuseCorrect` | `OneCaller`, `OwnEngine`, `Answered` steps | `Covered`, below |
| `FindingsCorrect` | `NamesTarget` | `AllNamed`: records and memories hold named send-backs only |
| `MetadataCorrect` | `OwnEngine` | `MetadataHeld`: at work, the engine's metadata is the record's |
| `AppliedCorrect` | `OwnEngine` | `ActedUpon` |

- `NamesTarget`: a send-back names its target phase. The run `BareSendBack` is the
  counterexample without it. It asks nothing of the number of callers.
- `MaxIterations` is at least 1 by the schema (`Field(10, ge=1)`). A cap may be 0 in
  a configuration (`max_feedback_rounds`, `ge=0`) and the theorem does not speak of that:
  a send-back is counted before the cap is tested, so one is recorded even then.
  A person's send-back is not counted by `feedback_loops` and not
  tested against the cap, hence no human phases in the two bounds.
- `Forward(level)` asks for a function that grows along `on_complete` and
  `on_approve`. A graph may have such a cycle, and no limit of the code counts how often it
  is gone round. *How the budget is kept*: a phase is entered going forward
  (nothing of it is spent since the last send-back), or by a send-back, which adds 1 to
  the budget of every phase. So `InBudget` says that each phase that lies ahead of
  the session has one iteration left, and so has the phase it is at until an iteration is
  concluded; while a send-back is being judged, every phase has. It was checked by TLC on
  the graph of `ReviewLoopFair` with two interruptions before it was proved.
- `Steady` and `Answered` are premises about steps, `[][...]_vars`: they leave out the
  ends of a run that no counter records. For `Steady` these are a question and an
  executor's choice that the graph does not allow (each ends the run after the iteration
  was saved, and the next run iterates again). For `Answered` they are a target that the
  graph does not allow, and a question that finds no pack to be counted in.
- *Why a decision is used once a run*: `Covered` says that a session has never
  left human phases more often than the bound of `ReuseNeedsStop` allows, and
  that there is one departure to spare for each phase whose last decision may still be
  acted upon. It may not if the run in progress has done so (its engine remembers), if
  the session waits for a person, or if the decision leads nowhere. A run that ends
  without being counted leaves the session in one of the last two.

### Spans: `TracedEngineProofs`

`TracedTypeCorrect` and `SpansCorrect` hold for any callers, with cancellations and deaths
at any place: the books agree among themselves (`Books`). What they say of the
record needs `OneCaller`, the contract of an observer that keys spans by session.
`TotalsCorrect` and `ParentsCorrect` share the invariant `AllTracked`: a call is
silent, or has queued the events of one write, in an order that determines which spans
are open. TLC checked it on the run `Tracing`. `CommitsCorrect` adds `AllReckoned`: an
entry is counted, about to be emitted, or was cut off by one of the interruptions.

### Roles: `LLMRolesProofs`

`AcceptedCorrect` (a list of phases that `_validate` accepts satisfies `ValidGraph`),
`RoutesCorrect`, `AnswersCorrect` and `FilesCorrect` have no hypothesis. `AnswersCorrect`
is about answers in fenced blocks; one that stands bare behind another bare object is
lost by the code, and by the model. `AcceptedCorrect`
is the bridge between the modules: what the engine's theorems assume as
`GraphAssumption` is a theorem about the code that builds the graph. `RoutesCorrect` rests
on `Built` and `Routed`: a result is the one computed from the phase's definition
and the answer. `FilesCorrect` rests on `Backed`: backfilled files are distinct positions
of the handoff's list, in order, all before those still wanted. `UsageCorrect` needs
`OwnRoles`, a role object for each session, and `SharedUsage` is its counterexample.
`RolesTypeCorrect` asks that `Unset` is not a record of the shape of a result
(`UnsetIsNoResult`); it is a model value in the runs.

### Packs: `ContextPackProofs`

`Writing` is the invariant of the writer: the metadata on disk are a caller's but for
what `finalize` sets, and what an operation has still to write is what it prepared from
what it read. `PackTypeCorrect`, `QuestionsCorrect`, `LockCorrect`,
`ValidPacksCorrect` and `ScopeCorrect` ask for `Apart`: documents and configuration
files do not name `context.json` or `q-and-a.json`. The writer takes any relative path,
and the engine passes the path a role gives a file, so this is a condition on roles
that the code does not check.

- `QuestionsCorrect`: each write of the dialogue is one of the three that `Grows`
  allows. An answer may replace another; a question is not lost, nor open again.
- `ValidPacksCorrect` asks also that no document names `config.yaml` (`ConfigApart`). Its
  invariant, `Ordered`, is about the writes still to come: whoever has still to
  write the configuration writes it after the files of a request (`Covered`), and nothing
  removes a file. So a pack with a configuration has a request, whatever crashed.
- `ScopeCorrect` rests on `Reading` (a prompt is one of a pack as it was loaded; its
  children are in the order of its composition, and none is there twice) and on
  `Composed`. That a file is shown twice only by a pack that is composed of itself
  follows from `validate_composition`, and fails without it.
- `CompressionCorrect` has no hypothesis. It covers every size, every `max_chars`, and
  every limit that is not negative. What the property leaves open is what the
  code leaves open: the simple compressor and a stripped diagram count nothing.
- `HandoverCorrect` asks that each log of a setting is in the order of time, as the engine
  appends it (`Chronological`).

### Assumptions, and what is left to TLC

The proofs use the named assumptions on the constants, which TLC evaluates in every run:
`GraphAssumption` (what `PhaseGraph._validate` guarantees), `PolicyAssumption`,
`EngineAssumption`, `StoreAssumption`, `NamesAssumption`, `RolesAssumption`,
`SetupsAssumption`, `AnswersAssumption`, `PackAssumption`, `SettingsAssumption` (types of the
constants, and that sentinels are not names).

Every safety property of a passing run is stated by a theorem. The three liveness
properties `Terminates`, `EndIsTraced` and `CallsEnd` are checked by TLC only: the prover
does neither fairness nor ENABLED. The properties of the three runs that end in a
violation are false of the code.

## 7. What the checks found

Three runs show the code doing something else than a document, comment or
test says.

1. `HumanGateAsking`: the record does not tell whether a person's decision has been
   acted upon; `_applied_human_reviews` does, for one `run()`. After a
   send-back and a question, the next `run()` to reach the gate acts
   upon the old decision again and does not ask. `ReuseNeedsStop` is what does hold: it
   takes a question or an interruption, each time. The bound counts the decisions on all
   human phases together: with two of them a new decision on one leads the session to
   the other, whose old decision is then used again, so a bound for each phase fails.
2. `BareSendBack`: a send-back without `target_phase` is routed to the only target,
   but its findings are looked up by `target_phase` and not shown there.
3. `SharedUsage`: an executor role keeps the usage of its call in `last_usage`, on
   an object that all runs of an `AsyncWorkflowSession` share, and reads it again after
   awaiting a backfill. One session's result then reports another's tokens.

More was met on the way that no run is spent on:

- The feedback cap is tested only by the call that committed the send-back.
  Interrupted in between, the next call asks the reviewer again, and the count may
  exceed the cap by one for each interruption: that is the bound `FeedbackCapped` states.
- With a cap of 0 the first send-back is still committed and counted, and the session
  then abandoned.
- `_applied_human_reviews` is keyed by phase and number, not by session, and belongs
  to the engine; a resume replaces the engine's `_metadata` for good. Both need one
  engine object for two sessions; `session.py` builds one for each run.
- `require_human_approval` is judged by the order of the list of phases, though the
  error speaks of what is reachable.
- `max_history_entries: 0` keeps the whole history, and the simple compressor
  miscounts what it omits for an odd limit and repeats the block for a limit of 1 (it is
  built with 6 only).
- The limits of a policy and `max_file_chars` are integers without a lower bound. A
  negative one truncates by a slice that ends that far from the end, with a wrong count
  of what is omitted; a collapsed block of one line is shown twice.
- A stripped diagram leaves only its language, comments and front matter nothing; neither
  is counted, unlike all else that is left out. `max_chars` may cut off the count itself.
- A pack may be composed of itself: `validate_composition` looks for duplicates and the
  number of children only. It is then shown twice, as itself and as its child.
- `validate_pack` lists the request files and the loader reads them: a pack whose only
  request file is not UTF-8 passes and does not load. Without `require_discovery` so does one
  with a malformed handoff or origin.
- `update_question` gives a question that was answered a new answer without a word.
- A configuration file that comes after `config.yaml` may be missing from a pack that
  passes validation after a crash.
- `artifact_backfill_retries` of the configuration is handed on to the engine, which
  does not read it.

## 8. What is not modelled

Prompt wording, YAML parsing, schema validation, the test kit, factories and
templates keep no state or only transform text. The text side of the compressor
(splitting, classification, whitespace) is left out: the rules for each
chunk are modelled, the regular expressions that find the chunks are not.
`resolve_pack_version` and `load_snapshotted_root_config` read one file each.
Whether a transition out of a
human phase should look at CANCEL is left to the engine's documentation, which
names the two places it checks. Two processes that write to one run directory at
the same time are outside what `FsStateStore` supports by its documentation, and so
is a cancelled `AsyncFsStateStore` call whose thread goes on beside its retry. Two
operations of the context pack writer at the same time lose one of their
read-modify-writes; the engine awaits each of its own. Overlapping calls may overwrite each other's
artifacts (names carry no revision): `ArtifactsMatch` is a theorem for one
caller at a time, and the record itself is safe (`SnapshotCurrent` in `TwoRunners`, and the theorem
`Refinement` for any number of callers).

## 9. The plan

What is left, the most important first:

1. `FsArtifactStore.save_file` and the failures of a load, and two overlapping
   operations of the context pack writer.
2. The composition of `LLMRoles` with `WorkflowEngine` as its source of results; so
   far `ResultRoutes` ties the two by the routing operators they share.
3. What is left of the theorems with `OneCaller` when callers overlap: for
   artifacts, that a reference still resolves, though to another attempt's content.

## 10. Running it

```
tlc -config Routing.cfg MCRouting            # and the other configurations
tlapm WorkflowEngineProofs.tla               # then PositionLemmas, SessionRecordProofs,
                                             # CallerProofs, TracedEngineProofs,
                                             # FsStateStoreProofs, LLMRolesProofs,
                                             # ContextPackProofs
```

The operators marked "Mutant of" in the modules are plausible bugs of the
definition that follows them; `PROJECT.json` lists, for each property of each
passing run, the mutant that TLC must find to violate it.
