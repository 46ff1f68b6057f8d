---------------------------- MODULE PromptContext ----------------------------
(***************************************************************************)
(* What of a context pack and of a session's history a role is shown: the  *)
(* scoping of packs to a phase (_context_impl.py, engine.py), the sections *)
(* of a prompt (llm/prompts.py) and the compression of each file           *)
(* (llm/compressor.py).  Pure operators.  A file is one chunk of a kind,   *)
(* with a number of units (lines, items, sentences, rows), some of them    *)
(* comments or front matter.  A compressed file is the number of units     *)
(* shown at its head and tail, the number it says are omitted, 0 if it     *)
(* says none, and whether it ends in a mark that the text was cut.         *)
(***************************************************************************)
EXTENDS Integers, FiniteSetsExt, SequencesExt

CONSTANTS Unset, NoPhase

(***************************************************************************)
(* accessible_packs: besides the pack itself, those of its children that   *)
(* the phase names, all of them when it names none (None, not an empty     *)
(* list).  The children are a list: a scoped pack keeps them in their      *)
(* places.                                                                 *)
(***************************************************************************)
AccessibleChildren(pack, sources) ==
  {i \in DOMAIN pack.children : sources = Unset \/ pack.children[i].context_id \in sources}

ScopedPack(pack, sources) ==
  [pack EXCEPT !.children = Restrict(@, AccessibleChildren(pack, sources))]

(***************************************************************************)
(* The compressors.  The limits of a policy are any integers: 0 means the  *)
(* default, as None does, and a negative one is taken for a slice that     *)
(* ends that far from the end.  What the simple compressor keeps of a      *)
(* block it halves without a floor: lines[-0:] is the whole list.          *)
(***************************************************************************)
Whole(n) == [head |-> n, omitted |-> 0, tail |-> 0, cut |-> FALSE]

\* The length of a list's [:limit].
Sliced(n, limit) == IF limit < 0 THEN Max({0, n + limit}) ELSE Min({n, limit})

Truncate(n, limit) ==
  IF n <= limit THEN Whole(n)
  ELSE [Whole(Sliced(n, limit)) EXCEPT !.omitted = n - limit]

\* Mutant of CollapseCode: the half of a limit of one is nothing.
CollapseCodeInHalf(n, limit) ==
  LET half == limit \div 2
  IN IF n <= limit THEN Whole(n)
     ELSE [Whole(Min({n, half})) EXCEPT
             !.omitted = n - 2 * half, !.tail = IF half = 0 THEN n ELSE Min({n, half})]

CollapseCode(n, limit) ==
  LET half == Max({1, limit \div 2})
  IN IF n <= limit THEN Whole(n)
     ELSE [Whole(Min({n, half})) EXCEPT !.omitted = n - 2 * half, !.tail = Min({n, half})]

CollapseCodeBlocks(n, limit) ==
  LET half == limit \div 2
  IN IF n <= limit THEN Whole(n)
     ELSE [Whole(half) EXCEPT !.omitted = n - limit, !.tail = IF half = 0 THEN n ELSE half]

\* Of a stripped diagram only its language is shown.
ApplyChunkPolicy(file, policy) ==
  LET Or(default) == IF policy.limit = 0 THEN default ELSE policy.limit
  IN CASE policy.action = "truncate" /\ file.kind = "list" -> Truncate(file.size, Or(5))
       [] policy.action = "truncate" /\ file.kind # "list" -> Truncate(file.size, Or(3))
       [] policy.action = "collapse" /\ file.kind \in {"code", "diagram"} ->
            CollapseCode(file.size, Or(6))
       [] policy.action = "collapse" /\ file.kind = "table" -> Truncate(file.size, Or(3))
       [] policy.action = "strip" /\ file.kind = "diagram" -> Whole(0)
       [] OTHER -> Whole(file.size)

DefaultPolicies ==
  [kind \in {"heading", "paragraph", "list", "code", "table", "diagram"} |->
     CASE kind = "heading" -> [action |-> "keep", limit |-> 0]
       [] kind = "paragraph" -> [action |-> "truncate", limit |-> 3]
       [] kind = "list" -> [action |-> "truncate", limit |-> 5]
       [] kind = "code" -> [action |-> "collapse", limit |-> 6]
       [] kind = "table" -> [action |-> "collapse", limit |-> 3]
       [] kind = "diagram" -> [action |-> "strip", limit |-> 0]]

PolicyFor(file, compression) ==
  IF file.kind \in DOMAIN compression.policies THEN compression.policies[file.kind]
  ELSE DefaultPolicies[file.kind]

\* What MarkdownCompressor keeps: comments and front matter go without a word.
Markdown(file) ==
  LET n == file.size - file.noise
  IN IF file.kind \in {"code", "diagram"} THEN CollapseCodeBlocks(n, 6) ELSE Whole(n)

(***************************************************************************)
(* The slice [:max] of a compressed text, and the mark that it was cut.    *)
(* The mark for what is omitted stands between head and tail; the units of *)
(* the text stand for its characters.                                      *)
(***************************************************************************)
CutAt(text, max) ==
  LET length == text.head + text.tail
      kept == Sliced(length, max)
  IN IF max = Unset \/ length <= max THEN text
     ELSE [head |-> Min({text.head, kept}),
           omitted |-> IF kept > text.head THEN text.omitted ELSE 0,
           tail |-> kept - Min({text.head, kept}),
           cut |-> TRUE]

\* _resolve_compressor, and compress of the compressor it makes.
Compress(file, injection) ==
  LET compression == injection.compression
      text == CASE compression.mode = "none" -> Whole(file.size)
                [] compression.mode = "semantic" ->
                     ApplyChunkPolicy(file, PolicyFor(file, compression))
                [] compression.mode = "simple" -> Markdown(file)
  IN CutAt(text, injection.max_file_chars)

(***************************************************************************)
(* request_section: the files of the pack and of its scoped children that  *)
(* are not blocked and, if some are asked for, are among these.  What is   *)
(* listed is told apart by where it comes from: 0 for the pack itself, the *)
(* place of a child.                                                       *)
(***************************************************************************)
ShouldInclude(name, injection) ==
  /\ name \notin injection.file_blocklist
  /\ injection.file_allowlist = {} \/ name \in injection.file_allowlist

Places(pack, injection) ==
  {0} \union (IF injection.include_children THEN DOMAIN pack.children ELSE {})

PackAt(pack, place) == IF place = 0 THEN pack ELSE pack.children[place]

RequestSection(pack, injection) ==
  IF ~injection.include_request_files THEN {}
  ELSE UNION {LET from == PackAt(pack, place)
              IN {[place |-> place, from |-> from.context_id, file |-> f,
                   text |-> Compress(f, injection)] :
                    f \in {g \in from.request_files : ShouldInclude(g.name, injection)}} :
              place \in Places(pack, injection)}

DiscoverySection(pack, injection) ==
  IF ~injection.include_discovery \/ pack.discovery_handoff = Unset THEN {}
  ELSE injection.discovery_sections \intersect pack.discovery_handoff.sections

(***************************************************************************)
(* _determine_preceding_phase: of the entries of other phases, the one     *)
(* that ended last; the sort is stable and puts reviews after iterations.  *)
(***************************************************************************)
\* Mutant of PrecedingPhase: the last entry in the order of the containers.
LastListedPhase(iterations, reviews, current) ==
  LET all == iterations \o reviews
      others == {i \in DOMAIN all : all[i].phase_id # current}
  IN IF others = {} THEN NoPhase ELSE all[Max(others)].phase_id

PrecedingPhase(iterations, reviews, current) ==
  LET all == iterations \o reviews
      others == {i \in DOMAIN all : all[i].phase_id # current}
      Later(i, j) == \/ all[i].ended_at > all[j].ended_at
                     \/ all[i].ended_at = all[j].ended_at /\ i >= j
  IN IF others = {} THEN NoPhase
     ELSE all[CHOOSE i \in others : \A j \in others : Later(i, j)].phase_id

(***************************************************************************)
(* The history as the positions of its entries that are shown: those of    *)
(* the phase and of the preceding one, or all; of these the newest, and    *)
(* how many older ones are summarised.  With a window of 0 the Python      *)
(* slices keep every entry.                                                *)
(***************************************************************************)
Window(kept, max) ==
  LET shown == IF max \in {Unset, 0} THEN kept
               ELSE {i \in kept : Cardinality({j \in kept : j >= i}) <= max}
  IN [shown |-> shown, older |-> Cardinality(kept \ shown)]

ContextSection(history, current, efficiency) ==
  LET allowed == {current, PrecedingPhase(history.iterations, history.reviews, current)}
      Kept(entries) ==
        {i \in DOMAIN entries : efficiency.phase_filter => entries[i].phase_id \in allowed}
  IN [iterations |-> Window(Kept(history.iterations), efficiency.max_history_entries),
      reviews |-> Window(Kept(history.reviews), efficiency.max_history_entries),
      previous_decision |-> history.previous_decision]

(***************************************************************************)
(* The parts of the system prompt (executor_prompts, reviewer_prompts).    *)
(* The workflow's finding categories are left out when the role names its  *)
(* own, which role_section lists.                                          *)
(***************************************************************************)
SystemParts(kind, role, efficiency) ==
  (IF role.configured THEN {"role"} ELSE {})
    \union (IF role.configured /\ role.categories THEN {"role categories"} ELSE {})
    \union {kind}
    \union (IF kind = "review" /\ role.quality_gates THEN {"gates"} ELSE {})
    \union (IF /\ kind = "review" /\ role.workflow_categories
               /\ ~(role.configured /\ role.categories)
            THEN {"workflow categories"} ELSE {})
    \union (IF ~role.structured /\ efficiency.schema_format # "none" THEN {"schema"} ELSE {})
    \union (IF efficiency.output_budget THEN {"budget"} ELSE {})

===============================================================================
