------------------------------ MODULE ContextPack ------------------------------
(***************************************************************************)
(* Context packs: the writer that keeps them under contexts/<id>/          *)
(* (adapters/fs/context.py), the loader and the validators                 *)
(* (_context_impl.py, validators.py), and the prompt a role is given of a  *)
(* loaded pack (PromptContext).  A pack's directory is a function from the *)
(* paths of its files to their contents.  An operation of the writer is    *)
(* the atomic writes it makes, in order; it computes them from the files   *)
(* it reads first, and a crash may fall between any two of them.  One      *)
(* operation runs at a time, as in one thread or one awaiting task.        *)
(***************************************************************************)
EXTENDS PromptContext

CONSTANTS
  Ids,          \* context ids
  Metadata,     \* [Ids -> set of metadata a caller writes]
  Snapshots,    \* what a caller initializes a pack with: [request, config], a
                \* set of files and a sequence of writes
  HandFiles,    \* [Ids -> request files that someone puts there by hand]
  Documents,    \* [Ids -> writes of discovery files]
  Questions,    \* [Ids -> question ids]
  Answers,      \* what a question may be answered with
  Settings,     \* what an assembly is given: see Assemble
  MaxSize,      \* max_composition_size
  MaxOps        \* bound on the operations of the writer

VARIABLES
  disk,         \* [Ids -> directory]
  running,      \* the operation in progress: [op, id, writes], Unset when none
  ops,          \* how many were begun
  loaded,       \* the pack last loaded, "error", or Unset
  prompt        \* what a role was shown of it, or Unset

packVars == <<disk, running, ops, loaded, prompt>>

MetaPath == "context.json"
HandoffPath == "discovery/handoff-context.json"
OriginPath == "config/discovery-origin.yaml"
ConfigPath == "config/config.yaml"
QuestionsPath == "discovery/q-and-a.json"
Subdirs == {"discovery/", "decisions/", "handoffs/"}

\* The files of request/ that there may be: [name, kind, size, noise, listed,
\* text].  Listed are those directly in it but for .gitkeep, text those that
\* decode as UTF-8; noise is how much of the size is comments.
RequestFiles ==
  UNION ({given.request : given \in Snapshots} \union {HandFiles[id] : id \in Ids})

\* The metadata of a pack name packs; files have a size and one of the kinds,
\* and a name that is not one of the writer's; what it writes is text.
ASSUME PackAssumption ==
  /\ MaxOps \in Nat /\ Unset \notin Answers
  /\ \A id \in Ids : \A meta \in Metadata[id] :
       meta \in [context_id : {meta.context_id}, composition : Seq(Ids),
                finalized : BOOLEAN, approved : BOOLEAN]
  /\ IsFiniteSet(RequestFiles)
  /\ \A f \in RequestFiles :
       /\ f.name \notin {MetaPath, ConfigPath, QuestionsPath}
       /\ f.kind \in DOMAIN DefaultPolicies /\ f.size \in Nat /\ f.noise \in 0..f.size
       /\ f.listed \in BOOLEAN /\ f.text \in BOOLEAN
  /\ \A given \in Snapshots :
       /\ given.config \in Seq(ToSet(given.config))
       /\ \A f \in given.request : f.text

\* A setting's policies have limits, its history is two logs of entries.
ASSUME SettingsAssumption ==
  \A setting \in Settings :
    LET compression == setting.injection.compression
        history == setting.history
        efficiency == setting.efficiency
    IN /\ setting.injection.include_request_files \in BOOLEAN
       /\ setting.injection.include_children \in BOOLEAN
       /\ compression.mode \in {"none", "simple", "semantic"}
       /\ \A kind \in DOMAIN compression.policies : compression.policies[kind].limit \in Int
       /\ setting.injection.max_file_chars \in Int \union {Unset}
       /\ history.iterations \in Seq(ToSet(history.iterations))
       /\ history.reviews \in Seq(ToSet(history.reviews))
       /\ \A e \in ToSet(history.iterations) \union ToSet(history.reviews) : e.ended_at \in Nat
       /\ efficiency.phase_filter \in BOOLEAN
       /\ efficiency.max_history_entries \in Nat \union {Unset}

Exists(id, path) == path \in DOMAIN disk[id]

PackInit ==
  /\ disk = [id \in Ids |-> <<>>]
  /\ running = Unset
  /\ ops = 0
  /\ loaded = Unset
  /\ prompt = Unset

--------------------------------------------------------------------------------
\* What is written and what it leaves of a directory.
File(path, content) == [p \in {path} |-> content]

Overwritten(directory, files) ==
  [p \in DOMAIN directory \union DOMAIN files |->
     IF p \in DOMAIN files THEN files[p] ELSE directory[p]]

(***************************************************************************)
(* The writer.  An operation that raises on what it reads changes nothing. *)
(***************************************************************************)
Begin(op, id, writes) ==
  /\ running = Unset /\ loaded = Unset /\ ops < MaxOps
  /\ running' = [op |-> op, id |-> id, writes |-> writes]
  /\ ops' = ops + 1
  /\ UNCHANGED <<disk, loaded, prompt>>

\* Mutant of InitializeWrites: the configuration before the request files.
ConfigFirst(meta, given) ==
  <<File(MetaPath, meta)>>
    \o given.config
    \o SetToSeq({File(f.name, f) : f \in given.request})
    \o <<[path \in Subdirs |-> Unset]>>

\* The three directories are empty and made last, in one step here.
InitializeWrites(meta, given) ==
  <<File(MetaPath, meta)>>
    \o SetToSeq({File(f.name, f) : f \in given.request})
    \o given.config
    \o <<[path \in Subdirs |-> Unset]>>

Initialize(id, meta, given) ==
  Begin("initialize", id, InitializeWrites(meta, given))

\* Someone, not the writer, puts a file into request/.
AddByHand(id, file) == Begin("by hand", id, <<File(file.name, file)>>)

WriteDiscoveryFile(id, document) == Begin("document", id, <<document>>)

\* Mutant of Finalized: without lock the pack is unlocked.
FinalizedAsAsked(meta, approved, lock) ==
  [meta EXCEPT !.approved = approved, !.finalized = lock]

\* Mutant of Finalized: new metadata that forget what the pack composes.
FinalizedAnew(meta, approved, lock) ==
  [meta EXCEPT !.approved = approved, !.finalized = @ \/ lock, !.composition = <<>>]

Finalized(meta, approved, lock) ==
  [meta EXCEPT !.approved = approved, !.finalized = @ \/ lock]

Finalize(id, approved, lock) ==
  /\ Exists(id, MetaPath)
  /\ Begin("finalize", id,
           <<File(MetaPath, Finalized(disk[id][MetaPath], approved, lock))>>)

UpdateMetadata(id, meta) ==
  Begin("update", id, <<File(MetaPath, meta)>>)

Entries(id) == IF Exists(id, QuestionsPath) THEN disk[id][QuestionsPath] ELSE <<>>

\* Mutant of Appended: the file is begun again with the question.
AppendedOver(entries, question) == <<[id |-> question, answer |-> Unset]>>

Appended(entries, question) == Append(entries, [id |-> question, answer |-> Unset])

AppendQuestion(id, question) ==
  Begin("question", id,
        <<File(QuestionsPath, Appended(Entries(id), question))>>)

(***************************************************************************)
(* The first entry with the id gets the answer, one answered already a new *)
(* one; without such an entry the file is rewritten as it was.             *)
(***************************************************************************)
Answered(entries, question, answer) ==
  LET found == {i \in DOMAIN entries : entries[i].id = question}
  IN IF found = {} THEN entries
     ELSE [entries EXCEPT ![Min(found)] = [@ EXCEPT !.answer = answer]]

UpdateQuestion(id, question, answer) ==
  /\ Exists(id, QuestionsPath)
  /\ Begin("answer", id,
           <<File(QuestionsPath, Answered(Entries(id), question, answer))>>)

WriteNext ==
  /\ running # Unset /\ running.writes # <<>>
  /\ disk' = [disk EXCEPT ![running.id] = Overwritten(@, Head(running.writes))]
  /\ running' = [running EXCEPT !.writes = Tail(@)]
  /\ UNCHANGED <<ops, loaded, prompt>>

Return ==
  /\ running # Unset /\ running.writes = <<>>
  /\ running' = Unset
  /\ UNCHANGED <<disk, ops, loaded, prompt>>

Crash ==
  /\ running # Unset /\ running.writes # <<>>
  /\ running' = Unset
  /\ UNCHANGED <<disk, ops, loaded, prompt>>

--------------------------------------------------------------------------------
(***************************************************************************)
(* The loader reads the listed request files that are text; the validator  *)
(* only lists them.                                                        *)
(***************************************************************************)
ListedFiles(id) ==
  {f \in RequestFiles : f.listed /\ Exists(id, f.name) /\ disk[id][f.name] = f}

ReadRequestFiles(id) == {f \in ListedFiles(id) : f.text}

\* An optional document is absent or parses; an envelope has a part.
WellFormed(id, path) == Exists(id, path) => disk[id][path].form = "whole"

LoadContextMetadata(id) == Exists(id, MetaPath) /\ disk[id][MetaPath].context_id = id

LeafLoads(id) ==
  /\ LoadContextMetadata(id)
  /\ ReadRequestFiles(id) # {}
  /\ WellFormed(id, HandoffPath)
  /\ WellFormed(id, OriginPath)

LoadLeafPack(id) ==
  [context_id |-> id,
   composition |-> disk[id][MetaPath].composition,
   request_files |-> ReadRequestFiles(id),
   discovery_handoff |-> IF Exists(id, HandoffPath) THEN disk[id][HandoffPath] ELSE Unset,
   children |-> <<>>]

\* Mutant of ValidateComposition: a pack may be composed of another twice.
ValidateSize(composition) == Len(composition) <= MaxSize

\* A pack may be composed of itself: only duplicates are refused.
ValidateComposition(composition) ==
  /\ IsInjective(composition)
  /\ Len(composition) <= MaxSize

ChildrenResolve(composition) ==
  /\ ValidateComposition(composition)
  /\ \A i \in DOMAIN composition : LeafLoads(composition[i])

LoadContextPack(id) ==
  LET composition == disk[id][MetaPath].composition
  IN IF LeafLoads(id) /\ ChildrenResolve(composition)
     THEN [LoadLeafPack(id) EXCEPT
             !.children = [i \in DOMAIN composition |-> LoadLeafPack(composition[i])]]
     ELSE [error |-> id]

Load(id) ==
  /\ loaded = Unset
  /\ loaded' = LoadContextPack(id)
  /\ UNCHANGED <<disk, running, ops, prompt>>

--------------------------------------------------------------------------------
(***************************************************************************)
(* The validators of a pack: with require_discovery its origin and its     *)
(* handoff must be there and whole, and the artifacts it refers to exist;  *)
(* a finalized pack has finalized children.                                *)
(***************************************************************************)
ValidateHandoffRefs(id) == \A ref \in disk[id][HandoffPath].refs : Exists(id, ref)

ValidateFinalization(id) ==
  LET meta == disk[id][MetaPath]
  IN meta.finalized => \A i \in DOMAIN meta.composition :
                          LET child == meta.composition[i]
                          IN Exists(child, MetaPath) /\ disk[child][MetaPath].finalized

DiscoveryIsValid(id) ==
  /\ Exists(id, OriginPath) /\ WellFormed(id, OriginPath)
  /\ Exists(id, HandoffPath) /\ WellFormed(id, HandoffPath)
  /\ ValidateHandoffRefs(id)

ValidatePack(id, requireDiscovery) ==
  /\ Exists(id, ConfigPath)
  /\ ListedFiles(id) # {}
  /\ requireDiscovery => DiscoveryIsValid(id)
  /\ ValidateFinalization(id)

--------------------------------------------------------------------------------
(***************************************************************************)
(* A role call of a phase: the engine scopes the pack to the phase's       *)
(* context sources, the prompts show the scoped pack and the history.      *)
(***************************************************************************)
Prompt(pack, setting) ==
  LET scoped == ScopedPack(pack, setting.sources)
  IN [setting |-> setting,
      request |-> RequestSection(scoped, setting.injection),
      discovery |-> DiscoverySection(scoped, setting.injection),
      context |-> ContextSection(setting.history, setting.phase_id, setting.efficiency),
      system |-> SystemParts(setting.kind, setting.role, setting.efficiency)]

Assemble(setting) ==
  /\ loaded # Unset /\ "error" \notin DOMAIN loaded /\ prompt = Unset
  /\ prompt' = Prompt(loaded, setting)
  /\ UNCHANGED <<disk, running, ops, loaded>>

WriterNext ==
  \E id \in Ids :
    \/ \E meta \in Metadata[id], given \in Snapshots : Initialize(id, meta, given)
    \/ \E file \in HandFiles[id] : AddByHand(id, file)
    \/ \E document \in Documents[id] : WriteDiscoveryFile(id, document)
    \/ \E approved, lock \in BOOLEAN : Finalize(id, approved, lock)
    \/ \E meta \in Metadata[id] : UpdateMetadata(id, meta)
    \/ \E question \in Questions[id] : AppendQuestion(id, question)
    \/ \E question \in Questions[id], answer \in Answers : UpdateQuestion(id, question, answer)

PackNext ==
  \/ WriterNext
  \/ WriteNext \/ Return \/ Crash
  \/ \E id \in Ids : Load(id)
  \/ \E setting \in Settings : Assemble(setting)

PackSpec == PackInit /\ [][PackNext]_packVars

--------------------------------------------------------------------------------
(***************************************************************************)
(* Properties.                                                             *)
(***************************************************************************)
\* What every variable holds: the metadata on disk is one a caller wrote,
\* but for the flags finalize sets.
PackTypeOK ==
  /\ ops \in 0..MaxOps
  /\ \A id \in Ids : Exists(id, MetaPath) =>
       \E meta \in Metadata[id] :
          [disk[id][MetaPath] EXCEPT !.approved = meta.approved, !.finalized = meta.finalized]
            = meta
  /\ running # Unset => running.id \in Ids

\* A record of a dialogue keeps every entry in its place; it gets an open one
\* at the end, or the first entry with some id is answered.
Grows(old, new) ==
  LET changed == {i \in DOMAIN old : new[i] # old[i]}
  IN /\ Len(new) \in {Len(old), Len(old) + 1}
     /\ \A i \in DOMAIN new \ DOMAIN old : changed = {} /\ new[i].answer = Unset
     /\ \A i \in DOMAIN old : new[i].id = old[i].id
     /\ \A i \in changed : /\ changed = {i} /\ new[i].answer # Unset
                          /\ \A j \in DOMAIN old : old[j].id = old[i].id => i <= j

\* No question of a discovery dialogue is lost, and none that was answered is
\* open again, over crashes and retries; an answer may be replaced by another
\* (context.py append_question, update_question).
QuestionsOnlyGrow == [][\A id \in Ids : Grows(Entries(id), Entries(id)')]_disk

\* Once locked a pack stays locked whatever finalize, a question or a
\* discovery document does; only a caller's own metadata replaces the lock.
LockIsKept ==
  [][\A id \in Ids :
       /\ Exists(id, MetaPath) /\ disk[id][MetaPath].finalized
       /\ running # Unset /\ running.op \in {"finalize", "document", "question", "answer"}
       => disk'[id][MetaPath].finalized]_disk

\* A pack that validate_pack passes is not what a crash left of initialize,
\* as far as its request goes: it has a file under each name of some request
\* that a caller initializes it with, one with a configuration (context.py
\* initialize, _context_impl.py validate_pack).
ValidPackIsWhole ==
  \A id \in Ids, requireDiscovery \in BOOLEAN :
    LoadContextMetadata(id) /\ ValidatePack(id, requireDiscovery) =>
      \E given \in Snapshots :
        /\ \E i \in DOMAIN given.config : ConfigPath \in DOMAIN given.config[i]
        /\ \A f \in given.request : Exists(id, f.name)

\* A role is shown the allowed files of the pack and of those the pack itself
\* is composed of and its phase names, and no other; under one name from one
\* pack it is shown one text, unless the pack is composed of itself.
PromptInScope ==
  prompt # Unset /\ prompt.setting.injection.include_request_files =>
    LET setting == prompt.setting
        inScope == {loaded.context_id} \union
          {id \in ToSet(loaded.composition) :
             /\ setting.injection.include_children
             /\ setting.sources = Unset \/ id \in setting.sources}
        packs == {loaded} \union Range(loaded.children)
    IN /\ {<<s.from, s.file>> : s \in prompt.request} =
            UNION {{<<p.context_id, f>> : f \in
                      {g \in p.request_files : ShouldInclude(g.name, setting.injection)}} :
                   p \in {q \in packs : q.context_id \in inScope}}
       /\ \A s, t \in prompt.request :
            s.from = t.from /\ s.file.name = t.file.name =>
               \/ s = t
               \/ s.from = loaded.context_id /\ s.from \in ToSet(loaded.composition)

\* Of a compressed file nothing is shown twice, and what is left out is
\* counted, said to be cut, or a diagram of which nothing is shown; comments
\* and front matter the simple compressor takes out without a word.  A policy
\* with a negative limit does neither (compressor.py, contracts/config.py).
NothingShownTwice ==
  prompt # Unset =>
    LET compression == prompt.setting.injection.compression
    IN \A s \in prompt.request :
         compression.mode # "semantic" \/ PolicyFor(s.file, compression).limit >= 0 =>
           LET size == s.file.size - IF compression.mode = "simple" THEN s.file.noise ELSE 0
               shown == s.text.head + s.text.tail
           IN /\ shown <= size
              /\ \/ shown + s.text.omitted = size
                 \/ s.text.cut
                 \/ s.file.kind = "diagram" /\ shown = 0

\* With a window of at least one entry, newest work that is another phase's
\* is in the prompt, however the history is filtered: a role that answers a
\* handoff or a send-back sees what it answers (prompts.py context_section).
HandedOverIsShown ==
  prompt # Unset /\ prompt.setting.efficiency.max_history_entries # 0 =>
    LET history == prompt.setting.history
        all == ToSet(history.iterations \o history.reviews)
    IN \A newest \in all :
         /\ newest.phase_id # prompt.setting.phase_id
         /\ \A e \in all \ {newest} : e.ended_at < newest.ended_at
         => \/ \E i \in prompt.context.iterations.shown : history.iterations[i] = newest
            \/ \E i \in prompt.context.reviews.shown : history.reviews[i] = newest
================================================================================
