--------------------------- MODULE ContextPackProofs ---------------------------
(***************************************************************************)
(* Theorems about ContextPack for every family of packs, metadata,         *)
(* documents, questions and settings of prompts.                           *)
(***************************************************************************)
EXTENDS ContextPack, PositionLemmas, FiniteSetTheorems, SequenceTheorems

(***************************************************************************)
(* The writer takes any path for a document and for a file of the config   *)
(* snapshot.  A caller that uses it as meant leaves the metadata and the   *)
(* record of the dialogue to the operations made for them.                 *)
(***************************************************************************)
Apart ==
  LET Elsewhere(write) == {MetaPath, QuestionsPath} \intersect DOMAIN write = {}
  IN /\ \A id \in Ids : \A document \in Documents[id] : Elsewhere(document)
     /\ \A given \in Snapshots : \A i \in DOMAIN given.config : Elsewhere(given.config[i])

--------------------------------------------------------------------------------
(***************************************************************************)
(* Lists of writes, and what a write does to a directory.                  *)
(***************************************************************************)
IsList(s) == s \in Seq(ToSet(s))

LEMMA Listed ==
  ASSUME NEW S, NEW s \in Seq(S)
  PROVE  IsList(s) /\ ToSet(s) \subseteq S
<1>1. DOMAIN s = 1..Len(s) /\ Len(s) \in Nat /\ s = [i \in 1..Len(s) |-> s[i]]
  OBVIOUS
<1>2. \A i \in 1..Len(s) : s[i] \in ToSet(s) /\ s[i] \in S
  BY <1>1 DEF ToSet
<1>3. s \in [1..Len(s) -> ToSet(s)]
  BY <1>1, <1>2
<1>4. IsList(s)
  BY <1>1, <1>3, SeqDef DEF IsList
<1>5. ToSet(s) \subseteq S
  BY <1>1, <1>2 DEF ToSet
<1> QED
  BY <1>4, <1>5

LEMMA ListSteps ==
  ASSUME NEW s, IsList(s), s # <<>>
  PROVE  /\ IsList(Tail(s)) /\ ToSet(Tail(s)) \subseteq ToSet(s)
         /\ Head(s) \in ToSet(s)
<1>1. s \in Seq(ToSet(s))
  BY DEF IsList
<1>2. Tail(s) \in Seq(ToSet(s)) /\ Head(s) \in ToSet(s)
  BY <1>1
<1> QED
  BY <1>2, Listed

LEMMA ListConcat ==
  ASSUME NEW s, NEW t, IsList(s), IsList(t)
  PROVE  IsList(s \o t) /\ ToSet(s \o t) \subseteq ToSet(s) \union ToSet(t)
<1> DEFINE U == ToSet(s) \union ToSet(t)
<1>1. s \in Seq(ToSet(s)) /\ t \in Seq(ToSet(t))
  BY DEF IsList
<1>2. s \in Seq(U) /\ t \in Seq(U)
  BY <1>1
<1>3. s \o t \in Seq(U)
  BY <1>2
<1> QED
  BY <1>3, Listed

LEMMA ConcatHolds ==
  ASSUME NEW s, NEW t, IsList(s), IsList(t)
  PROVE  ToSet(s) \union ToSet(t) \subseteq ToSet(s \o t)
<1>1. s \in Seq(ToSet(s)) /\ t \in Seq(ToSet(t))
  BY DEF IsList
<1>2. /\ DOMAIN s = 1..Len(s) /\ DOMAIN t = 1..Len(t) /\ Len(s) \in Nat /\ Len(t) \in Nat
      /\ DOMAIN (s \o t) = 1..(Len(s) + Len(t))
      /\ \A i \in 1..Len(s) : (s \o t)[i] = s[i]
      /\ \A i \in 1..Len(t) : (s \o t)[i + Len(s)] = t[i]
  BY <1>1
<1>3. ASSUME NEW i \in 1..Len(s) PROVE s[i] \in ToSet(s \o t)
  <2>1. i \in 1..(Len(s) + Len(t)) /\ (s \o t)[i] = s[i]
    BY <1>2
  <2> QED
    BY <1>2, <2>1 DEF ToSet
<1>4. ASSUME NEW i \in 1..Len(t) PROVE t[i] \in ToSet(s \o t)
  <2>1. i + Len(s) \in 1..(Len(s) + Len(t)) /\ (s \o t)[i + Len(s)] = t[i]
    BY <1>2
  <2> QED
    BY <1>2, <2>1 DEF ToSet
<1> QED
  BY <1>2, <1>3, <1>4 DEF ToSet

LEMMA ListOne ==
  ASSUME NEW w
  PROVE  IsList(<<w>>) /\ ToSet(<<w>>) = {w}
<1>1. <<w>> \in Seq({w})
  OBVIOUS
<1>2. DOMAIN <<w>> = {1} /\ <<w>>[1] = w
  OBVIOUS
<1>3. ToSet(<<w>>) = {w}
  BY <1>2 DEF ToSet
<1> QED
  BY <1>1, <1>3, Listed

\* A finite set in some order: which one, CHOOSE does not say.
LEMMA ListOfSet ==
  ASSUME NEW T, IsFiniteSet(T)
  PROVE  IsList(SetToSeq(T)) /\ ToSet(SetToSeq(T)) = T
<1> DEFINE n == Cardinality(T)
           list == SetToSeq(T)
<1>1. n \in Nat /\ ExistsBijection(1..n, T)
  BY FS_CardinalityType
<1>2. \E f \in [1..n -> T] : IsInjective(f)
  BY <1>1 DEF ExistsBijection, Bijection, Injection, IsInjective
<1>3. list \in [1..n -> T] /\ IsInjective(list)
  BY <1>2 DEF SetToSeq
<1> HIDE DEF list
<1>4. list \in Injection(1..n, T)
  BY <1>3 DEF Injection, IsInjective
<1>5. Cardinality(1..n) = n
  BY <1>1, FS_Interval
<1>6. list \in Surjection(1..n, T)
  BY <1>4, <1>5, FS_Injection
<1>7. T \subseteq ToSet(list)
  BY <1>3, <1>6 DEF Surjection, ToSet
<1>8. list \in Seq(T)
  BY <1>1, <1>3, SeqDef
<1> QED
  BY <1>7, <1>8, Listed DEF list

LEMMA Overwrites ==
  ASSUME NEW directory, NEW files
  PROVE  /\ DOMAIN Overwritten(directory, files) = DOMAIN directory \union DOMAIN files
         /\ \A path \in DOMAIN files : Overwritten(directory, files)[path] = files[path]
         /\ \A path \in DOMAIN directory \ DOMAIN files :
              Overwritten(directory, files)[path] = directory[path]
BY DEF Overwritten

LEMMA OneFile ==
  ASSUME NEW path, NEW content
  PROVE  DOMAIN File(path, content) = {path} /\ File(path, content)[path] = content
BY DEF File

--------------------------------------------------------------------------------
(***************************************************************************)
(* The metadata of a pack: of a caller's making, but for the flags that    *)
(* finalize sets.                                                          *)
(***************************************************************************)
OfCaller(id, meta) ==
  /\ meta \in [context_id : {meta.context_id}, composition : Seq(Ids),
               finalized : BOOLEAN, approved : BOOLEAN]
  /\ \E given \in Metadata[id] :
       given.context_id = meta.context_id /\ given.composition = meta.composition

LEMMA GivenMetadata ==
  ASSUME NEW id \in Ids, NEW meta \in Metadata[id]
  PROVE  OfCaller(id, meta)
BY PackAssumption DEF OfCaller

LEMMA FinalizedMetadata ==
  ASSUME NEW id \in Ids, NEW meta, OfCaller(id, meta),
         NEW approved \in BOOLEAN, NEW lock \in BOOLEAN
  PROVE  /\ OfCaller(id, Finalized(meta, approved, lock))
         /\ meta.finalized => Finalized(meta, approved, lock).finalized
<1> DEFINE locked == meta.finalized \/ lock
           new == Finalized(meta, approved, lock)
<1>1. meta \in [context_id : {meta.context_id}, composition : Seq(Ids),
                finalized : BOOLEAN, approved : BOOLEAN]
  BY DEF OfCaller
<1>2. locked \in BOOLEAN /\ (meta.finalized => locked)
  OBVIOUS
<1>3. new = [meta EXCEPT !.approved = approved, !.finalized = locked]
  BY DEF Finalized
<1> HIDE DEF new, locked
<1>4. new = [context_id |-> meta.context_id, composition |-> meta.composition,
             finalized |-> locked, approved |-> approved]
  BY <1>1, <1>3
<1>5. /\ new.context_id = meta.context_id /\ new.composition = meta.composition
      /\ new.finalized = locked
      /\ new \in [context_id : {meta.context_id}, composition : Seq(Ids),
                  finalized : BOOLEAN, approved : BOOLEAN]
  BY <1>1, <1>2, <1>4
<1>6. OfCaller(id, new)
  BY <1>5 DEF OfCaller
<1>7. meta.finalized => new.finalized
  BY <1>2, <1>5
<1> QED
  BY <1>6, <1>7 DEF new

LEMMA MetadataShape ==
  ASSUME NEW id \in Ids, NEW meta, OfCaller(id, meta)
  PROVE  \E given \in Metadata[id] :
           [meta EXCEPT !.approved = given.approved, !.finalized = given.finalized] = given
<1>1. PICK given \in Metadata[id] :
         given.context_id = meta.context_id /\ given.composition = meta.composition
  BY DEF OfCaller
<1>2. given \in [context_id : {given.context_id}, composition : Seq(Ids),
                 finalized : BOOLEAN, approved : BOOLEAN]
  BY PackAssumption
<1>3. meta \in [context_id : {meta.context_id}, composition : Seq(Ids),
                finalized : BOOLEAN, approved : BOOLEAN]
  BY DEF OfCaller
<1> QED
  BY <1>1, <1>2, <1>3

--------------------------------------------------------------------------------
(***************************************************************************)
(* The record of a dialogue, and what QuestionsOnlyGrow allows a write of  *)
(* it to do.                                                               *)
(***************************************************************************)
Entry(id) == [id : Questions[id], answer : Answers \union {Unset}]

LEMMA Unchanged ==
  ASSUME NEW old
  PROVE  Grows(old, old)
BY DEF Grows

LEMMA AppendedGrows ==
  ASSUME NEW id \in Ids, NEW old \in Seq(Entry(id)), NEW question \in Questions[id]
  PROVE  Appended(old, question) \in Seq(Entry(id)) /\ Grows(old, Appended(old, question))
<1> DEFINE e == [id |-> question, answer |-> Unset]
           new == Append(old, e)
           changed == {i \in DOMAIN old : new[i] # old[i]}
<1>1. e \in Entry(id) /\ e.answer = Unset
  BY DEF Entry
<1> HIDE DEF e
<1>2. /\ new \in Seq(Entry(id)) /\ Len(new) = Len(old) + 1
      /\ DOMAIN new = 1..(Len(old) + 1) /\ DOMAIN old = 1..Len(old) /\ Len(old) \in Nat
      /\ \A i \in DOMAIN old : new[i] = old[i]
      /\ new[Len(old) + 1] = e
  BY <1>1
<1> HIDE DEF new
<1>3. changed = {}
  BY <1>2
<1>4. \A i \in DOMAIN new \ DOMAIN old : new[i].answer = Unset
  BY <1>1, <1>2
<1>5. Grows(old, new)
  BY <1>2, <1>3, <1>4 DEF Grows
<1> QED
  BY <1>2, <1>5 DEF Appended, new, e

\* The first of the entries with an id.
LEMMA FirstFound ==
  ASSUME NEW n \in Nat, NEW found \in SUBSET (1..n), found # {}
  PROVE  Min(found) \in found /\ \A j \in found : Min(found) <= j
<1>1. \E x \in found : \A y \in found : x <= y
  <2>1. found \in SUBSET Nat
    OBVIOUS
  <2> QED
    BY <2>1, NatLeast
<1> QED
  BY <1>1 DEF Min

LEMMA AnsweredGrows ==
  ASSUME NEW id \in Ids, NEW old \in Seq(Entry(id)), NEW question, NEW answer \in Answers
  PROVE  /\ Answered(old, question, answer) \in Seq(Entry(id))
         /\ Grows(old, Answered(old, question, answer))
<1> DEFINE found == {i \in DOMAIN old : old[i].id = question}
           m == Min(found)
           e == [old[m] EXCEPT !.answer = answer]
           new == [old EXCEPT ![m] = e]
           changed == {i \in DOMAIN old : new[i] # old[i]}
<1>1. DOMAIN old = 1..Len(old) /\ Len(old) \in Nat /\ \A i \in DOMAIN old : old[i] \in Entry(id)
  OBVIOUS
<1>2. CASE found = {}
  <2>1. Answered(old, question, answer) = old
    BY <1>2 DEF Answered
  <2> QED
    BY <2>1, Unchanged
<1>3. CASE found # {}
  <2>1. Answered(old, question, answer) = new
    BY <1>3 DEF Answered
  <2>2. m \in DOMAIN old /\ old[m].id = question /\ \A j \in found : m <= j
    <3>1. found \in SUBSET (1..Len(old))
      BY <1>1
    <3> HIDE DEF found
    <3>2. m \in found /\ \A j \in found : m <= j
      BY <1>1, <1>3, <3>1, FirstFound
    <3> QED
      BY <3>2 DEF found
  <2> HIDE DEF m
  <2>3. old[m] \in Entry(id)
    BY <1>1, <2>2
  <2>4. e \in Entry(id) /\ e.id = question /\ e.answer = answer /\ answer # Unset
    <3>1. e = [id |-> old[m].id, answer |-> answer]
      BY <2>3 DEF Entry
    <3> QED
      BY <2>2, <2>3, <3>1, PackAssumption DEF Entry
  <2> HIDE DEF e
  <2>5. /\ new \in Seq(Entry(id)) /\ Len(new) = Len(old) /\ DOMAIN new = DOMAIN old
        /\ new[m] = e /\ \A i \in DOMAIN old : i # m => new[i] = old[i]
    BY <1>1, <2>2, <2>4
  <2> HIDE DEF new
  <2>6. \A i \in DOMAIN old : new[i].id = old[i].id
    BY <2>2, <2>4, <2>5
  <2>7. \A i \in changed : i = m /\ new[i].answer # Unset
    BY <2>4, <2>5
  <2>8. \A i \in changed : changed = {i}
    BY <2>7
  <2>9. \A i \in changed : \A j \in DOMAIN old : old[j].id = old[i].id => i <= j
    BY <2>2, <2>7
  <2>10. Grows(old, new)
    BY <2>5, <2>6, <2>7, <2>8, <2>9 DEF Grows
  <2> QED
    BY <2>1, <2>5, <2>10
<1> QED
  BY <1>2, <1>3

--------------------------------------------------------------------------------
(***************************************************************************)
(* The inductive invariant.  The writes an operation has still to make are *)
(* what it computed from the directory as it is: nothing else writes it    *)
(* meanwhile.  Prepared says what they may be, by operation.               *)
(***************************************************************************)
Without(path, writes) == \A w \in ToSet(writes) : path \notin DOMAIN w

OfFinalize(id, writes) ==
  /\ Exists(id, MetaPath)
  /\ \E approved, lock \in BOOLEAN :
       writes = <<File(MetaPath, Finalized(disk[id][MetaPath], approved, lock))>>

OfDialogue(id, writes) ==
  \E question \in Questions[id] :
     \/ writes = <<File(QuestionsPath, Appended(Entries(id), question))>>
     \/ \E answer \in Answers :
          writes = <<File(QuestionsPath, Answered(Entries(id), question, answer))>>

Prepared(op, id, writes) ==
  /\ IsList(writes)
  /\ \A w \in ToSet(writes) : MetaPath \in DOMAIN w => OfCaller(id, w[MetaPath])
  /\ writes # <<>> =>
       /\ op = "finalize" => OfFinalize(id, writes)
       /\ op \in {"document", "question", "answer"} => Without(MetaPath, writes)
       /\ Without(QuestionsPath, writes) \/ OfDialogue(id, writes)

DiskSound ==
  /\ disk = [id \in Ids |-> disk[id]]
  /\ \A id \in Ids :
       /\ Exists(id, MetaPath) => OfCaller(id, disk[id][MetaPath])
       /\ Entries(id) \in Seq(Entry(id))

Underway ==
  running # Unset =>
    /\ running = [op |-> running.op, id |-> running.id, writes |-> running.writes]
    /\ running.id \in Ids
    /\ Prepared(running.op, running.id, running.writes)

Writing == ops \in 0..MaxOps /\ DiskSound /\ Underway

LEMMA InitWriting == PackInit => Writing
<1> SUFFICES ASSUME PackInit PROVE Writing
  OBVIOUS
<1>1. \A id \in Ids : DOMAIN disk[id] = {}
  BY DEF PackInit
<1>2. \A id \in Ids : ~Exists(id, MetaPath) /\ Entries(id) = <<>>
  BY <1>1 DEF Exists, Entries
<1>3. \A id \in Ids : Entries(id) \in Seq(Entry(id))
  <2>1. \A S : <<>> \in Seq(S)
    OBVIOUS
  <2> QED
    BY <1>2, <2>1
<1>4. disk = [id \in Ids |-> disk[id]] /\ ops \in 0..MaxOps
  BY PackAssumption DEF PackInit
<1> QED
  BY <1>2, <1>3, <1>4 DEF PackInit, Writing, DiskSound, Underway

\* An operation of one write.
LEMMA OneWrite ==
  ASSUME NEW op, NEW id, NEW w, MetaPath \in DOMAIN w => OfCaller(id, w[MetaPath]),
         op = "finalize" => OfFinalize(id, <<w>>),
         op \in {"document", "question", "answer"} => MetaPath \notin DOMAIN w,
         QuestionsPath \notin DOMAIN w \/ OfDialogue(id, <<w>>)
  PROVE  Prepared(op, id, <<w>>)
BY ListOne DEF Prepared, Without

LEMMA InitializePrepared ==
  ASSUME Apart, NEW id \in Ids, NEW meta \in Metadata[id], NEW given \in Snapshots
  PROVE  Prepared("initialize", id, InitializeWrites(meta, given))
<1> DEFINE first == <<File(MetaPath, meta)>>
           T == {File(f.name, f) : f \in given.request}
           last == <<[path \in Subdirs |-> Unset]>>
           writes == InitializeWrites(meta, given)
           Fits(w) == /\ MetaPath \in DOMAIN w => OfCaller(id, w[MetaPath])
                      /\ QuestionsPath \notin DOMAIN w
<1>1. IsList(first) /\ \A w \in ToSet(first) : Fits(w)
  <2>1. IsList(first) /\ ToSet(first) = {File(MetaPath, meta)}
    BY ListOne
  <2>2. Fits(File(MetaPath, meta))
    <3>1. DOMAIN File(MetaPath, meta) = {MetaPath} /\ File(MetaPath, meta)[MetaPath] = meta
      BY OneFile
    <3>2. OfCaller(id, meta)
      BY GivenMetadata
    <3> QED
      BY <3>1, <3>2 DEF MetaPath, QuestionsPath
  <2> QED
    BY <2>1, <2>2
<1>2. IsFiniteSet(T) /\ \A w \in T : Fits(w)
  <2>1. given.request \subseteq RequestFiles
    BY DEF RequestFiles
  <2>2. IsFiniteSet(given.request)
    BY <2>1, PackAssumption, FS_Subset
  <2>3. [f \in given.request |-> File(f.name, f)] \in Surjection(given.request, T)
    BY DEF Surjection
  <2>4. IsFiniteSet(T)
    <3> HIDE DEF T
    <3> QED
      BY <2>2, <2>3, FS_Surjection DEF ExistsSurjection
  <2>5. ASSUME NEW f \in given.request PROVE Fits(File(f.name, f))
    <3>1. f.name \notin {MetaPath, QuestionsPath}
      BY <2>1, PackAssumption
    <3>2. DOMAIN File(f.name, f) = {f.name}
      BY OneFile
    <3> QED
      BY <3>1, <3>2
  <2> QED
    BY <2>4, <2>5
<1>3. IsList(SetToSeq(T)) /\ \A w \in ToSet(SetToSeq(T)) : Fits(w)
  <2> HIDE DEF T, Fits
  <2> QED
    BY <1>2, ListOfSet
<1>4. IsList(given.config) /\ \A w \in ToSet(given.config) : Fits(w)
  BY PackAssumption DEF IsList, ToSet, Apart
<1>5. IsList(last) /\ \A w \in ToSet(last) : Fits(w)
  <2>1. IsList(last) /\ ToSet(last) = {[path \in Subdirs |-> Unset]}
    BY ListOne
  <2>2. Fits([path \in Subdirs |-> Unset])
    BY DEF Subdirs, MetaPath, QuestionsPath
  <2> QED
    BY <2>1, <2>2
<1>6. writes = ((first \o SetToSeq(T)) \o given.config) \o last
  BY DEF InitializeWrites
<1>7. IsList(writes) /\ \A w \in ToSet(writes) : Fits(w)
  <2> HIDE DEF first, T, last, writes, Fits
  <2>1. IsList(first \o SetToSeq(T)) /\ \A w \in ToSet(first \o SetToSeq(T)) : Fits(w)
    BY <1>1, <1>3, ListConcat
  <2>2. /\ IsList((first \o SetToSeq(T)) \o given.config)
        /\ \A w \in ToSet((first \o SetToSeq(T)) \o given.config) : Fits(w)
    BY <2>1, <1>4, ListConcat
  <2> QED
    BY <2>2, <1>5, <1>6, ListConcat
<1> QED
  BY <1>7 DEF Prepared, Without

\* Every operation of the writer begins with writes that fit.
LEMMA OperationsPrepared ==
  ASSUME Apart, DiskSound, WriterNext
  PROVE  \E op, writes : \E id \in Ids :
            Begin(op, id, writes) /\ Prepared(op, id, writes)
<1>1. CASE \E id \in Ids : \E meta \in Metadata[id], given \in Snapshots :
              Initialize(id, meta, given)
  BY <1>1, InitializePrepared DEF Initialize
<1>2. CASE \E id \in Ids : \E document \in Documents[id] : WriteDiscoveryFile(id, document)
  <2>1. PICK id \in Ids : \E document \in Documents[id] : WriteDiscoveryFile(id, document)
    BY <1>2
  <2>5. PICK document \in Documents[id] : WriteDiscoveryFile(id, document)
    BY <2>1
  <2>2. MetaPath \notin DOMAIN document /\ QuestionsPath \notin DOMAIN document
    BY DEF Apart
  <2>3. Prepared("document", id, <<document>>)
    BY <2>2, OneWrite
  <2> QED
    BY <2>5, <2>3 DEF WriteDiscoveryFile
<1>3. CASE \E id \in Ids : \E approved, lock \in BOOLEAN : Finalize(id, approved, lock)
  <2>1. PICK id \in Ids, approved \in BOOLEAN, lock \in BOOLEAN : Finalize(id, approved, lock)
    BY <1>3
  <2> DEFINE w == File(MetaPath, Finalized(disk[id][MetaPath], approved, lock))
  <2>2. Exists(id, MetaPath) /\ Begin("finalize", id, <<w>>)
    BY <2>1 DEF Finalize
  <2>3. OfCaller(id, Finalized(disk[id][MetaPath], approved, lock))
    BY <2>2, FinalizedMetadata DEF DiskSound
  <2>4. OfFinalize(id, <<w>>)
    BY <2>2 DEF OfFinalize
  <2>5. DOMAIN w = {MetaPath} /\ OfCaller(id, w[MetaPath])
    BY <2>3, OneFile
  <2> HIDE DEF w
  <2>6. Prepared("finalize", id, <<w>>)
    BY <2>4, <2>5, OneWrite DEF MetaPath, QuestionsPath
  <2> QED
    BY <2>2, <2>6
<1>4. CASE \E id \in Ids : \E meta \in Metadata[id] : UpdateMetadata(id, meta)
  <2>1. PICK id \in Ids : \E meta \in Metadata[id] : UpdateMetadata(id, meta)
    BY <1>4
  <2>5. PICK meta \in Metadata[id] : UpdateMetadata(id, meta)
    BY <2>1
  <2> DEFINE w == File(MetaPath, meta)
  <2>6. DOMAIN w = {MetaPath} /\ w[MetaPath] = meta
    BY OneFile
  <2>2. DOMAIN w = {MetaPath} /\ OfCaller(id, w[MetaPath])
    <3>1. OfCaller(id, meta)
      BY <2>5, GivenMetadata
    <3> QED
      BY <2>6, <3>1
  <2>3. Begin("update", id, <<w>>)
    BY <2>5 DEF UpdateMetadata
  <2> HIDE DEF w
  <2>4. Prepared("update", id, <<w>>)
    BY <2>2, OneWrite DEF MetaPath, QuestionsPath
  <2> QED
    BY <2>3, <2>4
<1>5. ASSUME NEW id \in Ids, NEW question \in Questions[id],
             \/ AppendQuestion(id, question)
             \/ \E answer \in Answers : UpdateQuestion(id, question, answer)
      PROVE  \E op, writes : Begin(op, id, writes) /\ Prepared(op, id, writes)
  <2>1. PICK op \in {"question", "answer"},
             log \in {Appended(Entries(id), question)}
                      \union {Answered(Entries(id), question, answer) : answer \in Answers} :
           Begin(op, id, <<File(QuestionsPath, log)>>)
    BY <1>5 DEF AppendQuestion, UpdateQuestion
  <2>2. OfDialogue(id, <<File(QuestionsPath, log)>>)
    BY DEF OfDialogue
  <2>3. DOMAIN File(QuestionsPath, log) = {QuestionsPath}
    BY OneFile
  <2>4. Prepared(op, id, <<File(QuestionsPath, log)>>)
    BY <2>2, <2>3, OneWrite DEF MetaPath, QuestionsPath
  <2> QED
    BY <2>1, <2>4
<1>6. ASSUME NEW id \in Ids, NEW file \in HandFiles[id], AddByHand(id, file)
      PROVE  Begin("by hand", id, <<File(file.name, file)>>)
             /\ Prepared("by hand", id, <<File(file.name, file)>>)
  <2>1. file.name \notin {MetaPath, QuestionsPath}
    <3>1. file \in RequestFiles
      BY DEF RequestFiles
    <3> QED
      BY <3>1, PackAssumption
  <2>2. DOMAIN File(file.name, file) = {file.name}
    BY OneFile
  <2> QED
    BY <1>6, <2>1, <2>2, OneWrite DEF AddByHand
<1> QED
  BY <1>1, <1>2, <1>3, <1>4, <1>5, <1>6 DEF WriterNext

--------------------------------------------------------------------------------
(***************************************************************************)
(* One write: what it makes of the directory, and that it keeps the        *)
(* invariant.                                                              *)
(***************************************************************************)
LEMMA WriteFacts ==
  ASSUME Writing, WriteNext
  PROVE  LET id == running.id
             w == Head(running.writes)
         IN /\ id \in Ids /\ running.writes # <<>>
            /\ Prepared(running.op, id, running.writes)
            /\ w \in ToSet(running.writes)
            /\ running' = [op |-> running.op, id |-> id, writes |-> Tail(running.writes)]
            /\ disk' = [j \in Ids |-> disk'[j]]
            /\ DOMAIN disk'[id] = DOMAIN disk[id] \union DOMAIN w
            /\ \A path \in DOMAIN w : disk'[id][path] = w[path]
            /\ \A path \in DOMAIN disk[id] \ DOMAIN w : disk'[id][path] = disk[id][path]
            /\ \A j \in Ids \ {id} : disk'[j] = disk[j]
<1> DEFINE id == running.id
           w == Head(running.writes)
<1>1. /\ running = [op |-> running.op, id |-> id, writes |-> running.writes]
      /\ id \in Ids /\ Prepared(running.op, id, running.writes)
  BY DEF Writing, Underway, WriteNext
<1>2. running.writes # <<>> /\ w \in ToSet(running.writes)
  <2>1. running.writes # <<>> /\ IsList(running.writes)
    BY <1>1 DEF WriteNext, Prepared
  <2> QED
    BY <2>1, ListSteps
<1>3. running' = [op |-> running.op, id |-> id, writes |-> Tail(running.writes)]
  BY <1>1 DEF WriteNext
<1>4. /\ disk = [j \in Ids |-> disk[j]]
      /\ disk' = [disk EXCEPT ![id] = Overwritten(disk[id], w)]
  BY DEF Writing, DiskSound, WriteNext
<1> HIDE DEF id, w
<1>5. /\ disk' = [j \in Ids |-> disk'[j]]
      /\ disk'[id] = Overwritten(disk[id], w)
      /\ \A j \in Ids \ {id} : disk'[j] = disk[j]
  BY <1>1, <1>4
<1>6. /\ DOMAIN Overwritten(disk[id], w) = DOMAIN disk[id] \union DOMAIN w
      /\ \A path \in DOMAIN w : Overwritten(disk[id], w)[path] = w[path]
      /\ \A path \in DOMAIN disk[id] \ DOMAIN w : Overwritten(disk[id], w)[path] = disk[id][path]
  BY Overwrites
<1>7. /\ DOMAIN disk'[id] = DOMAIN disk[id] \union DOMAIN w
      /\ \A path \in DOMAIN w : disk'[id][path] = w[path]
      /\ \A path \in DOMAIN disk[id] \ DOMAIN w : disk'[id][path] = disk[id][path]
  BY <1>5, <1>6
<1> QED
  BY <1>1, <1>2, <1>3, <1>5, <1>7 DEF id, w

\* The record of a dialogue after a write, and how it got there.
LEMMA DialogueAfter ==
  ASSUME Writing, WriteNext, NEW j \in Ids
  PROVE  Entries(j)' \in Seq(Entry(j)) /\ Grows(Entries(j), Entries(j)')
<1> DEFINE id == running.id
           w == Head(running.writes)
           old == Entries(j)
           new == IF QuestionsPath \in DOMAIN disk'[j] THEN disk'[j][QuestionsPath] ELSE <<>>
<1>1. old \in Seq(Entry(j)) /\ old = IF QuestionsPath \in DOMAIN disk[j]
                                     THEN disk[j][QuestionsPath] ELSE <<>>
  BY DEF Writing, DiskSound, Entries, Exists
<1>2. ASSUME new = old PROVE new \in Seq(Entry(j)) /\ Grows(old, new)
  <2> HIDE DEF new, old
  <2> QED
    BY <1>1, <1>2, Unchanged
<1>3. CASE j # id
  <2>1. disk'[j] = disk[j]
    BY <1>3, WriteFacts
  <2> QED
    BY <1>1, <1>2, <2>1 DEF Entries, Exists
<1>4. CASE j = id /\ QuestionsPath \notin DOMAIN w
  <2>2. /\ DOMAIN disk'[j] = DOMAIN disk[j] \union DOMAIN w
        /\ \A p \in DOMAIN disk[j] \ DOMAIN w : disk'[j][p] = disk[j][p]
    BY <1>4, WriteFacts
  <2>3. new = old
    BY <1>1, <1>4, <2>2
  <2> QED
    BY <1>2, <2>3 DEF Entries, Exists
<1>5. CASE j = id /\ QuestionsPath \in DOMAIN w
  <2>1. /\ OfDialogue(j, running.writes)
        /\ DOMAIN disk'[j] = DOMAIN disk[j] \union DOMAIN w
        /\ \A path \in DOMAIN w : disk'[j][path] = w[path]
    <3>1. /\ Prepared(running.op, j, running.writes) /\ w \in ToSet(running.writes)
          /\ running.writes # <<>>
          /\ DOMAIN disk'[j] = DOMAIN disk[j] \union DOMAIN w
          /\ \A path \in DOMAIN w : disk'[j][path] = w[path]
      BY <1>5, WriteFacts
    <3>2. ~Without(QuestionsPath, running.writes)
      BY <1>5, <3>1 DEF Without
    <3> QED
      BY <3>1, <3>2 DEF Prepared
  <2>2. PICK question \in Questions[j] :
          \/ running.writes = <<File(QuestionsPath, Appended(old, question))>>
          \/ \E answer \in Answers :
               running.writes = <<File(QuestionsPath, Answered(old, question, answer))>>
    BY <2>1 DEF OfDialogue
  <2>3. PICK log \in {Appended(old, question)}
                        \union {Answered(old, question, answer) : answer \in Answers} :
          w = File(QuestionsPath, log)
    BY <2>2
  <2>4. DOMAIN w = {QuestionsPath} /\ w[QuestionsPath] = log
    BY <2>3, OneFile
  <2>5. DOMAIN disk'[j] = DOMAIN disk[j] \union DOMAIN w /\ disk'[j][QuestionsPath] = log
    BY <2>1, <2>4
  <2>6. new = log
    BY <2>4, <2>5
  <2>7. log \in Seq(Entry(j)) /\ Grows(old, log)
    <3> HIDE DEF old
    <3>1. CASE log = Appended(old, question)
      BY <1>1, <3>1, AppendedGrows
    <3>2. ASSUME NEW answer \in Answers, log = Answered(old, question, answer)
          PROVE  log \in Seq(Entry(j)) /\ Grows(old, log)
      BY <1>1, <3>2, AnsweredGrows
    <3> QED
      BY <2>3, <3>1, <3>2
  <2> QED
    BY <2>6, <2>7 DEF Entries, Exists
<1> QED
  BY <1>3, <1>4, <1>5

\* What is left of an operation after its first write no longer depends on the
\* directory: finalize and the dialogue have but one write.
Remaining(op, id, writes) ==
  /\ IsList(writes)
  /\ \A w \in ToSet(writes) : MetaPath \in DOMAIN w => OfCaller(id, w[MetaPath])
  /\ writes # <<>> =>
       /\ op # "finalize"
       /\ op \in {"document", "question", "answer"} => Without(MetaPath, writes)
       /\ Without(QuestionsPath, writes)

LEMMA RestRemains ==
  ASSUME NEW op, NEW id, NEW writes, writes # <<>>, Prepared(op, id, writes)
  PROVE  Remaining(op, id, Tail(writes))
<1>1. IsList(writes)
  BY DEF Prepared
<1>2. IsList(Tail(writes)) /\ ToSet(Tail(writes)) \subseteq ToSet(writes)
  BY <1>1, ListSteps
<1>3. \A x : Tail(<<x>>) = <<>>
  OBVIOUS
<1>4. CASE OfFinalize(id, writes) \/ OfDialogue(id, writes)
  <2>1. Tail(writes) = <<>>
    BY <1>3, <1>4 DEF OfFinalize, OfDialogue
  <2> QED
    BY <1>2, <2>1 DEF Prepared, Remaining
<1>5. CASE ~OfFinalize(id, writes) /\ ~OfDialogue(id, writes)
  BY <1>2, <1>5 DEF Prepared, Remaining, Without
<1> QED
  BY <1>4, <1>5

LEMMA WriteWriting ==
  ASSUME Writing, WriteNext
  PROVE  Writing'
<1> DEFINE id == running.id
           w == Head(running.writes)
<1>1. ops' \in 0..MaxOps
  BY DEF WriteNext, Writing
<1>2. ASSUME NEW j \in Ids, Exists(j, MetaPath)'
      PROVE  OfCaller(j, disk'[j][MetaPath])
  <2>1. CASE j # id
    <3>1. disk'[j] = disk[j]
      BY <2>1, WriteFacts
    <3> QED
      BY <1>2, <3>1 DEF Writing, DiskSound, Exists
  <2>2. CASE j = id /\ MetaPath \in DOMAIN w
    <3>1. disk'[j][MetaPath] = w[MetaPath]
      BY <2>2, WriteFacts
    <3>2. Prepared(running.op, j, running.writes) /\ w \in ToSet(running.writes)
      BY <2>2, WriteFacts
    <3> QED
      BY <2>2, <3>1, <3>2 DEF Prepared
  <2>3. CASE j = id /\ MetaPath \notin DOMAIN w
    <3>1. Exists(j, MetaPath) /\ disk'[j][MetaPath] = disk[j][MetaPath]
      <4>2. /\ DOMAIN disk'[j] = DOMAIN disk[j] \union DOMAIN w
            /\ \A p \in DOMAIN disk[j] \ DOMAIN w : disk'[j][p] = disk[j][p]
        BY <2>3, WriteFacts
      <4> QED
        BY <1>2, <2>3, <4>2 DEF Exists
    <3> QED
      BY <3>1 DEF Writing, DiskSound
  <2> QED
    BY <2>1, <2>2, <2>3
<1>3. DiskSound'
  <2>1. disk' = [j \in Ids |-> disk'[j]]
    BY WriteFacts
  <2>2. \A j \in Ids : Entries(j)' \in Seq(Entry(j))
    BY DialogueAfter
  <2> QED
    BY <1>2, <2>1, <2>2 DEF DiskSound, Entry
<1>4. Underway'
  <2>1. PICK op, i, writes :
          /\ i \in Ids /\ op = running.op /\ i = id /\ writes = running.writes
          /\ writes # <<>> /\ Prepared(op, i, writes)
          /\ running' = [op |-> op, id |-> i, writes |-> Tail(writes)]
    BY WriteFacts
  <2>2. Remaining(op, i, Tail(writes))
    BY <2>1, RestRemains
  <2>3. Prepared(op, i, Tail(writes))'
    BY <2>2 DEF Remaining, Prepared, Without
  <2> QED
    BY <2>1, <2>3 DEF Underway
<1> QED
  BY <1>1, <1>3, <1>4 DEF Writing

LEMMA StepWriting ==
  ASSUME Apart, Writing, [PackNext]_packVars
  PROVE  Writing'
<1>1. CASE WriterNext
  <2>1. PICK op, writes : \E id \in Ids : Begin(op, id, writes) /\ Prepared(op, id, writes)
    BY <1>1, OperationsPrepared DEF Writing
  <2>2. PICK id \in Ids : Begin(op, id, writes) /\ Prepared(op, id, writes)
    BY <2>1
  <2>3. /\ disk' = disk /\ ops' \in 0..MaxOps
        /\ running' = [op |-> op, id |-> id, writes |-> writes]
    BY <2>2, PackAssumption DEF Begin, Writing
  <2>4. DiskSound'
    BY <2>3 DEF Writing, DiskSound, Exists, Entries, Entry
  <2>5. Prepared(op, id, writes)'
    BY <2>2, <2>3 DEF Prepared, OfFinalize, OfDialogue, Exists, Entries, Without
  <2>6. Underway'
    BY <2>3, <2>5 DEF Underway
  <2> QED
    BY <2>3, <2>4, <2>6 DEF Writing
<1>2. CASE WriteNext
  BY <1>2, WriteWriting
<1>3. CASE Return \/ Crash
  <2>1. disk' = disk /\ ops' = ops /\ running' = Unset
    BY <1>3 DEF Return, Crash
  <2> QED
    BY <2>1 DEF Writing, DiskSound, Underway, Exists, Entries, Entry
<1>4. CASE (\E id \in Ids : Load(id)) \/ (\E setting \in Settings : Assemble(setting))
           \/ UNCHANGED packVars
  <2>1. disk' = disk /\ ops' = ops /\ running' = running
    BY <1>4 DEF Load, Assemble, packVars
  <2> QED
    BY <2>1 DEF Writing, DiskSound, Underway, Prepared, OfFinalize, OfDialogue,
                Exists, Entries, Entry, Without
<1> QED
  BY <1>1, <1>2, <1>3, <1>4 DEF PackNext

LEMMA WritingKept ==
  ASSUME Apart
  PROVE  PackSpec => []Writing
<1>1. PackInit => Writing
  BY InitWriting
<1>2. Writing /\ [PackNext]_packVars => Writing'
  BY StepWriting
<1> QED
  BY <1>1, <1>2, PTL DEF PackSpec

\* PackTypeOK: the metadata on disk are a caller's but for the two flags that
\* finalize sets, whatever operations were begun, finished or cut short.
THEOREM PackTypeCorrect ==
  ASSUME Apart
  PROVE  PackSpec => []PackTypeOK
<1>1. Writing => PackTypeOK
  <2> SUFFICES ASSUME Writing PROVE PackTypeOK
    OBVIOUS
  <2>1. \A id \in Ids : Exists(id, MetaPath) => OfCaller(id, disk[id][MetaPath])
    BY DEF Writing, DiskSound
  <2>2. running # Unset => running.id \in Ids
    BY DEF Writing, Underway
  <2>3. ops \in 0..MaxOps
    BY DEF Writing
  <2> QED
    BY <2>1, <2>2, <2>3, MetadataShape DEF PackTypeOK
<1> QED
  BY <1>1, WritingKept, PTL

\* Only a write changes a directory.
LEMMA OnlyWrites ==
  ASSUME [PackNext]_packVars, disk' # disk
  PROVE  WriteNext
BY DEF PackNext, WriterNext, Initialize, WriteDiscoveryFile, Finalize, UpdateMetadata,
       AddByHand, AppendQuestion, UpdateQuestion, Begin, Return, Crash, Load, Assemble, packVars

\* QuestionsOnlyGrow: a write of q-and-a.json adds one open question, answers
\* the first with an id, anew perhaps, or leaves the record as it is.
THEOREM QuestionsCorrect ==
  ASSUME Apart
  PROVE  PackSpec => QuestionsOnlyGrow
<1>1. Writing /\ [PackNext]_packVars => [\A id \in Ids : Grows(Entries(id), Entries(id)')]_disk
  <2> SUFFICES ASSUME Writing, [PackNext]_packVars, disk' # disk, NEW id \in Ids
               PROVE  Grows(Entries(id), Entries(id)')
    OBVIOUS
  <2> QED
    BY OnlyWrites, DialogueAfter
<1> QED
  BY <1>1, WritingKept, PTL DEF PackSpec, QuestionsOnlyGrow

\* LockIsKept: finalize computes the metadata from those it finds, and no other
\* operation but a caller's own writes them.
THEOREM LockCorrect ==
  ASSUME Apart
  PROVE  PackSpec => LockIsKept
<1>1. ASSUME Writing, [PackNext]_packVars, disk' # disk, NEW id \in Ids,
             Exists(id, MetaPath), disk[id][MetaPath].finalized,
             running.op \in {"finalize", "document", "question", "answer"}
      PROVE  disk'[id][MetaPath].finalized
  <2> DEFINE w == Head(running.writes)
  <2>1. WriteNext
    BY <1>1, OnlyWrites
  <2>2. CASE id # running.id
    <3>1. disk'[id] = disk[id]
      BY <1>1, <2>1, <2>2, WriteFacts
    <3> QED
      BY <1>1, <3>1
  <2>3. CASE id = running.id /\ running.op = "finalize"
    <3>1. /\ OfFinalize(id, running.writes)
          /\ \A path \in DOMAIN w : disk'[id][path] = w[path]
      BY <1>1, <2>1, <2>3, WriteFacts DEF Prepared
    <3>2. PICK approved \in BOOLEAN, lock \in BOOLEAN :
            running.writes = <<File(MetaPath, Finalized(disk[id][MetaPath], approved, lock))>>
      BY <3>1 DEF OfFinalize
    <3>3. w = File(MetaPath, Finalized(disk[id][MetaPath], approved, lock))
      BY <3>2
    <3>4. /\ DOMAIN w = {MetaPath}
          /\ w[MetaPath] = Finalized(disk[id][MetaPath], approved, lock)
      BY <3>3, OneFile
    <3>5. disk'[id][MetaPath] = Finalized(disk[id][MetaPath], approved, lock)
      BY <3>1, <3>4
    <3>6. OfCaller(id, disk[id][MetaPath])
      BY <1>1 DEF Writing, DiskSound
    <3> QED
      BY <1>1, <3>5, <3>6, FinalizedMetadata
  <2>4. CASE id = running.id /\ running.op # "finalize"
    <3>1. Without(MetaPath, running.writes) /\ w \in ToSet(running.writes)
      BY <1>1, <2>1, <2>4, WriteFacts DEF Prepared
    <3>2. MetaPath \notin DOMAIN w /\ MetaPath \in DOMAIN disk[id]
      BY <1>1, <3>1 DEF Without, Exists
    <3>3. disk'[id][MetaPath] = disk[id][MetaPath]
      BY <1>1, <2>1, <2>4, <3>2, WriteFacts
    <3> QED
      BY <1>1, <3>3
  <2> QED
    BY <2>2, <2>3, <2>4
<1>2. Writing /\ [PackNext]_packVars
      => [\A id \in Ids :
            /\ Exists(id, MetaPath) /\ disk[id][MetaPath].finalized
            /\ running # Unset /\ running.op \in {"finalize", "document", "question", "answer"}
            => disk'[id][MetaPath].finalized]_disk
  BY <1>1
<1> QED
  BY <1>2, WritingKept, PTL DEF PackSpec, LockIsKept

--------------------------------------------------------------------------------
(***************************************************************************)
(* The order of the writes of initialize.  Whoever has still to write the  *)
(* configuration writes it after the files of a request, so that where it  *)
(* is on disk these are: nothing removes a file.                           *)
(***************************************************************************)
ConfigApart ==
  \A id \in Ids : \A document \in Documents[id] : ConfigPath \notin DOMAIN document

Covered(given, id, writes) ==
  /\ \E i \in DOMAIN given.config : ConfigPath \in DOMAIN given.config[i]
  /\ \A f \in given.request :
       \/ Exists(id, f.name)
       \/ \E i \in DOMAIN writes : /\ f.name \in DOMAIN writes[i]
                                  /\ \A j \in 1..i : ConfigPath \notin DOMAIN writes[j]

Follows(id, writes) ==
  Without(ConfigPath, writes) \/ \E given \in Snapshots : Covered(given, id, writes)

Ordered ==
  /\ \A id \in Ids :
       Exists(id, ConfigPath) => \E given \in Snapshots : Covered(given, id, <<>>)
  /\ running # Unset => Follows(running.id, running.writes)

LEMMA InitializeFollows ==
  ASSUME NEW id \in Ids, NEW meta, NEW given \in Snapshots
  PROVE  Follows(id, InitializeWrites(meta, given))
<1> DEFINE T == {File(f.name, f) : f \in given.request}
           files == SetToSeq(T)
           first == <<File(MetaPath, meta)>>
           front == first \o files
           last == <<[path \in Subdirs |-> Unset]>>
           writes == InitializeWrites(meta, given)
<1>1. /\ given.request \subseteq RequestFiles
      /\ \A f \in given.request : f.name # ConfigPath
  <2>1. given.request \subseteq RequestFiles
    BY DEF RequestFiles
  <2> QED
    BY <2>1, PackAssumption
<1>2. \A w \in T : ConfigPath \notin DOMAIN w
  <2>1. \A f \in given.request : DOMAIN File(f.name, f) = {f.name}
    BY OneFile
  <2> QED
    BY <1>1, <2>1
<1>3. IsList(files) /\ ToSet(files) = T
  <2>1. IsFiniteSet(given.request)
    BY <1>1, PackAssumption, FS_Subset
  <2>2. [f \in given.request |-> File(f.name, f)] \in Surjection(given.request, T)
    BY DEF Surjection
  <2>3. IsFiniteSet(T)
    <3> HIDE DEF T
    <3> QED
      BY <2>1, <2>2, FS_Surjection DEF ExistsSurjection
  <2> HIDE DEF T
  <2> QED
    BY <2>3, ListOfSet
<1>4. IsList(first) /\ ToSet(first) = {File(MetaPath, meta)}
  BY ListOne
<1>5. \A w \in ToSet(first) : ConfigPath \notin DOMAIN w
  <2>1. DOMAIN File(MetaPath, meta) = {MetaPath}
    BY OneFile
  <2> QED
    BY <1>4, <2>1 DEF MetaPath, ConfigPath
<1>6. IsList(given.config)
  BY PackAssumption DEF IsList
<1>7. IsList(last) /\ \A w \in ToSet(last) : ConfigPath \notin DOMAIN w
  <2>1. IsList(last) /\ ToSet(last) = {[path \in Subdirs |-> Unset]}
    BY ListOne
  <2>2. ConfigPath \notin DOMAIN [path \in Subdirs |-> Unset]
    BY DEF Subdirs, ConfigPath
  <2> QED
    BY <2>1, <2>2
<1>8. writes = (front \o given.config) \o last
  BY DEF InitializeWrites
<1> SUFFICES Follows(id, writes)
  OBVIOUS
<1> HIDE DEF files, first, last, writes
<1>9. /\ IsList(front) /\ ToSet(front) \subseteq ToSet(first) \union ToSet(files)
      /\ \A w \in ToSet(front) : ConfigPath \notin DOMAIN w
  <2>1. IsList(front) /\ ToSet(front) \subseteq ToSet(first) \union ToSet(files)
    BY <1>3, <1>4, ListConcat
  <2> HIDE DEF front, T
  <2> QED
    BY <1>2, <1>3, <1>5, <2>1
<1>10. ASSUME NEW f \in given.request
       PROVE  \E i \in DOMAIN front : front[i] = File(f.name, f)
  <2>1. File(f.name, f) \in ToSet(files)
    BY <1>3
  <2>2. ToSet(files) \subseteq ToSet(front)
    BY <1>3, <1>4, ConcatHolds
  <2> HIDE DEF front
  <2> QED
    BY <2>1, <2>2 DEF ToSet
<1> HIDE DEF front, T
<1>11. /\ DOMAIN front = 1..Len(front) /\ Len(front) \in Nat
       /\ \A i \in DOMAIN front : i \in DOMAIN writes /\ writes[i] = front[i]
  <2>1. front \in Seq(ToSet(front)) /\ given.config \in Seq(ToSet(given.config))
        /\ last \in Seq(ToSet(last))
    BY <1>6, <1>7, <1>9 DEF IsList
  <2>2. /\ front \o given.config \in Seq(ToSet(front) \union ToSet(given.config))
        /\ Len(front \o given.config) = Len(front) + Len(given.config)
        /\ \A i \in 1..Len(front) : (front \o given.config)[i] = front[i]
    BY <2>1
  <2> DEFINE most == front \o given.config
  <2>3. DOMAIN front = 1..Len(front) /\ Len(front) \in Nat /\ Len(given.config) \in Nat
    BY <2>1
  <2> HIDE DEF most
  <2>4. /\ most \in Seq(ToSet(front) \union ToSet(given.config))
        /\ Len(most) = Len(front) + Len(given.config)
        /\ \A i \in 1..Len(front) : most[i] = front[i]
    BY <2>2 DEF most
  <2>5. Len(writes) = Len(most) + Len(last) /\ Len(last) \in Nat /\ Len(most) \in Nat
        /\ DOMAIN writes = 1..Len(writes) /\ \A i \in 1..Len(most) : writes[i] = most[i]
    BY <1>8, <2>1, <2>4 DEF most
  <2> QED
    BY <2>3, <2>4, <2>5
<1>12. CASE \E i \in DOMAIN given.config : ConfigPath \in DOMAIN given.config[i]
  <2>1. ASSUME NEW f \in given.request
        PROVE  \E i \in DOMAIN writes : /\ f.name \in DOMAIN writes[i]
                                       /\ \A j \in 1..i : ConfigPath \notin DOMAIN writes[j]
    <3>1. PICK i \in DOMAIN front : front[i] = File(f.name, f)
      BY <1>10
    <3>2. i \in DOMAIN writes /\ writes[i] = File(f.name, f)
      BY <1>11, <3>1
    <3>3. f.name \in DOMAIN writes[i]
      <4>1. DOMAIN File(f.name, f) = {f.name}
        BY OneFile
      <4> QED
        BY <3>2, <4>1
    <3>4. \A j \in 1..i : j \in DOMAIN front /\ writes[j] = front[j]
      BY <1>11, <3>1
    <3>5. \A j \in 1..i : ConfigPath \notin DOMAIN writes[j]
      BY <1>9, <3>4 DEF ToSet
    <3> QED
      BY <3>2, <3>3, <3>5
  <2> QED
    BY <1>12, <2>1 DEF Follows, Covered
<1>13. CASE \A i \in DOMAIN given.config : ConfigPath \notin DOMAIN given.config[i]
  <2>1. \A w \in ToSet(given.config) : ConfigPath \notin DOMAIN w
    BY <1>13 DEF ToSet
  <2>2. /\ IsList(front \o given.config)
        /\ ToSet(front \o given.config) \subseteq ToSet(front) \union ToSet(given.config)
    BY <1>6, <1>9, ListConcat
  <2>3. ToSet(writes) \subseteq ToSet(front \o given.config) \union ToSet(last)
    BY <1>7, <1>8, <2>2, ListConcat
  <2>4. \A w \in ToSet(writes) : ConfigPath \notin DOMAIN w
    BY <1>7, <1>9, <2>1, <2>2, <2>3
  <2> QED
    BY <2>4 DEF Follows, Without
<1> QED
  BY <1>12, <1>13

LEMMA OperationsFollow ==
  ASSUME Apart, ConfigApart, WriterNext
  PROVE  \E op, writes : \E id \in Ids : Begin(op, id, writes) /\ Follows(id, writes)
<1>1. ASSUME NEW w, ConfigPath \notin DOMAIN w, NEW id
      PROVE  Follows(id, <<w>>)
  BY <1>1, ListOne DEF Follows, Without
<1>2. ASSUME NEW path, path # ConfigPath, NEW content, NEW id
      PROVE  Follows(id, <<File(path, content)>>)
  <2>1. DOMAIN File(path, content) = {path}
    BY OneFile
  <2> DEFINE w == File(path, content)
  <2>2. ConfigPath \notin DOMAIN w
    BY <1>2, <2>1
  <2> HIDE DEF w
  <2>3. Follows(id, <<w>>)
    BY <1>1, <2>2
  <2> QED
    BY <2>3 DEF w
<1>3. CASE \E id \in Ids : \E meta \in Metadata[id], given \in Snapshots :
              Initialize(id, meta, given)
  BY <1>3, InitializeFollows DEF Initialize
<1>4. CASE \E id \in Ids : \E document \in Documents[id] : WriteDiscoveryFile(id, document)
  <2>1. PICK id \in Ids : \E document \in Documents[id] : WriteDiscoveryFile(id, document)
    BY <1>4
  <2>2. PICK document \in Documents[id] : WriteDiscoveryFile(id, document)
    BY <2>1
  <2>3. ConfigPath \notin DOMAIN document
    BY DEF ConfigApart
  <2>4. Follows(id, <<document>>)
    BY <1>1, <2>3
  <2> QED
    BY <2>2, <2>4 DEF WriteDiscoveryFile
<1>5. ASSUME NEW id \in Ids, NEW file \in HandFiles[id], AddByHand(id, file)
      PROVE  Follows(id, <<File(file.name, file)>>)
  <2>1. file \in RequestFiles
    BY DEF RequestFiles
  <2>2. file.name # ConfigPath
    BY <2>1, PackAssumption
  <2> QED
    BY <1>2, <2>2
<1>6. /\ \A id, content : Follows(id, <<File(MetaPath, content)>>)
      /\ \A id, content : Follows(id, <<File(QuestionsPath, content)>>)
  BY <1>2 DEF MetaPath, QuestionsPath, ConfigPath
<1>7. ASSUME NEW id \in Ids, NEW approved, NEW lock, Finalize(id, approved, lock)
      PROVE  \E op, writes : Begin(op, id, writes) /\ Follows(id, writes)
  BY <1>6, <1>7 DEF Finalize
<1>8. ASSUME NEW id \in Ids, NEW meta, UpdateMetadata(id, meta)
      PROVE  \E op, writes : Begin(op, id, writes) /\ Follows(id, writes)
  BY <1>6, <1>8 DEF UpdateMetadata
<1>9. ASSUME NEW id \in Ids, NEW question, NEW answer,
             AppendQuestion(id, question) \/ UpdateQuestion(id, question, answer)
      PROVE  \E op, writes : Begin(op, id, writes) /\ Follows(id, writes)
  BY <1>6, <1>9 DEF AppendQuestion, UpdateQuestion
<1> QED
  BY <1>3, <1>4, <1>5, <1>7, <1>8, <1>9 DEF WriterNext, AddByHand

LEMMA WriteOrdered ==
  ASSUME Writing, Ordered, WriteNext
  PROVE  Ordered'
<1>1. PICK op, id, writes :
        /\ id \in Ids /\ id = running.id /\ writes = running.writes
        /\ writes # <<>> /\ IsList(writes)
        /\ running' = [op |-> op, id |-> id, writes |-> Tail(writes)]
        /\ DOMAIN disk'[id] = DOMAIN disk[id] \union DOMAIN Head(writes)
        /\ \A j \in Ids \ {id} : disk'[j] = disk[j]
  BY WriteFacts DEF Prepared
<1> DEFINE w == Head(writes)
<1>2. /\ DOMAIN writes = 1..Len(writes) /\ Len(writes) \in Nat /\ 1 \in DOMAIN writes
      /\ w = writes[1]
      /\ DOMAIN Tail(writes) = 1..(Len(writes) - 1)
      /\ \A i \in DOMAIN Tail(writes) : Tail(writes)[i] = writes[i + 1]
  <2>1. writes \in Seq(ToSet(writes)) /\ writes # <<>>
    BY <1>1 DEF IsList
  <2> QED
    BY <2>1
<1>3. \A j \in Ids : \A path : Exists(j, path) => path \in DOMAIN disk'[j]
  BY <1>1 DEF Exists
<1>4. running # Unset /\ Follows(id, writes)
  BY <1>1 DEF Ordered, WriteNext
<1> HIDE DEF w
\* A request whose files are all there stays there.
<1>5. ASSUME NEW j \in Ids, NEW given \in Snapshots,
             \E i \in DOMAIN given.config : ConfigPath \in DOMAIN given.config[i],
             \A f \in given.request : Exists(j, f.name)
      PROVE  \E g \in Snapshots : Covered(g, j, <<>>)'
  BY <1>3, <1>5 DEF Covered, Exists
<1>6. ASSUME NEW j \in Ids, Exists(j, ConfigPath)'
      PROVE  \E given \in Snapshots : Covered(given, j, <<>>)'
  <2>1. CASE Exists(j, ConfigPath)
    <3>1. PICK given \in Snapshots : Covered(given, j, <<>>)
      BY <2>1 DEF Ordered
    <3>2. \A f \in given.request : Exists(j, f.name)
      BY <3>1 DEF Covered
    <3> QED
      BY <1>5, <3>1, <3>2 DEF Covered
  <2>2. CASE ~Exists(j, ConfigPath)
    <3>1. j = id /\ ConfigPath \in DOMAIN w
      BY <1>1, <1>6, <2>2 DEF Exists, w
    <3>2. w \in ToSet(writes)
      BY <1>2 DEF ToSet
    <3>3. PICK given \in Snapshots : Covered(given, id, writes)
      BY <1>4, <3>1, <3>2 DEF Follows, Without
    <3>4. ASSUME NEW f \in given.request PROVE Exists(id, f.name)
      <4>1. ASSUME NEW i \in DOMAIN writes, \A k \in 1..i : ConfigPath \notin DOMAIN writes[k]
            PROVE  FALSE
        <5>1. 1 \in 1..i
          BY <1>2
        <5> QED
          BY <1>2, <3>1, <4>1, <5>1
      <4> QED
        BY <3>3, <4>1 DEF Covered
    <3> QED
      BY <1>5, <3>1, <3>3, <3>4 DEF Covered
  <2> QED
    BY <2>1, <2>2
<1>7. ASSUME NEW given \in Snapshots, Covered(given, id, writes)
      PROVE  Covered(given, id, Tail(writes))'
  <2>1. ASSUME NEW f \in given.request
        PROVE  \/ f.name \in DOMAIN disk'[id]
               \/ \E i \in DOMAIN Tail(writes) :
                    /\ f.name \in DOMAIN Tail(writes)[i]
                    /\ \A k \in 1..i : ConfigPath \notin DOMAIN Tail(writes)[k]
    <3>1. CASE Exists(id, f.name)
      BY <1>1, <1>3, <3>1
    <3>2. ASSUME NEW i \in DOMAIN writes, f.name \in DOMAIN writes[i],
                 \A k \in 1..i : ConfigPath \notin DOMAIN writes[k]
          PROVE  \/ f.name \in DOMAIN disk'[id]
                 \/ \E n \in DOMAIN Tail(writes) :
                      /\ f.name \in DOMAIN Tail(writes)[n]
                      /\ \A k \in 1..n : ConfigPath \notin DOMAIN Tail(writes)[k]
      <4>1. CASE i = 1
        BY <1>1, <1>2, <3>2, <4>1
      <4>2. CASE i # 1
        <5> DEFINE n == i - 1
        <5>1. n \in DOMAIN Tail(writes) /\ n + 1 = i
          BY <1>2, <4>2
        <5>2. f.name \in DOMAIN Tail(writes)[n]
          BY <1>2, <3>2, <5>1
        <5>3. \A k \in 1..n : k \in DOMAIN Tail(writes) /\ k + 1 \in 1..i
          BY <1>2, <5>1
        <5>4. \A k \in 1..n : ConfigPath \notin DOMAIN Tail(writes)[k]
          BY <1>2, <3>2, <5>3
        <5> QED
          BY <5>1, <5>2, <5>4
      <4> QED
        BY <4>1, <4>2
    <3> QED
      BY <1>7, <3>1, <3>2 DEF Covered
  <2> QED
    BY <1>7, <2>1 DEF Covered, Exists
<1>8. Follows(id, Tail(writes))'
  <2>1. CASE Without(ConfigPath, writes)
    <3>1. ToSet(Tail(writes)) \subseteq ToSet(writes)
      BY <1>1, ListSteps
    <3>2. \A x \in ToSet(Tail(writes)) : ConfigPath \notin DOMAIN x
      BY <2>1, <3>1 DEF Without
    <3> QED
      BY <3>2 DEF Follows, Without
  <2>2. CASE \E given \in Snapshots : Covered(given, id, writes)
    <3>1. PICK given \in Snapshots : Covered(given, id, writes)
      BY <2>2
    <3>2. Covered(given, id, Tail(writes))'
      BY <1>7, <3>1
    <3> QED
      BY <3>2 DEF Follows
  <2> QED
    BY <1>4, <2>1, <2>2 DEF Follows
<1> QED
  BY <1>1, <1>6, <1>8 DEF Ordered

LEMMA OrderedKept ==
  ASSUME Apart, ConfigApart
  PROVE  PackSpec => []Ordered
<1>1. PackInit => Ordered
  BY DEF PackInit, Ordered, Exists
<1>2. Writing /\ Ordered /\ [PackNext]_packVars => Ordered'
  <2> SUFFICES ASSUME Writing, Ordered, [PackNext]_packVars PROVE Ordered'
    OBVIOUS
  <2>1. CASE WriterNext
    <3>1. PICK op, writes : \E id \in Ids : Begin(op, id, writes) /\ Follows(id, writes)
      BY <2>1, OperationsFollow
    <3>2. PICK id \in Ids : Begin(op, id, writes) /\ Follows(id, writes)
      BY <3>1
    <3>3. disk' = disk /\ running' = [op |-> op, id |-> id, writes |-> writes]
      BY <3>2 DEF Begin
    <3>4. Follows(id, writes)'
      BY <3>2, <3>3 DEF Follows, Covered, Exists, Without
    <3> QED
      BY <3>3, <3>4 DEF Ordered, Covered, Exists
  <2>2. CASE WriteNext
    BY <2>2, WriteOrdered
  <2>3. CASE Return \/ Crash
    BY <2>3 DEF Return, Crash, Ordered, Covered, Exists
  <2>4. CASE (\E id \in Ids : Load(id)) \/ (\E setting \in Settings : Assemble(setting))
             \/ UNCHANGED packVars
    <3>1. disk' = disk /\ running' = running
      BY <2>4 DEF Load, Assemble, packVars
    <3> QED
      BY <3>1 DEF Ordered, Follows, Covered, Exists, Without
  <2> QED
    BY <2>1, <2>2, <2>3, <2>4 DEF PackNext
<1> QED
  BY <1>1, <1>2, WritingKept, PTL DEF PackSpec

\* ValidPackIsWhole: a pack that passes has its configuration, and with it the
\* files of a request it was initialized with.
THEOREM ValidPacksCorrect ==
  ASSUME Apart, ConfigApart
  PROVE  PackSpec => []ValidPackIsWhole
<1>1. Ordered => ValidPackIsWhole
  <2> SUFFICES ASSUME Ordered, NEW id \in Ids, Exists(id, ConfigPath)
               PROVE  \E given \in Snapshots :
                        /\ \E i \in DOMAIN given.config : ConfigPath \in DOMAIN given.config[i]
                        /\ \A f \in given.request : Exists(id, f.name)
    BY DEF ValidPackIsWhole, ValidatePack
  <2>1. \E given \in Snapshots : Covered(given, id, <<>>)
    BY DEF Ordered
  <2> QED
    BY <2>1 DEF Covered
<1> QED
  BY <1>1, OrderedKept, PTL

--------------------------------------------------------------------------------
(***************************************************************************)
(* What is loaded and what is shown of it: a pack and its children hold    *)
(* files of their requests, one under each name, and a prompt is made of   *)
(* the pack as loaded.                                                     *)
(***************************************************************************)
IsPack(p) ==
  /\ p = [context_id |-> p.context_id, composition |-> p.composition,
          request_files |-> p.request_files, discovery_handoff |-> p.discovery_handoff,
          children |-> p.children]
  /\ p.request_files \subseteq RequestFiles
  /\ \A f, g \in p.request_files : f.name = g.name => f = g

\* The children are those the pack is composed of, each once, in that order; a
\* pack among its own children has the same files there.
Resolved(p) ==
  /\ DOMAIN p.children = DOMAIN p.composition /\ IsInjective(p.composition)
  /\ \A i \in DOMAIN p.composition :
       LET child == p.children[i]
       IN /\ IsPack(child) /\ child.context_id = p.composition[i]
          /\ p.composition[i] = p.context_id => child.request_files = p.request_files

Held == loaded # Unset /\ "error" \notin DOMAIN loaded

Reading ==
  /\ Held => IsPack(loaded) /\ Resolved(loaded)
  /\ prompt # Unset => Held /\ \E setting \in Settings : prompt = Prompt(loaded, setting)

Composed == Held => loaded.composition \in Seq(Ids)

LEMMA LeafIsPack ==
  ASSUME NEW id
  PROVE  IsPack(LoadLeafPack(id))
BY DEF IsPack, LoadLeafPack, ReadRequestFiles, ListedFiles

LEMMA LoadedIsPack ==
  ASSUME NEW id, "error" \notin DOMAIN LoadContextPack(id)
  PROVE  LET p == LoadContextPack(id)
         IN /\ LeafLoads(id) /\ p.composition = disk[id][MetaPath].composition
            /\ IsPack(p) /\ Resolved(p)
<1> DEFINE leaf == LoadLeafPack(id)
           composition == disk[id][MetaPath].composition
           children == [i \in DOMAIN composition |-> LoadLeafPack(composition[i])]
           p == LoadContextPack(id)
<1>1. LeafLoads(id) /\ IsInjective(composition) /\ p = [leaf EXCEPT !.children = children]
  BY DEF LoadContextPack, ChildrenResolve, ValidateComposition
<1>2. /\ IsPack(leaf) /\ leaf.composition = composition
      /\ leaf.context_id = id /\ leaf.request_files = ReadRequestFiles(id)
  BY LeafIsPack DEF LoadLeafPack
<1>3. /\ DOMAIN children = DOMAIN composition
      /\ \A i \in DOMAIN composition :
           /\ IsPack(children[i]) /\ children[i].context_id = composition[i]
           /\ children[i].request_files = ReadRequestFiles(composition[i])
  BY LeafIsPack DEF LoadLeafPack
<1> HIDE DEF leaf, children, p, composition
<1>4. p = [context_id |-> leaf.context_id, composition |-> leaf.composition,
           request_files |-> leaf.request_files,
           discovery_handoff |-> leaf.discovery_handoff, children |-> children]
  BY <1>1, <1>2 DEF IsPack
<1>5. /\ p.children = children /\ p.composition = composition /\ p.context_id = id
      /\ p.request_files = ReadRequestFiles(id) /\ IsPack(p)
  BY <1>2, <1>4 DEF IsPack
<1>6. Resolved(p)
  BY <1>1, <1>3, <1>5 DEF Resolved
<1> QED
  BY <1>1, <1>5, <1>6 DEF p, composition

LEMMA StepReading ==
  ASSUME Reading, [PackNext]_packVars
  PROVE  Reading'
<1>1. CASE \E id \in Ids : Load(id)
  <2>1. PICK id \in Ids : Load(id)
    BY <1>1
  <2>2. loaded = Unset /\ prompt' = prompt /\ loaded' = LoadContextPack(id)
    BY <2>1 DEF Load
  <2>3. prompt = Unset
    BY <2>2 DEF Reading, Held
  <2>4. Held' => IsPack(loaded') /\ Resolved(loaded')
    BY <2>2, LoadedIsPack DEF Held
  <2> QED
    BY <2>2, <2>3, <2>4 DEF Reading, Resolved, IsPack
<1>2. CASE \E setting \in Settings : Assemble(setting)
  <2>1. PICK setting \in Settings : Assemble(setting)
    BY <1>2
  <2>2. loaded' = loaded /\ Held /\ prompt' = Prompt(loaded, setting)
    BY <2>1 DEF Assemble, Held
  <2> QED
    BY <2>2 DEF Reading, Held, IsPack, Resolved
<1>3. CASE UNCHANGED <<loaded, prompt>>
  BY <1>3 DEF Reading, Held, IsPack, Resolved
<1>4. WriterNext \/ WriteNext \/ Return \/ Crash \/ UNCHANGED packVars
      => UNCHANGED <<loaded, prompt>>
  BY DEF WriterNext, Initialize, WriteDiscoveryFile, Finalize, UpdateMetadata,
         AddByHand, AppendQuestion, UpdateQuestion, Begin, WriteNext, Return, Crash, packVars
<1> QED
  BY <1>1, <1>2, <1>3, <1>4 DEF PackNext

LEMMA ReadingKept == PackSpec => []Reading
<1>1. PackInit => Reading
  BY DEF PackInit, Reading, Held
<1>2. Reading /\ [PackNext]_packVars => Reading'
  BY StepReading
<1> QED
  BY <1>1, <1>2, PTL DEF PackSpec

LEMMA ComposedKept ==
  ASSUME Apart
  PROVE  PackSpec => []Composed
<1>1. PackInit => Composed
  BY DEF PackInit, Composed, Held
<1>2. Writing /\ Composed /\ [PackNext]_packVars => Composed'
  <2> SUFFICES ASSUME Writing, Composed, [PackNext]_packVars PROVE Composed'
    OBVIOUS
  <2>1. CASE \E id \in Ids : Load(id)
    <3>1. PICK id \in Ids : Load(id)
      BY <2>1
    <3>2. loaded' = LoadContextPack(id)
      BY <3>1 DEF Load
    <3>3. ASSUME LeafLoads(id) PROVE disk[id][MetaPath].composition \in Seq(Ids)
      BY <3>3 DEF LeafLoads, LoadContextMetadata, Writing, DiskSound, OfCaller
    <3> QED
      BY <3>2, <3>3, LoadedIsPack DEF Composed, Held
  <2>2. CASE UNCHANGED loaded
    BY <2>2 DEF Composed, Held
  <2>3. (\E setting \in Settings : Assemble(setting)) \/ WriterNext \/ WriteNext \/ Return
        \/ Crash \/ UNCHANGED packVars => UNCHANGED loaded
    BY DEF WriterNext, Initialize, WriteDiscoveryFile, Finalize, UpdateMetadata, AddByHand,
           AppendQuestion, UpdateQuestion, Begin, WriteNext, Return, Crash, Assemble, packVars
  <2> QED
    BY <2>1, <2>2, <2>3 DEF PackNext
<1> QED
  BY <1>1, <1>2, WritingKept, PTL DEF PackSpec

--------------------------------------------------------------------------------
(***************************************************************************)
(* The files a role is shown, by the places of the packs they are from in  *)
(* the pack as loaded.                                                     *)
(***************************************************************************)
InPhase(setting) ==
  {0} \union (IF setting.injection.include_children
              THEN AccessibleChildren(loaded, setting.sources) ELSE {})

Allowed(p, setting) == {g \in p.request_files : ShouldInclude(g.name, setting.injection)}

Showing(place, f, setting) ==
  [place |-> place, from |-> PackAt(loaded, place).context_id, file |-> f,
   text |-> Compress(f, setting.injection)]

\* Scoping first and injecting the children of the scoped pack shows what the
\* phase may see.
LEMMA RequestIs ==
  ASSUME Reading, Held, NEW setting \in Settings, setting.injection.include_request_files
  PROVE  Prompt(loaded, setting).request =
           UNION {{Showing(place, f, setting) : f \in Allowed(PackAt(loaded, place), setting)} :
                  place \in InPhase(setting)}
<1> DEFINE scoped == ScopedPack(loaded, setting.sources)
           injection == setting.injection
           accessible == AccessibleChildren(loaded, setting.sources)
<1>1. IsPack(loaded)
  BY DEF Reading
<1>2. scoped.children = Restrict(loaded.children, accessible)
  BY <1>1 DEF ScopedPack, IsPack
<1>3. /\ scoped.context_id = loaded.context_id
      /\ scoped.request_files = loaded.request_files
      /\ DOMAIN scoped.children = accessible
      /\ \A i \in accessible : scoped.children[i] = loaded.children[i]
  <2>1. scoped.context_id = loaded.context_id /\ scoped.request_files = loaded.request_files
    BY <1>1 DEF ScopedPack, IsPack
  <2> HIDE DEF scoped, accessible
  <2> QED
    BY <1>2, <2>1 DEF Restrict
<1>4. Prompt(loaded, setting).request = RequestSection(scoped, injection)
  BY DEF Prompt
<1> HIDE DEF scoped
<1>5. Places(scoped, injection) = InPhase(setting)
  BY <1>3 DEF Places, InPhase
<1>6. \A place \in InPhase(setting) :
        /\ PackAt(scoped, place).context_id = PackAt(loaded, place).context_id
        /\ PackAt(scoped, place).request_files = PackAt(loaded, place).request_files
  BY <1>3 DEF PackAt, InPhase
<1>7. RequestSection(scoped, injection) =
        UNION {{[place |-> place, from |-> PackAt(scoped, place).context_id, file |-> f,
                 text |-> Compress(f, injection)] :
                   f \in {g \in PackAt(scoped, place).request_files :
                            ShouldInclude(g.name, injection)}} :
               place \in Places(scoped, injection)}
  BY DEF RequestSection
<1>8. \A place \in InPhase(setting) :
        {[place |-> place, from |-> PackAt(scoped, place).context_id, file |-> f,
          text |-> Compress(f, injection)] :
            f \in {g \in PackAt(scoped, place).request_files : ShouldInclude(g.name, injection)}}
        = {Showing(place, f, setting) : f \in Allowed(PackAt(loaded, place), setting)}
  BY <1>6 DEF Showing, Allowed
<1> QED
  BY <1>4, <1>5, <1>7, <1>8

\* PromptInScope: a role is shown what its phase may see and no other, and one
\* text under a name, unless the pack is composed of itself.
THEOREM ScopeCorrect ==
  ASSUME Apart
  PROVE  PackSpec => []PromptInScope
<1>1. Reading /\ Composed => PromptInScope
  <2> SUFFICES ASSUME Reading, Composed, prompt # Unset,
                      prompt.setting.injection.include_request_files
               PROVE  PromptInScope
    BY DEF PromptInScope
  <2>1. PICK setting \in Settings : prompt = Prompt(loaded, setting) /\ Held
    BY DEF Reading
  <2>2. prompt.setting = setting
    BY <2>1 DEF Prompt
  <2> DEFINE composition == loaded.composition
             inScope == {loaded.context_id} \union
               {id \in ToSet(composition) :
                  /\ setting.injection.include_children
                  /\ setting.sources = Unset \/ id \in setting.sources}
             packs == {loaded} \union Range(loaded.children)
             files(p) == {g \in p.request_files : ShouldInclude(g.name, setting.injection)}
             visible == {q \in packs : q.context_id \in inScope}
             request == prompt.request
  <2>3. request = UNION {{Showing(place, f, setting) : f \in files(PackAt(loaded, place))} :
                         place \in InPhase(setting)}
    BY <2>1, <2>2, RequestIs DEF Allowed
  <2>4. IsPack(loaded) /\ Resolved(loaded) /\ composition \in Seq(Ids)
    BY <2>1 DEF Reading, Composed
  <2>5. 0 \notin DOMAIN composition /\ DOMAIN loaded.children = DOMAIN composition
    BY <2>4 DEF Resolved
  \* The places of children are those of packs the phase may see.
  <2>6. ASSUME NEW place \in InPhase(setting), place # 0
        PROVE  /\ place \in DOMAIN composition
               /\ setting.injection.include_children
               /\ PackAt(loaded, place) = loaded.children[place]
               /\ PackAt(loaded, place) \in packs
               /\ PackAt(loaded, place).context_id = composition[place]
               /\ setting.sources = Unset \/ composition[place] \in setting.sources
    <3>1. /\ setting.injection.include_children
          /\ place \in AccessibleChildren(loaded, setting.sources)
      BY <2>6 DEF InPhase
    <3>2. place \in DOMAIN composition /\ PackAt(loaded, place) = loaded.children[place]
      BY <2>5, <2>6, <3>1 DEF AccessibleChildren, PackAt
    <3>3. loaded.children[place].context_id = composition[place]
      BY <2>4, <3>2 DEF Resolved
    <3>4. loaded.children[place] \in Range(loaded.children)
      BY <2>5, <3>2 DEF Range
    <3> QED
      BY <3>1, <3>2, <3>3, <3>4 DEF AccessibleChildren
  <2>7. PackAt(loaded, 0) = loaded /\ 0 \in InPhase(setting)
    BY DEF PackAt, InPhase
  <2>8. ASSUME NEW s \in request
        PROVE  \E place \in InPhase(setting) : \E f \in files(PackAt(loaded, place)) :
                 s = Showing(place, f, setting)
    BY <2>3
  <2>9. \A place \in InPhase(setting) : PackAt(loaded, place) \in visible
    <3>1. PackAt(loaded, 0) \in visible
      BY <2>7
    <3>2. ASSUME NEW place \in InPhase(setting), place # 0
          PROVE  PackAt(loaded, place) \in visible
      <4>1. composition[place] \in ToSet(composition)
        BY <2>6, <3>2 DEF ToSet
      <4>2. composition[place] \in inScope
        BY <2>6, <3>2, <4>1
      <4> HIDE DEF inScope, packs
      <4> QED
        BY <2>6, <3>2, <4>2
    <3> QED
      BY <3>1, <3>2
  \* What is visible is shown at some place: a pack that is composed of itself
  \* and not named by the phase at its own.
  <2>10. ASSUME NEW p \in visible
         PROVE  \E place \in InPhase(setting) :
                  /\ PackAt(loaded, place).context_id = p.context_id
                  /\ files(PackAt(loaded, place)) = files(p)
    <3>1. CASE p = loaded
      BY <2>7, <3>1
    <3>2. CASE p # loaded
      <4>1. PICK i \in DOMAIN composition : p = loaded.children[i]
        BY <2>5, <3>2 DEF Range
      <4>2. /\ p.context_id = composition[i]
            /\ composition[i] = loaded.context_id => p.request_files = loaded.request_files
        BY <2>4, <4>1 DEF Resolved
      <4>3. CASE composition[i] = loaded.context_id
        BY <2>7, <4>2, <4>3
      <4>4. CASE composition[i] # loaded.context_id
        <5>1. /\ setting.injection.include_children
              /\ setting.sources = Unset \/ composition[i] \in setting.sources
          BY <4>2, <4>4
        <5>2. i \in InPhase(setting) /\ PackAt(loaded, i) = p
          BY <2>5, <4>1, <4>2, <5>1 DEF InPhase, AccessibleChildren, PackAt
        <5> QED
          BY <5>2
      <4> QED
        BY <4>3, <4>4
    <3> QED
      BY <3>1, <3>2
  <2> HIDE DEF files, visible, request, composition
  <2>11. {<<s.from, s.file>> : s \in request}
           = UNION {{<<p.context_id, f>> : f \in files(p)} : p \in visible}
    <3>1. ASSUME NEW s \in request
          PROVE  \E p \in visible : \E f \in files(p) : <<s.from, s.file>> = <<p.context_id, f>>
      <4>1. PICK place \in InPhase(setting) : \E f \in files(PackAt(loaded, place)) :
                   s = Showing(place, f, setting)
        BY <2>8
      <4>2. PICK f \in files(PackAt(loaded, place)) : s = Showing(place, f, setting)
        BY <4>1
      <4>3. s.from = PackAt(loaded, place).context_id /\ s.file = f
        BY <4>2 DEF Showing
      <4> QED
        BY <2>9, <4>2, <4>3
    <3>2. ASSUME NEW p \in visible, NEW f \in files(p)
          PROVE  \E s \in request : <<s.from, s.file>> = <<p.context_id, f>>
      <4>1. PICK place \in InPhase(setting) :
                  /\ PackAt(loaded, place).context_id = p.context_id
                  /\ files(PackAt(loaded, place)) = files(p)
        BY <2>10
      <4>2. Showing(place, f, setting) \in request
        BY <2>3, <4>1
      <4>3. /\ Showing(place, f, setting).from = p.context_id
            /\ Showing(place, f, setting).file = f
        BY <4>1 DEF Showing
      <4> QED
        BY <4>2, <4>3
    <3> QED
      BY <3>1, <3>2
  <2>12. ASSUME NEW s \in request, NEW t \in request,
                s.from = t.from, s.file.name = t.file.name
         PROVE  \/ s = t
                \/ s.from = loaded.context_id /\ s.from \in ToSet(composition)
    <3>1. PICK a \in InPhase(setting) : \E f \in files(PackAt(loaded, a)) :
                 s = Showing(a, f, setting)
      BY <2>8
    <3>2. PICK f \in files(PackAt(loaded, a)) : s = Showing(a, f, setting)
      BY <3>1
    <3>3. PICK b \in InPhase(setting) : \E g \in files(PackAt(loaded, b)) :
                 t = Showing(b, g, setting)
      BY <2>8
    <3>4. PICK g \in files(PackAt(loaded, b)) : t = Showing(b, g, setting)
      BY <3>3
    <3>5. /\ s.from = PackAt(loaded, a).context_id /\ s.file = f
          /\ t.from = PackAt(loaded, b).context_id /\ t.file = g
      BY <3>2, <3>4 DEF Showing
    <3>6. CASE a = b
      <4>1. IsPack(PackAt(loaded, a))
        BY <2>4, <2>6, <2>7 DEF Resolved, composition
      <4>2. f = g
        BY <2>12, <3>5, <3>6, <4>1 DEF IsPack, files
      <4> QED
        BY <3>2, <3>4, <3>6, <4>2
    <3>7. CASE a # b /\ a # 0 /\ b # 0
      <4>1. /\ a \in DOMAIN composition /\ b \in DOMAIN composition
            /\ composition[a] = composition[b]
        BY <2>6, <2>12, <3>5, <3>7
      <4> QED
        BY <2>4, <3>7, <4>1 DEF Resolved, IsInjective, composition
    <3>8. CASE a # b /\ (a = 0 \/ b = 0)
      <4>1. PICK place \in {a, b} : place # 0 /\ place \in DOMAIN composition
                                  /\ PackAt(loaded, place).context_id = composition[place]
        BY <2>6, <3>8
      <4>2. composition[place] \in ToSet(composition)
        BY <4>1 DEF ToSet
      <4>3. s.from = composition[place] /\ s.from = loaded.context_id
        BY <2>7, <2>12, <3>5, <3>8, <4>1
      <4> QED
        BY <4>2, <4>3
    <3> QED
      BY <3>6, <3>7, <3>8
  <2> QED
    BY <2>2, <2>11, <2>12 DEF PromptInScope, files, visible, request, composition
<1> QED
  BY <1>1, ReadingKept, ComposedKept, PTL

--------------------------------------------------------------------------------
(***************************************************************************)
(* Compression: what is shown of a text, and that the rest is counted.     *)
(***************************************************************************)
Shown(text, n) == text.head \in Nat /\ text.tail \in Nat /\ text.head + text.tail <= n

Counted(text, n) == Shown(text, n) /\ text.head + text.tail + text.omitted = n

LEMMA TwoIntegers ==
  ASSUME NEW a \in Int, NEW b \in Int
  PROVE  /\ Min({a, b}) = IF a <= b THEN a ELSE b
         /\ Max({a, b}) = IF a >= b THEN a ELSE b
<1>1. \E x \in {a, b} : \A y \in {a, b} : x <= y
  OBVIOUS
<1>2. \E x \in {a, b} : \A y \in {a, b} : x >= y
  OBVIOUS
<1>3. Min({a, b}) \in {a, b} /\ \A y \in {a, b} : Min({a, b}) <= y
  BY <1>1 DEF Min
<1>4. Max({a, b}) \in {a, b} /\ \A y \in {a, b} : Max({a, b}) >= y
  BY <1>2 DEF Max
<1> QED
  BY <1>3, <1>4

LEMMA SliceBounds ==
  ASSUME NEW n \in Nat, NEW limit \in Int
  PROVE  /\ Sliced(n, limit) \in 0..n
         /\ limit \in 0..n => Sliced(n, limit) = limit
<1> DEFINE end == n + limit
<1>1. Max({0, end}) = IF 0 >= end THEN 0 ELSE end
  <2>1. 0 \in Int /\ end \in Int
    OBVIOUS
  <2> HIDE DEF end
  <2> QED
    BY <2>1, TwoIntegers
<1>2. Min({n, limit}) = IF n <= limit THEN n ELSE limit
  BY TwoIntegers
<1> QED
  BY <1>1, <1>2 DEF Sliced

LEMMA WholeCounts == \A n \in Nat : Counted(Whole(n), n)
BY DEF Whole, Counted, Shown

LEMMA TruncateCounts ==
  ASSUME NEW n \in Nat, NEW limit \in Nat
  PROVE  Counted(Truncate(n, limit), n)
<1>1. CASE n <= limit
  BY <1>1, WholeCounts DEF Truncate
<1>2. CASE ~(n <= limit)
  <2>1. Sliced(n, limit) = limit
    BY <1>2, SliceBounds
  <2>2. Truncate(n, limit) = [Whole(limit) EXCEPT !.omitted = n - limit]
    BY <1>2, <2>1 DEF Truncate
  <2> QED
    BY <1>2, <2>2 DEF Whole, Counted, Shown
<1> QED
  BY <1>1, <1>2

LEMMA CollapseCounts ==
  ASSUME NEW n \in Nat, NEW limit \in Nat, limit >= 1
  PROVE  Counted(CollapseCode(n, limit), n)
<1> DEFINE k == limit \div 2
           half == Max({1, k})
<1>1. k \in Nat /\ 2 * k <= limit
  OBVIOUS
<1>2. half = IF 1 >= k THEN 1 ELSE k
  <2> HIDE DEF k
  <2> QED
    BY <1>1, TwoIntegers
<1>3. CollapseCode(n, limit) = IF n <= limit THEN Whole(n)
        ELSE [Whole(Min({n, half})) EXCEPT !.omitted = n - 2 * half, !.tail = Min({n, half})]
  BY DEF CollapseCode
<1> HIDE DEF k, half
<1>4. half \in Nat /\ (~(n <= limit) => 2 * half <= n)
  BY <1>1, <1>2
<1>5. CASE n <= limit
  BY <1>3, <1>5, WholeCounts
<1>6. CASE ~(n <= limit)
  <2>1. Min({n, half}) = half
    BY <1>4, <1>6, TwoIntegers
  <2>2. CollapseCode(n, limit) = [Whole(half) EXCEPT !.omitted = n - 2 * half, !.tail = half]
    BY <1>3, <1>6, <2>1
  <2> QED
    BY <1>4, <1>6, <2>2 DEF Whole, Counted, Shown
<1> QED
  BY <1>5, <1>6

LEMMA CollapseBlocksCounts == \A n \in Nat : Counted(CollapseCodeBlocks(n, 6), n)
<1>1. 6 \div 2 = 3
  OBVIOUS
<1>2. \A n \in Nat : CollapseCodeBlocks(n, 6) =
        IF n <= 6 THEN Whole(n) ELSE [Whole(3) EXCEPT !.omitted = n - 6, !.tail = 3]
  BY <1>1 DEF CollapseCodeBlocks
<1>3. \A n \in Nat : ~(n <= 6) => Counted([Whole(3) EXCEPT !.omitted = n - 6, !.tail = 3], n)
  BY DEF Counted, Shown, Whole
<1> QED
  BY <1>2, <1>3, WholeCounts

LEMMA PolicyCounts ==
  ASSUME NEW file, file.size \in Nat, NEW policy, policy.limit \in Nat
  PROVE  LET text == ApplyChunkPolicy(file, policy)
         IN Counted(text, file.size) \/ (file.kind = "diagram" /\ text = Whole(0))
<1> DEFINE Or(default) == IF policy.limit = 0 THEN default ELSE policy.limit
<1>1. Or(5) \in Nat /\ Or(3) \in Nat /\ Or(6) \in Nat /\ Or(6) >= 1
  OBVIOUS
<1>2. \/ ApplyChunkPolicy(file, policy) \in
           {Truncate(file.size, Or(5)), Truncate(file.size, Or(3)),
            CollapseCode(file.size, Or(6)), Whole(file.size)}
      \/ file.kind = "diagram" /\ ApplyChunkPolicy(file, policy) = Whole(0)
  BY DEF ApplyChunkPolicy
<1> HIDE DEF Or
<1>3. /\ Counted(Truncate(file.size, Or(5)), file.size)
      /\ Counted(Truncate(file.size, Or(3)), file.size)
  BY <1>1, TruncateCounts
<1>4. Counted(CollapseCode(file.size, Or(6)), file.size)
  BY <1>1, CollapseCounts
<1>5. Counted(Whole(file.size), file.size)
  BY WholeCounts
<1> QED
  BY <1>2, <1>3, <1>4, <1>5

\* The slice of a text shows no more than the text, and is marked.
LEMMA CutShows ==
  ASSUME NEW n \in Nat, NEW text, Shown(text, n), NEW max \in Int \union {Unset}
  PROVE  LET cut == CutAt(text, max)
         IN cut = text \/ (cut.cut /\ Shown(cut, n))
<1> DEFINE length == text.head + text.tail
           kept == Sliced(length, max)
           first == Min({text.head, kept})
<1>1. text.head \in Nat /\ text.tail \in Nat /\ length \in Nat /\ length <= n
  BY DEF Shown
<1>2. CASE max = Unset \/ length <= max
  BY <1>2 DEF CutAt
<1>3. CASE ~(max = Unset \/ length <= max)
  <2>1. kept \in 0..length
    <3>1. max \in Int
      BY <1>3
    <3> HIDE DEF length
    <3> QED
      BY <1>1, <3>1, SliceBounds
  <2>2. CutAt(text, max) =
          [head |-> first, omitted |-> IF kept > text.head THEN text.omitted ELSE 0,
           tail |-> kept - first, cut |-> TRUE]
    BY <1>3 DEF CutAt
  <2> HIDE DEF kept
  <2>3. first = IF text.head <= kept THEN text.head ELSE kept
    BY <1>1, <2>1, TwoIntegers
  <2> HIDE DEF first
  <2> QED
    BY <1>1, <2>1, <2>2, <2>3 DEF Shown
<1> QED
  BY <1>2, <1>3

LEMMA CompressCounts ==
  ASSUME NEW file \in RequestFiles, NEW setting \in Settings,
         \/ setting.injection.compression.mode # "semantic"
         \/ PolicyFor(file, setting.injection.compression).limit >= 0
  PROVE  LET compression == setting.injection.compression
             size == file.size - IF compression.mode = "simple" THEN file.noise ELSE 0
             text == Compress(file, setting.injection)
             shown == text.head + text.tail
         IN /\ shown <= size
            /\ \/ shown + text.omitted = size
               \/ text.cut
               \/ file.kind = "diagram" /\ shown = 0
<1> DEFINE compression == setting.injection.compression
           size == file.size - IF compression.mode = "simple" THEN file.noise ELSE 0
           policy == PolicyFor(file, compression)
           max == setting.injection.max_file_chars
           full == CASE compression.mode = "none" -> Whole(file.size)
                     [] compression.mode = "semantic" -> ApplyChunkPolicy(file, policy)
                     [] compression.mode = "simple" -> Markdown(file)
<1>1. file.size \in Nat /\ file.noise \in 0..file.size /\ file.kind \in DOMAIN DefaultPolicies
  BY PackAssumption
<1>2. /\ compression.mode \in {"none", "simple", "semantic"}
      /\ \A kind \in DOMAIN compression.policies : compression.policies[kind].limit \in Int
      /\ max \in Int \union {Unset}
  BY SettingsAssumption
<1>3. size \in Nat
  BY <1>1
<1>4. policy.limit \in Int
  <2>1. DefaultPolicies[file.kind].limit \in Int
    BY <1>1 DEF DefaultPolicies
  <2> QED
    BY <1>2, <2>1 DEF PolicyFor
<1>5. compression.mode = "semantic" => policy.limit >= 0
  OBVIOUS
<1>6. Compress(file, setting.injection) = CutAt(full, max)
  BY DEF Compress
<1>7. Counted(full, size) \/ (file.kind = "diagram" /\ full = Whole(0))
  <2>1. CASE compression.mode = "none"
    <3>1. full = Whole(file.size) /\ size = file.size
      BY <1>1, <2>1
    <3> HIDE DEF full, size
    <3> QED
      BY <1>1, <3>1, WholeCounts
  <2>2. CASE compression.mode = "semantic"
    <3>1. full = ApplyChunkPolicy(file, policy) /\ size = file.size
      BY <1>1, <2>2
    <3>2. policy.limit \in Nat
      BY <1>4, <1>5, <2>2
    <3> HIDE DEF full, policy, size
    <3> QED
      BY <1>1, <3>1, <3>2, PolicyCounts
  <2>3. CASE compression.mode = "simple"
    <3>1. full \in {CollapseCodeBlocks(size, 6), Whole(size)}
      BY <2>3 DEF Markdown
    <3> HIDE DEF full, size
    <3>2. Counted(CollapseCodeBlocks(size, 6), size) /\ Counted(Whole(size), size)
      BY <1>3, WholeCounts, CollapseBlocksCounts
    <3> QED
      BY <3>1, <3>2
  <2> QED
    BY <1>2, <2>1, <2>2, <2>3
<1> HIDE DEF full, size, max
<1>8. /\ Shown(full, size)
      /\ \/ file.kind = "diagram" /\ full.head + full.tail = 0
         \/ full.head + full.tail + full.omitted = size
  BY <1>3, <1>7 DEF Counted, Shown, Whole
<1>9. CutAt(full, max) = full \/ (CutAt(full, max).cut /\ Shown(CutAt(full, max), size))
  BY <1>2, <1>3, <1>8, CutShows
<1> QED
  BY <1>3, <1>6, <1>8, <1>9 DEF Shown, size

\* NothingShownTwice: what is shown of a file is no more than there is of it,
\* and the rest is counted, cut off with a mark, or a whole diagram, whatever
\* the limits that are not negative.
THEOREM CompressionCorrect == PackSpec => []NothingShownTwice
<1>1. Reading => NothingShownTwice
  <2> SUFFICES ASSUME Reading, prompt # Unset PROVE NothingShownTwice
    BY DEF NothingShownTwice
  <2>1. PICK setting \in Settings : prompt = Prompt(loaded, setting) /\ Held
    BY DEF Reading
  <2>2. /\ prompt.setting = setting
        /\ prompt.request = RequestSection(ScopedPack(loaded, setting.sources), setting.injection)
    BY <2>1 DEF Prompt
  <2>3. ASSUME NEW s \in prompt.request
        PROVE  s.file \in RequestFiles /\ s.text = Compress(s.file, setting.injection)
    <3>1. setting.injection.include_request_files
      BY <2>2, <2>3, SettingsAssumption DEF RequestSection
    <3>2. PICK place \in InPhase(setting) :
                 \E f \in Allowed(PackAt(loaded, place), setting) : s = Showing(place, f, setting)
      BY <2>1, <2>3, <3>1, RequestIs
    <3>3. PICK f \in Allowed(PackAt(loaded, place), setting) : s = Showing(place, f, setting)
      BY <3>2
    <3>4. PackAt(loaded, place).request_files \subseteq RequestFiles
      BY <2>1 DEF Reading, Resolved, IsPack, InPhase, AccessibleChildren, PackAt
    <3> QED
      BY <3>3, <3>4 DEF Allowed, Showing
  <2> QED
    BY <2>2, <2>3, CompressCounts DEF NothingShownTwice
<1> QED
  BY <1>1, ReadingKept, PTL

--------------------------------------------------------------------------------
(***************************************************************************)
(* The history a role is shown, where each log is in the order of time, as *)
(* the engine appends it.                                                  *)
(***************************************************************************)
InOrder(log) == \A i, j \in DOMAIN log : i <= j => log[i].ended_at <= log[j].ended_at

Chronological ==
  \A setting \in Settings : InOrder(setting.history.iterations) /\ InOrder(setting.history.reviews)

\* The newest entry of all, if it is another phase's, is the one the filter
\* goes by: of entries that ended with it, only its own copies.
LEMMA NewestPrecedes ==
  ASSUME NEW S, \A e \in S : e.ended_at \in Nat,
         NEW iterations \in Seq(S), NEW reviews \in Seq(S), NEW current,
         NEW newest \in ToSet(iterations \o reviews), newest.phase_id # current,
         \A e \in ToSet(iterations \o reviews) \ {newest} : e.ended_at < newest.ended_at
  PROVE  PrecedingPhase(iterations, reviews, current) = newest.phase_id
<1> DEFINE all == iterations \o reviews
           others == {i \in DOMAIN all : all[i].phase_id # current}
           Later(i, j) == \/ all[i].ended_at > all[j].ended_at
                          \/ all[i].ended_at = all[j].ended_at /\ i >= j
           chosen == CHOOSE i \in others : \A j \in others : Later(i, j)
           copies == {i \in DOMAIN all : all[i] = newest}
<1>1. all \in Seq(S) /\ DOMAIN all = 1..Len(all) /\ Len(all) \in Nat
  OBVIOUS
<1>2. PrecedingPhase(iterations, reviews, current)
        = IF others = {} THEN NoPhase ELSE all[chosen].phase_id
  BY DEF PrecedingPhase
<1>3. newest \in ToSet(all) /\ \A e \in ToSet(all) \ {newest} : e.ended_at < newest.ended_at
  OBVIOUS
<1> HIDE DEF all
<1>4. \A i \in DOMAIN all : all[i] \in ToSet(all) /\ all[i] \in S /\ all[i].ended_at \in Nat
  BY <1>1 DEF ToSet
<1>5. copies \in SUBSET (0..Len(all)) /\ copies # {} /\ copies \subseteq others
  BY <1>1, <1>3 DEF ToSet
<1>6. PICK m \in copies : \A j \in copies : j <= m
  <2> HIDE DEF copies
  <2> QED
    BY <1>1, <1>5, Greatest
<1>7. m \in others /\ all[m] = newest
  BY <1>5, <1>6
<1>8. ASSUME NEW j \in others PROVE Later(m, j)
  <2>1. CASE all[j] = newest
    BY <1>1, <1>6, <1>7, <2>1, <1>4
  <2>2. CASE all[j] # newest
    <3>1. all[j].ended_at < newest.ended_at
      BY <1>3, <1>4, <2>2
    <3> QED
      BY <1>4, <1>7, <3>1
  <2> QED
    BY <2>1, <2>2
<1>9. chosen \in others /\ \A j \in others : Later(chosen, j)
  <2> HIDE DEF others, Later
  <2> QED
    BY <1>7, <1>8
<1>10. all[chosen] = newest
  <2> HIDE DEF chosen
  <2>1. chosen \in DOMAIN all /\ Later(chosen, m)
    BY <1>7, <1>9
  <2>2. ~(all[chosen].ended_at < newest.ended_at)
    BY <1>4, <1>7, <2>1
  <2> QED
    BY <1>3, <1>4, <2>1, <2>2
<1> HIDE DEF chosen, others
<1> QED
  BY <1>2, <1>7, <1>10

\* A window of at least one entry shows the last of what is kept.
LEMMA LastIsShown ==
  ASSUME NEW n \in Nat, NEW kept \in SUBSET (1..n), kept # {},
         NEW max \in Nat \union {Unset}, max # 0
  PROVE  \E m \in Window(kept, max).shown : m \in kept /\ \A j \in kept : j <= m
<1>1. kept \in SUBSET (0..n)
  OBVIOUS
<1>2. PICK m \in kept : \A j \in kept : j <= m
  BY <1>1, Greatest
<1> DEFINE after == {j \in kept : j >= m}
<1>3. after = {m}
  <2>1. \A j \in kept : j \in Int
    BY <1>1
  <2>2. \A j \in kept : j >= m <=> j = m
    BY <1>2, <2>1
  <2> QED
    BY <2>2
<1>4. Cardinality(after) = 1
  <2> HIDE DEF after
  <2> QED
    BY <1>3, FS_Singleton
<1>5. Window(kept, max).shown =
        IF max \in {Unset, 0} THEN kept
        ELSE {i \in kept : Cardinality({j \in kept : j >= i}) <= max}
  BY DEF Window
<1>6. max \notin {Unset, 0} => 1 <= max
  OBVIOUS
<1>7. m \in Window(kept, max).shown
  BY <1>4, <1>5, <1>6
<1> QED
  BY <1>2, <1>7

LEMMA NewestInWindow ==
  ASSUME NEW log, IsList(log), InOrder(log), \A e \in ToSet(log) : e.ended_at \in Nat,
         NEW newest \in ToSet(log),
         \A e \in ToSet(log) \ {newest} : e.ended_at < newest.ended_at,
         NEW kept \in SUBSET DOMAIN log, \A i \in DOMAIN log : log[i] = newest => i \in kept,
         NEW max \in Nat \union {Unset}, max # 0
  PROVE  \E i \in Window(kept, max).shown : log[i] = newest
<1>1. log \in Seq(ToSet(log)) /\ DOMAIN log = 1..Len(log) /\ Len(log) \in Nat
  BY DEF IsList
<1>2. PICK k \in DOMAIN log : log[k] = newest
  BY DEF ToSet
<1>3. k \in kept /\ kept \in SUBSET (1..Len(log))
  BY <1>1, <1>2
<1>4. PICK m \in Window(kept, max).shown : m \in kept /\ \A j \in kept : j <= m
  BY <1>1, <1>3, LastIsShown
<1>5. m \in DOMAIN log /\ k <= m
  BY <1>3, <1>4
<1>6. newest.ended_at <= log[m].ended_at
  BY <1>2, <1>5 DEF InOrder
<1>7. log[m] \in ToSet(log)
  BY <1>5 DEF ToSet
<1>8. log[m] = newest
  BY <1>6, <1>7
<1> QED
  BY <1>4, <1>8

\* HandedOverIsShown: with a window of at least one entry, newest work of
\* another phase is shown, filtered or not.
THEOREM HandoverCorrect ==
  ASSUME Chronological
  PROVE  PackSpec => []HandedOverIsShown
<1>1. Reading => HandedOverIsShown
  <2> SUFFICES ASSUME Reading, prompt # Unset,
                      prompt.setting.efficiency.max_history_entries # 0,
                      NEW newest \in ToSet(prompt.setting.history.iterations
                                             \o prompt.setting.history.reviews),
                      newest.phase_id # prompt.setting.phase_id,
                      \A e \in ToSet(prompt.setting.history.iterations
                                       \o prompt.setting.history.reviews) \ {newest} :
                         e.ended_at < newest.ended_at
               PROVE  LET history == prompt.setting.history
                      IN \/ \E i \in prompt.context.iterations.shown :
                               history.iterations[i] = newest
                         \/ \E i \in prompt.context.reviews.shown :
                               history.reviews[i] = newest
    BY DEF HandedOverIsShown
  <2>1. PICK setting \in Settings : prompt = Prompt(loaded, setting)
    BY DEF Reading
  <2>2. /\ prompt.setting = setting
        /\ prompt.context = ContextSection(setting.history, setting.phase_id, setting.efficiency)
    BY <2>1 DEF Prompt
  <2> DEFINE iterations == setting.history.iterations
             reviews == setting.history.reviews
             current == setting.phase_id
             efficiency == setting.efficiency
             max == efficiency.max_history_entries
             S == ToSet(iterations) \union ToSet(reviews)
             allowed == {current, PrecedingPhase(iterations, reviews, current)}
             Kept(log) ==
               {i \in DOMAIN log : efficiency.phase_filter => log[i].phase_id \in allowed}
  <2>3. /\ IsList(iterations) /\ IsList(reviews)
        /\ \A e \in S : e.ended_at \in Nat
        /\ efficiency.phase_filter \in BOOLEAN /\ max \in Nat \union {Unset}
    BY SettingsAssumption DEF IsList
  <2>4. InOrder(iterations) /\ InOrder(reviews)
    BY DEF Chronological
  <2>5. ToSet(iterations \o reviews) = S
    <3>1. ToSet(iterations \o reviews) \subseteq S
      BY <2>3, ListConcat
    <3>2. S \subseteq ToSet(iterations \o reviews)
      BY <2>3, ConcatHolds
    <3> QED
      BY <3>1, <3>2
  <2>6. newest \in S /\ \A e \in S \ {newest} : e.ended_at < newest.ended_at
    BY <2>2, <2>5
  <2>7. newest.phase_id # current /\ max # 0
    BY <2>2
  <2>8. newest.phase_id \in allowed
    <3>1. iterations \in Seq(S) /\ reviews \in Seq(S)
      BY <2>3 DEF IsList
    <3>2. PrecedingPhase(iterations, reviews, current) = newest.phase_id
      <4> HIDE DEF iterations, reviews, S, current
      <4> QED
        BY <2>3, <2>5, <2>6, <2>7, <3>1, NewestPrecedes
    <3> QED
      BY <3>2
  <2>9. /\ prompt.context.iterations = Window(Kept(iterations), max)
        /\ prompt.context.reviews = Window(Kept(reviews), max)
    BY <2>2 DEF ContextSection
  <2> HIDE DEF allowed
  <2>10. ASSUME NEW log, IsList(log), InOrder(log), ToSet(log) \subseteq S,
                newest \in ToSet(log)
         PROVE  \E i \in Window(Kept(log), max).shown : log[i] = newest
    <3>1. Kept(log) \in SUBSET DOMAIN log /\ \A i \in DOMAIN log : log[i] = newest => i \in Kept(log)
      BY <2>8
    <3> HIDE DEF Kept, S, max
    <3> QED
      BY <2>3, <2>6, <2>7, <2>10, <3>1, NewestInWindow
  <2>11. CASE newest \in ToSet(iterations)
    <3>1. \E i \in Window(Kept(iterations), max).shown : iterations[i] = newest
      BY <2>3, <2>4, <2>10, <2>11
    <3> QED
      BY <2>2, <2>9, <3>1
  <2>12. CASE newest \in ToSet(reviews)
    <3>1. \E i \in Window(Kept(reviews), max).shown : reviews[i] = newest
      BY <2>3, <2>4, <2>10, <2>12
    <3> QED
      BY <2>2, <2>9, <3>1
  <2> QED
    BY <2>6, <2>11, <2>12
<1> QED
  BY <1>1, ReadingKept, PTL

===============================================================================
