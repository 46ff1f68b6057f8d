-------------------------- MODULE FsStateStoreProofs --------------------------
(***************************************************************************)
(* Two files compare as the records themselves would, for any number of    *)
(* saves: when clients take turns and none crashes or deletes, and for one *)
(* client that crashes and deletes as often as it likes.                   *)
(***************************************************************************)
EXTENDS FsStateStore, SequenceTheorems, TLAPS

Held == [record : Records \cup {NoRecord}, revision : Nat]

\* What is appended to a record is a record again, and not the one before.
LEMMA SnapshotRecord ==
  ASSUME NEW c \in Clients, stored[c].record \in Records
  PROVE  /\ Snapshot(c) \in Records
         /\ Len(Snapshot(c)) = Len(stored[c].record) + 1
BY AppendProperties DEF Snapshot, Records

LEMMA FreshRecord == Fresh \in Records /\ Len(Fresh) = 0 /\ Fresh # NoRecord
BY EmptySeq, StoreAssumption DEF Fresh, Records

LEMMA NothingHeld == Nothing \in Held /\ Nothing.record = NoRecord
BY DEF Nothing, Held

\* Where clients stand when a save or an initialize writes the state file.
WritesSeen ==
  \A c \in Clients :
     /\ pc[c] = "saving" => stored[c].record = state /\ state # NoRecord
     /\ pc[c] = "saved" => stored[c].record # NoRecord
     /\ pc[c] = "initializing" => state = NoRecord

\* What a client is about to write is carried on from a record it holds.
Carries == \A c \in Clients : pc[c] \in {"saving", "saved"} => stored[c].record # NoRecord

LEMMA SeenCarries == WritesSeen => Carries
BY DEF WritesSeen, Carries

-------------------------------------------------------------------------------
LEMMA TypeInit == Init => TypeOK
BY NothingHeld, StoreAssumption DEF Init, TypeOK, Held, Places

LEMMA ReadRevisionNat == ASSUME TypeOK PROVE ReadRevision \in Nat
BY DEF TypeOK, ReadRevision

\* A step of a client that changes its place and what it holds.
LEMMA ClientTyped ==
  ASSUME TypeOK, NEW c \in Clients,
         pc' = pc \/ \E place \in Places : Goes(c, place),
         stored' = stored \/ \E session \in Held : Holds(c, session)
  PROVE  /\ pc' \in [Clients -> Places]
         /\ stored' \in [Clients -> Held]
BY DEF TypeOK, Held, Goes, Holds

LEMMA TypeNext ==
  ASSUME TypeOK, Carries, [Next]_vars
  PROVE  TypeOK'
<1>1. CASE UNCHANGED vars
  BY <1>1 DEF TypeOK, vars
<1>2. ASSUME NEW c \in Clients,
             \/ Load(c) \/ LoadRevision(c)
             \/ Save(c) \/ SaveState(c) \/ SaveRevision(c)
             \/ Initialize(c) \/ InitializeState(c) \/ InitializeRevision(c)
             \/ Delete(c) \/ DeleteRevision(c) \/ Crash(c)
      PROVE  TypeOK'
  <2> stored[c] \in Held /\ state \in Records \cup {NoRecord}
    BY DEF TypeOK, Held
  <2> Places = {"idle", "loading", "saving", "saved", "initializing",
                "initialized", "deleting"}
    BY DEF Places
  <2>1. CASE Load(c)
    <3>1. Holding(state, 0) \in Held
      BY DEF Holding, Held
    <3> QED
      BY <2>1, <3>1, ClientTyped, NothingHeld DEF Load, TypeOK, Held
  <2>2. CASE LoadRevision(c)
    <3>1. Holding(stored[c].record, ReadRevision) \in Held
      BY ReadRevisionNat DEF Holding, Held
    <3> QED
      BY <2>2, <3>1, ClientTyped DEF LoadRevision, TypeOK, Held
  <2>3. CASE Save(c)
    BY <2>3, ClientTyped, NothingHeld DEF Save, TypeOK, Held
  <2>4. CASE SaveState(c)
    <3>1. Snapshot(c) \in Records
      BY <2>4, SnapshotRecord DEF SaveState, Carries, Held
    <3> QED
      BY <2>4, <3>1, ClientTyped DEF SaveState, TypeOK, Held
  <2>5. CASE SaveRevision(c)
    <3>1. Snapshot(c) \in Records
      BY <2>5, SnapshotRecord DEF SaveRevision, Carries, Held
    <3>2. stored[c].revision + 1 \in Nat
      BY DEF Held
    <3>3. Holding(Snapshot(c), stored[c].revision + 1) \in Held
      BY <3>1, <3>2 DEF Holding, Held
    <3> QED
      BY <2>5, <3>2, <3>3, ClientTyped DEF SaveRevision, TypeOK, Held
  <2>6. CASE Initialize(c)
    BY <2>6, ClientTyped DEF Initialize, TypeOK, Held
  <2>7. CASE InitializeState(c)
    BY <2>7, ClientTyped, FreshRecord DEF InitializeState, TypeOK, Held
  <2>8. CASE InitializeRevision(c)
    <3>1. Holding(Fresh, 0) \in Held
      BY FreshRecord DEF Holding, Held
    <3> QED
      BY <2>8, <3>1, ClientTyped DEF InitializeRevision, TypeOK, Held
  <2>9. CASE Delete(c)
    BY <2>9, ClientTyped DEF Delete, TypeOK, Held
  <2>10. CASE DeleteRevision(c)
    BY <2>10, ClientTyped DEF DeleteRevision, TypeOK, Held
  <2>11. CASE Crash(c)
    <3>1. crashes' \in 0..MaxCrashes
      BY <2>11, StoreAssumption DEF Crash, TypeOK
    <3> QED
      BY <2>11, <3>1, ClientTyped, NothingHeld DEF Crash, TypeOK, Held
  <2> QED
    BY <1>2, <2>1, <2>2, <2>3, <2>4, <2>5, <2>6, <2>7, <2>8, <2>9, <2>10, <2>11
<1> QED
  BY <1>1, <1>2 DEF Next

-------------------------------------------------------------------------------
(***************************************************************************)
(* Types, for any number of processes that overlap, crash and delete as    *)
(* they like: a client that holds no record holds nothing at all, so that  *)
(* a save has always a record to carry on.                                 *)
(***************************************************************************)
Known ==
  \A c \in Clients :
    /\ stored[c].record = NoRecord => stored[c] = Nothing
    /\ pc[c] \in {"loading", "saving", "saved"} => stored[c].record # NoRecord

LEMMA KnownNext ==
  ASSUME TypeOK, Known, [Next]_vars
  PROVE  Known'
<1>1. CASE UNCHANGED vars
  BY <1>1 DEF Known, vars
<1>2. ASSUME NEW c \in Clients,
             \/ Load(c) \/ LoadRevision(c)
             \/ Save(c) \/ SaveState(c) \/ SaveRevision(c)
             \/ Initialize(c) \/ InitializeState(c) \/ InitializeRevision(c)
             \/ Delete(c) \/ DeleteRevision(c) \/ Crash(c)
      PROVE  Known'
  <2> pc \in [Clients -> Places] /\ stored \in [Clients -> Held]
    BY DEF TypeOK, Held
  <2> USE NothingHeld, FreshRecord DEF Known
  <2>1. CASE Load(c)
    BY <2>1 DEF Load, Begins, Goes, Holds, Holding
  <2>2. CASE LoadRevision(c)
    BY <2>2 DEF LoadRevision, Goes, Holds, Holding
  <2>3. CASE Save(c)
    BY <2>3 DEF Save, Begins, Goes, Holds
  <2>4. CASE SaveState(c)
    BY <2>4 DEF SaveState, Goes
  <2>5. CASE SaveRevision(c)
    <3>1. Snapshot(c) \in Records
      BY <2>5, SnapshotRecord DEF SaveRevision, Held
    <3>2. Snapshot(c) # NoRecord
      BY <3>1, StoreAssumption DEF Records
    <3> QED
      BY <2>5, <3>2 DEF SaveRevision, Goes, Holds, Holding
  <2>6. CASE Initialize(c)
    BY <2>6 DEF Initialize, Goes
  <2>7. CASE InitializeState(c)
    BY <2>7 DEF InitializeState, Goes
  <2>8. CASE InitializeRevision(c)
    BY <2>8 DEF InitializeRevision, Goes, Holds, Holding
  <2>9. CASE Delete(c)
    BY <2>9 DEF Delete, Goes
  <2>10. CASE DeleteRevision(c)
    BY <2>10 DEF DeleteRevision, Goes
  <2>11. CASE Crash(c)
    BY <2>11 DEF Crash, Goes, Holds
  <2> QED
    BY <1>2, <2>1, <2>2, <2>3, <2>4, <2>5, <2>6, <2>7, <2>8, <2>9, <2>10, <2>11
<1> QED
  BY <1>1, <1>2 DEF Next

\* Every file and every StoredSession keeps its type, whatever the processes
\* that share the directory do to each other's files.
THEOREM StoreTypeCorrect == Spec => []TypeOK
<1>1. Init => TypeOK /\ Known
  BY TypeInit, NothingHeld DEF Init, Known
<1>2. Known => Carries
  BY DEF Known, Carries
<1>3. TypeOK /\ Known /\ [Next]_vars => (TypeOK /\ Known)'
  BY <1>2, TypeNext, KnownNext
<1> QED
  BY <1>1, <1>3, PTL DEF Spec

-------------------------------------------------------------------------------
(***************************************************************************)
(* Each step is one of SnapshotStore, given where the clients stand.       *)
(***************************************************************************)
abstract == <<state, [c \in Clients |-> Seen(c)]>>

\* What one client has seen changes; the others have seen what they had.
LEMMA SeenBy ==
  ASSUME NEW c \in Clients, NEW r, Seen(c)' = r,
         \A d \in Clients \ {c} : Seen(d)' = Seen(d)
  PROVE  Snapshots!Sees(c, r)
BY DEF Snapshots!Sees

LEMMA OthersSeen ==
  ASSUME TypeOK, NEW c \in Clients,
         pc' = pc \/ \E place \in Places : Goes(c, place),
         stored' = stored \/ \E session : Holds(c, session)
  PROVE  \A d \in Clients \ {c} : Seen(d)' = Seen(d)
BY DEF TypeOK, Goes, Holds, Seen, Snapshot

\* A client that reads, or dies, before it has written the state file.
LEMMA ImplementsStutter ==
  ASSUME TypeOK, NEW c \in Clients,
         pc' = pc \/ \E place \in Places : Goes(c, place),
         stored' = stored \/ \E session : Holds(c, session),
         Seen(c)' = Seen(c), state' = state
  PROVE  UNCHANGED abstract
BY OthersSeen DEF abstract

LEMMA ImplementsNext ==
  ASSUME TypeOK, WritesSeen, [Next]_vars
  PROVE  Snapshots!Next \/ UNCHANGED abstract
<1>1. CASE UNCHANGED vars
  BY <1>1 DEF vars, abstract, Seen, Snapshot
<1>2. ASSUME NEW c \in Clients,
             \/ Load(c) \/ LoadRevision(c)
             \/ Save(c) \/ SaveState(c) \/ SaveRevision(c)
             \/ Initialize(c) \/ InitializeState(c) \/ InitializeRevision(c)
             \/ Delete(c) \/ DeleteRevision(c) \/ Crash(c)
      PROVE  Snapshots!Next \/ UNCHANGED abstract
  <2> pc \in [Clients -> Places] /\ stored \in [Clients -> Held]
    BY DEF TypeOK, Held
  <2> Places = {"idle", "loading", "saving", "saved", "initializing",
                "initialized", "deleting"}
    BY DEF Places
  <2>1. CASE Load(c)
    <3>1. CASE state # NoRecord /\ Holds(c, Holding(state, 0)) /\ Goes(c, "loading")
      <4>1. Seen(c)' = state
        BY <3>1 DEF Goes, Holds, Holding, Seen
      <4>2. Snapshots!Load(c)
        BY <2>1, <3>1, <4>1, OthersSeen, SeenBy DEF Load, Snapshots!Load
      <4> QED
        BY <4>2 DEF Snapshots!Next
    <3>2. CASE state = NoRecord /\ Holds(c, Nothing) /\ UNCHANGED pc
      <4>1. Seen(c)' = NoRecord
        BY <2>1, <3>2, NothingHeld DEF Load, Begins, Holds, Seen
      <4>2. Snapshots!Forget(c)
        BY <2>1, <3>2, <4>1, OthersSeen, SeenBy DEF Load, Snapshots!Forget
      <4> QED
        BY <4>2 DEF Snapshots!Next
    <3> QED
      BY <2>1, <3>1, <3>2 DEF Load
  <2>2. CASE LoadRevision(c)
    <3>1. Seen(c)' = Seen(c)
      BY <2>2 DEF LoadRevision, Goes, Holds, Holding, Seen
    <3> QED
      BY <2>2, <3>1, ImplementsStutter DEF LoadRevision
  <2>3. CASE Save(c)
    <3>1. CASE Goes(c, "saving") /\ UNCHANGED stored
      <4>1. Seen(c)' = Seen(c)
        BY <2>3, <3>1 DEF Save, Begins, Goes, Seen
      <4> QED
        BY <2>3, <3>1, <4>1, ImplementsStutter DEF Save
    <3>2. CASE Holds(c, Nothing) /\ UNCHANGED pc
      <4>1. Seen(c)' = NoRecord
        BY <2>3, <3>2, NothingHeld DEF Save, Begins, Holds, Seen
      <4>2. Snapshots!Forget(c)
        BY <2>3, <3>2, <4>1, OthersSeen, SeenBy DEF Save, Snapshots!Forget
      <4> QED
        BY <4>2 DEF Snapshots!Next
    <3> QED
      BY <2>3, <3>1, <3>2 DEF Save
  <2>4. CASE SaveState(c)
    <3>1. Seen(c) = state /\ stored[c].record = state /\ state # NoRecord
      BY <2>4 DEF SaveState, WritesSeen, Seen
    <3>2. state' = Append(state, c) /\ Seen(c)' = state'
      BY <2>4, <3>1 DEF SaveState, Goes, Seen, Snapshot
    <3>3. Snapshots!Replace(c)
      BY <2>4, <3>1, <3>2, OthersSeen, SeenBy DEF SaveState, Snapshots!Replace
    <3> QED
      BY <3>3 DEF Snapshots!Next
  <2>5. CASE SaveRevision(c)
    <3>1. Seen(c)' = Seen(c)
      BY <2>5 DEF SaveRevision, Goes, Holds, Holding, Seen
    <3> QED
      BY <2>5, <3>1, ImplementsStutter DEF SaveRevision
  <2>6. CASE Initialize(c)
    <3>1. Seen(c)' = Seen(c)
      BY <2>6 DEF Initialize, Begins, Goes, Seen
    <3> QED
      BY <2>6, <3>1, ImplementsStutter DEF Initialize
  <2>7. CASE InitializeState(c)
    <3>1. state = NoRecord /\ Seen(c)' = Fresh
      BY <2>7 DEF InitializeState, WritesSeen, Goes, Seen
    <3>2. Snapshots!Create(c)
      BY <2>7, <3>1, OthersSeen, SeenBy
      DEF InitializeState, Snapshots!Create, Snapshots!Fresh, Fresh
    <3> QED
      BY <3>2 DEF Snapshots!Next
  <2>8. CASE InitializeRevision(c)
    <3>1. Seen(c)' = Seen(c)
      BY <2>8 DEF InitializeRevision, Goes, Holds, Holding, Seen
    <3> QED
      BY <2>8, <3>1, ImplementsStutter DEF InitializeRevision
  <2>9. CASE Delete(c)
    <3>1. Seen(c)' = Seen(c)
      BY <2>9 DEF Delete, Begins, Goes, Seen
    <3>2. UNCHANGED [d \in Clients |-> Seen(d)]
      BY <2>9, <3>1, OthersSeen DEF Delete
    <3>3. Snapshots!Remove(c)
      BY <2>9, <3>2 DEF Delete, Snapshots!Remove
    <3> QED
      BY <3>3 DEF Snapshots!Next
  <2>10. CASE DeleteRevision(c)
    <3>1. Seen(c)' = Seen(c)
      BY <2>10 DEF DeleteRevision, Goes, Seen
    <3> QED
      BY <2>10, <3>1, ImplementsStutter DEF DeleteRevision
  <2>11. CASE Crash(c)
    <3>1. Seen(c)' = NoRecord
      BY <2>11, NothingHeld DEF Crash, Goes, Holds, Seen
    <3>2. Snapshots!Forget(c)
      BY <2>11, <3>1, OthersSeen, SeenBy DEF Crash, Snapshots!Forget
    <3> QED
      BY <3>2 DEF Snapshots!Next
  <2> QED
    BY <1>2, <2>1, <2>2, <2>3, <2>4, <2>5, <2>6, <2>7, <2>8, <2>9, <2>10, <2>11
<1> QED
  BY <1>1, <1>2 DEF Next

LEMMA ImplementsInit == Init => Snapshots!Init
BY NothingHeld DEF Init, Snapshots!Init, Seen

-------------------------------------------------------------------------------
(***************************************************************************)
(* One client, which may crash and delete: what it holds between two       *)
(* operations is the record and the revision in the files, whatever it was *)
(* doing when it last crashed.                                             *)
(***************************************************************************)
Current(c) == stored[c].record = state /\ stored[c].revision = ReadRevision

LoneInv ==
  \A c \in Clients :
     /\ stored[c].record = NoRecord => stored[c] = Nothing
     /\ pc[c] = "idle" /\ stored[c].record # NoRecord /\ state # NoRecord
          => Current(c)
     /\ pc[c] = "loading" => stored[c].record = state /\ state # NoRecord
     /\ pc[c] = "saving" => Current(c) /\ state # NoRecord
     /\ pc[c] = "saved" => stored[c].record # NoRecord /\ state = Snapshot(c)
     /\ pc[c] = "initializing" => state = NoRecord
     /\ pc[c] = "initialized" => state = Fresh
     /\ pc[c] = "deleting" => state = NoRecord

LEMMA LoneWrites == LoneInv => WritesSeen
BY DEF LoneInv, WritesSeen, Current

LEMMA LoneInit == Init => LoneInv
BY NothingHeld DEF Init, LoneInv

LEMMA LoneNext ==
  ASSUME TypeOK, LoneInv, [Next]_vars, NEW lone, Clients = {lone}
  PROVE  LoneInv'
<1>1. CASE UNCHANGED vars
  BY <1>1 DEF LoneInv, Current, ReadRevision, Snapshot, vars
<1>2. ASSUME NEW c \in Clients,
             \/ Load(c) \/ LoadRevision(c)
             \/ Save(c) \/ SaveState(c) \/ SaveRevision(c)
             \/ Initialize(c) \/ InitializeState(c) \/ InitializeRevision(c)
             \/ Delete(c) \/ DeleteRevision(c) \/ Crash(c)
      PROVE  LoneInv'
  <2> Clients = {c}
    OBVIOUS
  <2> pc \in [Clients -> Places] /\ stored \in [Clients -> Held]
    BY DEF TypeOK, Held
  <2> USE NothingHeld, FreshRecord DEF LoneInv, Current, ReadRevision
  <2>1. CASE Load(c)
    BY <2>1 DEF Load, Begins, Goes, Holds, Holding
  <2>2. CASE LoadRevision(c)
    BY <2>2 DEF LoadRevision, Goes, Holds, Holding
  <2>3. CASE Save(c)
    BY <2>3 DEF Save, Begins, Accepts, Goes, Holds
  <2>4. CASE SaveState(c)
    BY <2>4 DEF SaveState, Goes, Snapshot
  <2>5. CASE SaveRevision(c)
    <3>1. Snapshot(c) \in Records /\ state = Snapshot(c)
      BY <2>5, SnapshotRecord DEF SaveRevision, Held
    <3>2. stored[c].revision + 1 # NoFile
      BY StoreAssumption DEF Held
    <3>3. Snapshot(c) # NoRecord
      BY <3>1, StoreAssumption DEF Records
    <3> QED
      BY <2>5, <3>1, <3>2, <3>3 DEF SaveRevision, Goes, Holds, Holding
  <2>6. CASE Initialize(c)
    BY <2>6 DEF Initialize, Goes
  <2>7. CASE InitializeState(c)
    BY <2>7 DEF InitializeState, Goes
  <2>8. CASE InitializeRevision(c)
    <3>1. 0 # NoFile
      BY StoreAssumption
    <3> QED
      BY <2>8, <3>1 DEF InitializeRevision, Goes, Holds, Holding
  <2>9. CASE Delete(c)
    BY <2>9 DEF Delete, Begins, Goes
  <2>10. CASE DeleteRevision(c)
    BY <2>10 DEF DeleteRevision, Goes
  <2>11. CASE Crash(c)
    BY <2>11 DEF Crash, Goes, Holds
  <2> QED
    BY <1>2, <2>1, <2>2, <2>3, <2>4, <2>5, <2>6, <2>7, <2>8, <2>9, <2>10, <2>11
<1> QED
  BY <1>1, <1>2 DEF Next

-------------------------------------------------------------------------------
(***************************************************************************)
(* Clients that take turns and neither crash nor delete: a revision counts *)
(* the saves that led to its record, so equal revisions are equal records. *)
(***************************************************************************)
NoneSaved == \A c \in Clients : pc[c] # "saved"

TurnsInv ==
  /\ \A c, d \in Clients : pc[c] # "idle" /\ pc[d] # "idle" => c = d
  /\ state = NoRecord => revision = NoFile /\ \A c \in Clients : stored[c] = Nothing
  /\ state # NoRecord /\ NoneSaved => ReadRevision = Len(state)
  /\ \A c \in Clients :
       /\ stored[c].record = NoRecord => stored[c] = Nothing
       /\ stored[c].revision <= ReadRevision
       /\ pc[c] # "loading" /\ stored[c].record # NoRecord =>
            /\ stored[c].revision = Len(stored[c].record)
            /\ NoneSaved /\ stored[c].revision = ReadRevision
                 => stored[c].record = state
       /\ pc[c] = "loading" => stored[c].record = state /\ state # NoRecord
       /\ pc[c] = "saving" => Current(c) /\ state # NoRecord
       /\ pc[c] = "saved" =>
            /\ stored[c].record # NoRecord /\ state = Snapshot(c)
            /\ stored[c].revision = ReadRevision
       /\ pc[c] = "initializing" => state = NoRecord
       /\ pc[c] = "initialized" =>
            /\ state = Fresh /\ revision = NoFile
            /\ \A d \in Clients : stored[d] = Nothing
       /\ pc[c] # "deleting"

LEMMA TurnsWrites == TurnsInv => WritesSeen
BY DEF TurnsInv, WritesSeen, Current

LEMMA TurnsInit == Init => TurnsInv
BY NothingHeld DEF Init, TurnsInv, ReadRevision, Nothing

LEMMA TurnsNext ==
  ASSUME TypeOK, TurnsInv, [Next]_vars, Serial, ~MayDelete, MaxCrashes = 0
  PROVE  TurnsInv'
<1>1. CASE UNCHANGED vars
  BY <1>1 DEF TurnsInv, NoneSaved, Current, ReadRevision, Snapshot, vars
<1>2. ASSUME NEW c \in Clients,
             \/ Load(c) \/ LoadRevision(c)
             \/ Save(c) \/ SaveState(c) \/ SaveRevision(c)
             \/ Initialize(c) \/ InitializeState(c) \/ InitializeRevision(c)
             \/ Delete(c) \/ DeleteRevision(c) \/ Crash(c)
      PROVE  TurnsInv'
  <2> pc \in [Clients -> Places] /\ stored \in [Clients -> Held]
    BY DEF TypeOK, Held
  <2> ReadRevision \in Nat /\ \A d \in Clients : stored[d].revision \in Nat
    BY ReadRevisionNat DEF Held
  <2> Nothing = Holding(NoRecord, 0)
    BY DEF Nothing, Holding
  <2>1. CASE Load(c)
    <3>1. ReadRevision' = ReadRevision
      BY <2>1 DEF Load, ReadRevision
    <3> QED
      BY <2>1, <3>1
      DEF TurnsInv, NoneSaved, Current, Snapshot, Load, Begins, Goes, Holds, Holding
  <2>2. CASE LoadRevision(c)
    <3>1. ReadRevision' = ReadRevision
      BY <2>2 DEF LoadRevision, ReadRevision
    <3>2. NoneSaved
      BY <2>2 DEF LoadRevision, TurnsInv, NoneSaved
    <3> QED
      BY <2>2, <3>1, <3>2
      DEF TurnsInv, NoneSaved, Current, Snapshot, LoadRevision, Goes, Holds, Holding
  <2>3. CASE Save(c)
    <3>1. ReadRevision' = ReadRevision
      BY <2>3 DEF Save, ReadRevision
    <3>2. NoneSaved
      BY <2>3 DEF Save, Begins, NoneSaved
    <3> QED
      BY <2>3, <3>1, <3>2
      DEF TurnsInv, NoneSaved, Current, Snapshot, Save, Begins, Accepts, Goes,
          Holds, Holding
  <2>4. CASE SaveState(c)
    <3>1. ReadRevision' = ReadRevision
      BY <2>4 DEF SaveState, ReadRevision
    <3>2. ~NoneSaved'
      BY <2>4 DEF SaveState, Goes, NoneSaved
    <3>3. Snapshot(c) # NoRecord
      BY <2>4, SnapshotRecord, StoreAssumption
      DEF SaveState, TurnsInv, Current, Held, Records
    <3> QED
      BY <2>4, <3>1, <3>2, <3>3 DEF TurnsInv, Current, Snapshot, SaveState, Goes
  <2>5. CASE SaveRevision(c)
    <3>1. /\ Snapshot(c) \in Records /\ Snapshot(c) # NoRecord
          /\ Len(Snapshot(c)) = Len(stored[c].record) + 1
          /\ state = Snapshot(c)
      BY <2>5, SnapshotRecord, StoreAssumption
      DEF SaveRevision, TurnsInv, Held, Records
    <3>2. stored[c].revision = Len(stored[c].record)
      BY <2>5 DEF SaveRevision, TurnsInv
    <3>3. ReadRevision' = ReadRevision + 1 /\ ReadRevision = stored[c].revision
      BY <2>5, StoreAssumption DEF SaveRevision, TurnsInv, ReadRevision
    <3>4. \A d \in Clients \ {c} : pc[d] = "idle" /\ pc'[d] = "idle"
      BY <2>5 DEF SaveRevision, TurnsInv, Goes
    <3>5. \A d \in Clients \ {c} : stored'[d] = stored[d]
      BY <2>5 DEF SaveRevision, Holds
    <3>6. /\ pc'[c] = "idle" /\ stored'[c].record = Snapshot(c)
          /\ stored'[c].revision = stored[c].revision + 1
      BY <2>5 DEF SaveRevision, Goes, Holds, Holding
    <3>7. state' = state
      BY <2>5 DEF SaveRevision
    <3> QED
      BY <3>1, <3>2, <3>3, <3>4, <3>5, <3>6, <3>7 DEF TurnsInv, NoneSaved
  <2>6. CASE Initialize(c)
    <3>1. ReadRevision' = ReadRevision
      BY <2>6 DEF Initialize, ReadRevision
    <3> QED
      BY <2>6, <3>1
      DEF TurnsInv, NoneSaved, Current, Snapshot, Initialize, Begins, Goes
  <2>7. CASE InitializeState(c)
    <3>1. ReadRevision' = ReadRevision /\ ReadRevision = 0
      BY <2>7 DEF InitializeState, ReadRevision, TurnsInv
    <3> QED
      BY <2>7, <3>1, FreshRecord
      DEF TurnsInv, NoneSaved, Current, Snapshot, InitializeState, Goes, Holding
  <2>8. CASE InitializeRevision(c)
    <3>1. ReadRevision' = 0
      BY <2>8, StoreAssumption DEF InitializeRevision, ReadRevision
    <3> QED
      BY <2>8, <3>1, FreshRecord
      DEF TurnsInv, NoneSaved, Current, Snapshot, InitializeRevision, Goes,
          Holds, Holding
  <2>9. CASE Delete(c) \/ DeleteRevision(c)
    BY <2>9 DEF Delete, DeleteRevision, TurnsInv
  <2>10. CASE Crash(c)
    BY <2>10 DEF Crash, TypeOK
  <2> QED
    BY <1>2, <2>1, <2>2, <2>3, <2>4, <2>5, <2>6, <2>7, <2>8, <2>9, <2>10
<1> QED
  BY <1>1, <1>2 DEF Next

-------------------------------------------------------------------------------
(***************************************************************************)
(* A save that is refused while the record is the caller's own.            *)
(***************************************************************************)
Refuses(c) ==
  /\ pc[c] = "idle" /\ pc'[c] = "idle"
  /\ stored[c] # Nothing /\ stored'[c] = Nothing
  /\ state # NoRecord
  /\ crashes' = crashes

\* Only save refuses, and only for its check.
LEMMA RefusesInSave ==
  ASSUME TypeOK, [Next]_vars, NEW c \in Clients, Refuses(c)
  PROVE  ~Accepts(c) /\ (Serial => \A d \in Clients : pc[d] = "idle")
<1> pc \in [Clients -> Places] /\ stored \in [Clients -> Held] /\ crashes \in Nat
  BY StoreAssumption DEF TypeOK, Held
<1>1. CASE UNCHANGED vars
  BY <1>1 DEF Refuses, vars
<1>2. ASSUME NEW d \in Clients,
             \/ Load(d) \/ LoadRevision(d)
             \/ Save(d) \/ SaveState(d) \/ SaveRevision(d)
             \/ Initialize(d) \/ InitializeState(d) \/ InitializeRevision(d)
             \/ Delete(d) \/ DeleteRevision(d) \/ Crash(d)
      PROVE  ~Accepts(c) /\ (Serial => \A e \in Clients : pc[e] = "idle")
  <2>1. CASE Save(d)
    BY <2>1 DEF Refuses, Save, Begins, Holds
  <2>2. CASE Load(d)
    BY <2>2 DEF Refuses, Load, Goes, Holds
  <2>3. CASE Crash(d)
    BY <2>3 DEF Refuses, Crash
  <2>4. CASE LoadRevision(d) \/ SaveRevision(d) \/ InitializeRevision(d)
    BY <2>4 DEF Refuses, LoadRevision, SaveRevision, InitializeRevision, Holds
  <2>5. CASE \/ SaveState(d) \/ Initialize(d) \/ InitializeState(d)
             \/ Delete(d) \/ DeleteRevision(d)
    BY <2>5 DEF Refuses, SaveState, Initialize, InitializeState, Delete,
                DeleteRevision
  <2> QED
    BY <1>2, <2>1, <2>2, <2>3, <2>4, <2>5
<1> QED
  BY <1>1, <1>2 DEF Next

LEMMA LoneRefuses ==
  ASSUME TypeOK, LoneInv, [Next]_vars, NEW c \in Clients, Refuses(c)
  PROVE  state # stored[c].record
BY RefusesInSave DEF LoneInv, Current, Refuses, Accepts

LEMMA TurnsRefuses ==
  ASSUME TypeOK, TurnsInv, [Next]_vars, NEW c \in Clients, Refuses(c), Serial
  PROVE  state # stored[c].record
<1>1. ~Accepts(c) /\ NoneSaved /\ pc[c] = "idle" /\ state # NoRecord
  BY RefusesInSave DEF Refuses, NoneSaved
<1> QED
  BY <1>1 DEF TurnsInv, Accepts

-------------------------------------------------------------------------------
\* FsStateStore used by one process, which may crash between any two file
\* operations and delete the session: its saves and loads are those of a store
\* without revisions.
THEOREM LoneImplements ==
  ASSUME NEW lone, Clients = {lone}
  PROVE  Spec => ImplementsSnapshots
<1>1. Init => TypeOK /\ LoneInv
  BY TypeInit, LoneInit
<1>2. TypeOK /\ LoneInv /\ [Next]_vars => (TypeOK /\ LoneInv)'
  BY TypeNext, LoneNext, LoneWrites, SeenCarries
<1>3. TypeOK /\ LoneInv /\ [Next]_vars
        => [Snapshots!Next]_<<state, [c \in Clients |-> Seen(c)]>>
  BY ImplementsNext, LoneWrites DEF abstract
<1> QED
  BY <1>1, <1>2, <1>3, ImplementsInit, PTL
  DEF Spec, ImplementsSnapshots, Snapshots!Spec

\* Such a process is never locked out of its session by the revision file that
\* a crash in save or delete has left behind.
THEOREM LoneAccepts ==
  ASSUME NEW lone, Clients = {lone}
  PROVE  Spec => CurrentSaveAccepted
<1>1. Init => TypeOK /\ LoneInv
  BY TypeInit, LoneInit
<1>2. TypeOK /\ LoneInv /\ [Next]_vars => (TypeOK /\ LoneInv)'
  BY TypeNext, LoneNext, LoneWrites, SeenCarries
<1>3. TypeOK /\ LoneInv /\ [Next]_vars
        => \A c \in Clients : Refuses(c) => state # stored[c].record
  BY LoneRefuses
<1>4. TypeOK /\ LoneInv /\ [Next]_vars
        => [\A c \in Clients :
              /\ pc[c] = "idle" /\ pc'[c] = "idle"
              /\ stored[c] # Nothing /\ stored'[c] = Nothing
              /\ state # NoRecord
              /\ crashes' = crashes
              => state # stored[c].record]_vars
  BY <1>3 DEF Refuses
<1> QED
  BY <1>1, <1>2, <1>4, PTL DEF Spec, CurrentSaveAccepted

\* Processes that take turns, without crashes and deletes, see a store without
\* revisions: no save overwrites what its caller has not seen.
THEOREM TurnsImplement ==
  ASSUME Serial, ~MayDelete, MaxCrashes = 0
  PROVE  Spec => ImplementsSnapshots
<1>1. Init => TypeOK /\ TurnsInv
  BY TypeInit, TurnsInit
<1>2. TypeOK /\ TurnsInv /\ [Next]_vars => (TypeOK /\ TurnsInv)'
  BY TypeNext, TurnsNext, TurnsWrites, SeenCarries
<1>3. TypeOK /\ TurnsInv /\ [Next]_vars
        => [Snapshots!Next]_<<state, [c \in Clients |-> Seen(c)]>>
  BY ImplementsNext, TurnsWrites DEF abstract
<1> QED
  BY <1>1, <1>2, <1>3, ImplementsInit, PTL
  DEF Spec, ImplementsSnapshots, Snapshots!Spec

\* And none of their saves is refused without need.
THEOREM TurnsAccept ==
  ASSUME Serial, ~MayDelete, MaxCrashes = 0
  PROVE  Spec => CurrentSaveAccepted
<1>1. Init => TypeOK /\ TurnsInv
  BY TypeInit, TurnsInit
<1>2. TypeOK /\ TurnsInv /\ [Next]_vars => (TypeOK /\ TurnsInv)'
  BY TypeNext, TurnsNext, TurnsWrites, SeenCarries
<1>3. TypeOK /\ TurnsInv /\ [Next]_vars
        => \A c \in Clients : Refuses(c) => state # stored[c].record
  BY TurnsRefuses
<1>4. TypeOK /\ TurnsInv /\ [Next]_vars
        => [\A c \in Clients :
              /\ pc[c] = "idle" /\ pc'[c] = "idle"
              /\ stored[c] # Nothing /\ stored'[c] = Nothing
              /\ state # NoRecord
              /\ crashes' = crashes
              => state # stored[c].record]_vars
  BY <1>3 DEF Refuses
<1> QED
  BY <1>1, <1>2, <1>4, PTL DEF Spec, CurrentSaveAccepted

===============================================================================
