----------------------------- MODULE FsStateStore -----------------------------
(***************************************************************************)
(* FsStateStore (adapters/fs/state_store.py): the record of one session in *)
(* a run directory, in two files, state.json and .state.json.revision.     *)
(* Each is replaced atomically (atomic_write), the two together are not:   *)
(* a step below touches one file, and a crash may fall between any two.    *)
(*                                                                         *)
(* A client is a process that loads and saves; Serial says whether clients *)
(* take turns (the single-writer use the class is designed for).  A record *)
(* is the log of the saves that led to it.                                 *)
(***************************************************************************)
EXTENDS Integers, Sequences

CONSTANTS
  Clients,       \* processes that use the run directory
  NoRecord,      \* no state file; nothing held by a client
  NoFile,        \* no revision file
  Serial,        \* an operation begins only when no other is under way
  MayDelete      \* clients call delete()

CONSTANTS        \* bounds of the model, not of the code
  MaxSaves,      \* saves that lead to a record
  MaxCrashes     \* processes that die

ASSUME StoreAssumption ==
  /\ NoRecord \notin Seq(Clients)
  /\ NoFile \notin Nat
  /\ {Serial, MayDelete} \subseteq BOOLEAN
  /\ {MaxSaves, MaxCrashes} \subseteq Nat

VARIABLES
  state,         \* the state file
  revision,      \* the revision file
  pc,            \* client -> the operation under way
  stored,        \* client -> the StoredSession it holds
  crashes        \* crashes so far

vars == <<state, revision, pc, stored, crashes>>

Records == Seq(Clients)
Fresh == <<>>
Nothing == [record |-> NoRecord, revision |-> 0]
Holding(record, number) == [record |-> record, revision |-> number]

Init ==
  /\ state = NoRecord
  /\ revision = NoFile
  /\ pc = [c \in Clients |-> "idle"]
  /\ stored = [c \in Clients |-> Nothing]
  /\ crashes = 0

\* Mutant of ReadRevision: the revision file is taken for granted.
ReadRevisionAsIs == revision

\* _read_revision: a missing file reads as 0.
ReadRevision == IF revision = NoFile THEN 0 ELSE revision

\* The snapshot c saves: what it holds, carried on.
Snapshot(c) == Append(stored[c].record, c)

Goes(c, place) == pc' = [pc EXCEPT ![c] = place]
Holds(c, session) == stored' = [stored EXCEPT ![c] = session]

\* An operation begins; its first step.
Begins(c) ==
  /\ pc[c] = "idle"
  /\ Serial => \A d \in Clients : pc[d] = "idle"

-------------------------------------------------------------------------------
\* load: the state file, then the revision file.  StateNotFoundError without
\* a state file, which leaves the caller with nothing.
Load(c) ==
  /\ Begins(c)
  /\ \/ /\ state # NoRecord
        /\ Holds(c, Holding(state, 0))
        /\ Goes(c, "loading")
     \/ /\ state = NoRecord
        /\ Holds(c, Nothing)
        /\ UNCHANGED pc
  /\ UNCHANGED <<state, revision, crashes>>

LoadRevision(c) ==
  /\ pc[c] = "loading"
  /\ Holds(c, Holding(stored[c].record, ReadRevision))
  /\ Goes(c, "idle")
  /\ UNCHANGED <<state, revision, crashes>>

\* Mutant of Accepts: an older snapshot will do.
AcceptsOlder(c) == state # NoRecord /\ stored[c].revision <= ReadRevision

\* The checks of save; its errors end the caller's run.
Accepts(c) == state # NoRecord /\ ReadRevision = stored[c].revision

Save(c) ==
  /\ Begins(c)
  /\ stored[c] # Nothing
  /\ Len(stored[c].record) < MaxSaves
  /\ \/ Accepts(c) /\ Goes(c, "saving") /\ UNCHANGED stored
     \/ ~Accepts(c) /\ Holds(c, Nothing) /\ UNCHANGED pc
  /\ UNCHANGED <<state, revision, crashes>>

SaveState(c) ==
  /\ pc[c] = "saving"
  /\ state' = Snapshot(c)
  /\ Goes(c, "saved")
  /\ UNCHANGED <<revision, stored, crashes>>

\* The next revision is that of the revision file save read when it began.
SaveRevision(c) ==
  /\ pc[c] = "saved"
  /\ revision' = stored[c].revision + 1
  /\ Holds(c, Holding(Snapshot(c), stored[c].revision + 1))
  /\ Goes(c, "idle")
  /\ UNCHANGED <<state, crashes>>

\* Mutant of Initialize: without its check.
InitializeAnyway(c) ==
  /\ Begins(c)
  /\ Goes(c, "initializing")
  /\ UNCHANGED <<state, revision, stored, crashes>>

\* initialize; StateError, and no change, when there is a state file.
Initialize(c) ==
  /\ Begins(c)
  /\ state = NoRecord
  /\ Goes(c, "initializing")
  /\ UNCHANGED <<state, revision, stored, crashes>>

InitializeState(c) ==
  /\ pc[c] = "initializing"
  /\ state' = Fresh
  /\ Goes(c, "initialized")
  /\ UNCHANGED <<revision, stored, crashes>>

\* Mutant of InitializeRevision: a revision file that is there is kept.
KeepRevision(c) ==
  /\ pc[c] = "initialized"
  /\ revision' = ReadRevision
  /\ Holds(c, Holding(Fresh, 0))
  /\ Goes(c, "idle")
  /\ UNCHANGED <<state, crashes>>

InitializeRevision(c) ==
  /\ pc[c] = "initialized"
  /\ revision' = 0
  /\ Holds(c, Holding(Fresh, 0))
  /\ Goes(c, "idle")
  /\ UNCHANGED <<state, crashes>>

\* delete: nothing to do without a state file, even if there is a revision.
Delete(c) ==
  /\ MayDelete
  /\ Begins(c)
  /\ state # NoRecord
  /\ state' = NoRecord
  /\ Goes(c, "deleting")
  /\ UNCHANGED <<revision, stored, crashes>>

DeleteRevision(c) ==
  /\ pc[c] = "deleting"
  /\ revision' = NoFile
  /\ Goes(c, "idle")
  /\ UNCHANGED <<state, stored, crashes>>

\* The process dies, perhaps in the middle of an operation, or an error of the
\* file system ends the operation and its caller's run; the files stay.
Crash(c) ==
  /\ crashes < MaxCrashes
  /\ crashes' = crashes + 1
  /\ Holds(c, Nothing)
  /\ Goes(c, "idle")
  /\ UNCHANGED <<state, revision>>

Next ==
  \E c \in Clients :
     \/ Load(c) \/ LoadRevision(c)
     \/ Save(c) \/ SaveState(c) \/ SaveRevision(c)
     \/ Initialize(c) \/ InitializeState(c) \/ InitializeRevision(c)
     \/ Delete(c) \/ DeleteRevision(c)
     \/ Crash(c)

Spec == Init /\ [][Next]_vars

-------------------------------------------------------------------------------
(***************************************************************************)
(* Properties                                                              *)
(***************************************************************************)
Places == {"idle", "loading", "saving", "saved", "initializing",
           "initialized", "deleting"}

\* Every file and every StoredSession keeps its type.
TypeOK ==
  /\ state \in Records \cup {NoRecord}
  /\ revision \in Nat \cup {NoFile}
  /\ pc \in [Clients -> Places]
  /\ stored \in [Clients -> [record : Records \cup {NoRecord}, revision : Nat]]
  /\ crashes \in 0..MaxCrashes

\* What a client has seen, an operation past its write of the state included.
Seen(c) ==
  CASE pc[c] = "saved" -> Snapshot(c)
    [] pc[c] = "initialized" -> Fresh
    [] OTHER -> stored[c].record

\* Two files and a number compare as the records themselves would: a save that
\* is accepted replaces the record its snapshot was made from, whatever died
\* in the middle of what before.
Snapshots == INSTANCE SnapshotStore WITH record <- state, seen <- [c \in Clients |-> Seen(c)]
ImplementsSnapshots == Snapshots!Spec

\* A save is refused only when the record is no longer the one that its caller
\* holds: a stale revision file, left behind by a crash or a delete, never locks
\* a session up.
CurrentSaveAccepted ==
  [][\A c \in Clients :
       /\ pc[c] = "idle" /\ pc'[c] = "idle"
       /\ stored[c] # Nothing /\ stored'[c] = Nothing
       /\ state # NoRecord
       /\ crashes' = crashes
       => state # stored[c].record]_vars

===============================================================================
