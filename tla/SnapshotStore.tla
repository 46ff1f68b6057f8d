---------------------------- MODULE SnapshotStore ----------------------------
(***************************************************************************)
(* What the engine relies on when it saves a session: a snapshot replaces  *)
(* the stored record only if it was made from that very record.  There are *)
(* no revisions here; a store with revisions is right if it comes to this. *)
(*                                                                         *)
(* A record is the log of the saves that led to it, a client its author.   *)
(***************************************************************************)
EXTENDS Sequences

CONSTANTS
  Clients,    \* callers of the store
  NoRecord    \* no session in the store; nothing seen by a client

VARIABLES
  record,     \* the stored record
  seen        \* client -> the record it last loaded or saved

Fresh == <<>>

Init == record = NoRecord /\ seen = [c \in Clients |-> NoRecord]

Sees(c, r) == seen' = [seen EXCEPT ![c] = r]

Create(c) == record = NoRecord /\ record' = Fresh /\ Sees(c, Fresh)

Load(c) == record # NoRecord /\ Sees(c, record) /\ UNCHANGED record

\* The snapshot is the record the client has seen, carried on.
Replace(c) ==
  /\ record # NoRecord
  /\ seen[c] = record
  /\ record' = Append(record, c)
  /\ Sees(c, record')

Remove(c) == record # NoRecord /\ record' = NoRecord /\ UNCHANGED seen

\* An error or a crash: what the client had in memory is gone.
Forget(c) == Sees(c, NoRecord) /\ UNCHANGED record

Next ==
  \E c \in Clients :
     Create(c) \/ Load(c) \/ Replace(c) \/ Remove(c) \/ Forget(c)

Spec == Init /\ [][Next]_<<record, seen>>

===============================================================================
