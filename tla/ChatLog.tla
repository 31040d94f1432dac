------------------------------- MODULE ChatLog -------------------------------
(***************************************************************************)
(* The durable log of one chat2 room (crates/sync-server/src/chat_log.rs): *)
(* an append-only sequence of opaque update rows plus one client-written   *)
(* checkpoint that covers a prefix of it.  Rows under the checkpoint are   *)
(* pruned, so the table holds exactly the suffix above `seqFloor'.         *)
(*                                                                         *)
(* Data abstraction: an update payload is the set of CRDT operations it    *)
(* carries; its length is the number of operations; a checkpoint is the    *)
(* set of operations of the exported document, and its frontier (an        *)
(* encoded version vector) is the set of operations it claims.             *)
(*                                                                         *)
(* Every write here is one sqlite transaction under the connection mutex,  *)
(* so each is one action.                                                  *)
(***************************************************************************)
EXTENDS Naturals, FiniteSets

CONSTANTS
  Devices,     \* device ids, the `device' column
  BatchIds,    \* ids minted by clients for one queued push
  Ops,         \* CRDT operations
  MaxRowOps,   \* MAX_ROW_BYTES, counted in operations
  MaxSeq       \* bound of the model: no append beyond this sequence number

ASSUME ChatLogAssumption ==
  /\ MaxRowOps \in Nat \ {0}
  /\ MaxSeq \in Nat

VARIABLES
  rows,        \* seq -> row, the live rows of the table
  headSeq,     \* meta.headSeq
  seqFloor,    \* meta.seqFloor
  checkpoint,  \* the two blobs with meta.checkpointSeq and checkpointSize
  accepted     \* history: every row ever appended, by seq (no code reads it)

logVars == <<rows, headSeq, seqFloor, checkpoint, accepted>>

Payload == SUBSET Ops

Row == [device : Devices, batch : BatchIds, ops : Payload]

\* `stored' stands for checkpointSize > 0, the presence test of the code.
Checkpoint == [stored : BOOLEAN, seq : Nat, ops : Payload, frontier : Payload]

NoCheckpoint == [stored |-> FALSE, seq |-> 0, ops |-> {}, frontier |-> {}]

LogTypeOK ==
  /\ headSeq \in Nat
  /\ seqFloor \in Nat
  /\ checkpoint \in Checkpoint
  /\ rows \in [DOMAIN rows -> Row]
  /\ accepted \in [1 .. headSeq -> Row]

LogInit ==
  /\ rows = [s \in {} |-> 0]
  /\ headSeq = 0
  /\ seqFloor = 0
  /\ checkpoint = NoCheckpoint
  /\ accepted = [s \in {} |-> 0]

-----------------------------------------------------------------------------
(* append *)

Admissible(payload) == payload # {} /\ Cardinality(payload) <= MaxRowOps

\* Mutant: no UNIQUE index.
NoBatchIndex(batch) == FALSE

\* The UNIQUE index finds a live row of this batch: the push is a replay.
IsReplay(batch) == \E s \in DOMAIN rows : rows[s].batch = batch

OriginalSeq(batch) == CHOOSE s \in DOMAIN rows : rows[s].batch = batch

\* Mutant: the head is bumped twice.
AppendRowSkippingSeq(device, batch, payload) ==
  LET row == [device |-> device, batch |-> batch, ops |-> payload]
  IN  /\ headSeq + 1 < MaxSeq
      /\ Admissible(payload) /\ ~ IsReplay(batch)
      /\ rows' = [s \in DOMAIN rows \cup {headSeq + 1} |->
                    IF s = headSeq + 1 THEN row ELSE rows[s]]
      /\ headSeq' = headSeq + 2
      /\ accepted' = [s \in 1 .. headSeq + 1 |-> IF s = headSeq + 1 THEN row ELSE accepted[s]]
      /\ UNCHANGED <<seqFloor, checkpoint>>

\* Mutant: INSERT OR REPLACE, a replay rewrites the row it finds.
AppendRowReplacing(device, batch, payload) ==
  LET replay == IsReplay(batch)
      seq == IF replay THEN OriginalSeq(batch) ELSE headSeq + 1
      row == [device |-> device, batch |-> batch, ops |-> payload]
  IN  /\ headSeq < MaxSeq
      /\ Admissible(payload)
      /\ rows' = [s \in DOMAIN rows \cup {seq} |-> IF s = seq THEN row ELSE rows[s]]
      /\ headSeq' = IF replay THEN headSeq ELSE seq
      /\ accepted' = IF replay THEN accepted
                     ELSE [s \in 1 .. seq |-> IF s = seq THEN row ELSE accepted[s]]
      /\ UNCHANGED <<seqFloor, checkpoint>>

AppendRow(device, batch, payload) ==
  LET seq == headSeq + 1
      row == [device |-> device, batch |-> batch, ops |-> payload]
  IN  /\ headSeq < MaxSeq
      /\ Admissible(payload)
      /\ ~ IsReplay(batch)
      /\ rows' = [s \in DOMAIN rows \cup {seq} |-> IF s = seq THEN row ELSE rows[s]]
      /\ headSeq' = seq
      /\ accepted' = [s \in 1 .. seq |-> IF s = seq THEN row ELSE accepted[s]]
      /\ UNCHANGED <<seqFloor, checkpoint>>

\* Mutant: `after' is taken for the first row wanted.
RowsAfterNext(after, excluded) ==
  {s \in DOMAIN rows : s > after + 1 /\ rows[s].device \notin excluded}

\* Sequence numbers of the rows a reader at `after' is sent.
RowsAfter(after, excluded) ==
  {s \in DOMAIN rows : s > after /\ rows[s].device \notin excluded}

-----------------------------------------------------------------------------
(* commit_checkpoint *)

FloorRegression(seqCovered) == seqCovered < seqFloor

AheadOfHead(seqCovered) == seqCovered > headSeq

\* Mutant: prunes one row short.
CommitCheckpointShort(seqCovered, ops, frontier) ==
  /\ ops # {}
  /\ ~ FloorRegression(seqCovered) /\ ~ AheadOfHead(seqCovered)
  /\ checkpoint' = [stored |-> TRUE, seq |-> seqCovered,
                    ops |-> ops, frontier |-> frontier]
  /\ rows' = [s \in {r \in DOMAIN rows : r >= seqCovered} |-> rows[s]]
  /\ seqFloor' = seqCovered
  /\ UNCHANGED <<headSeq, accepted>>

CommitCheckpoint(seqCovered, ops, frontier) ==
  /\ ops # {}
  /\ ~ FloorRegression(seqCovered)
  /\ ~ AheadOfHead(seqCovered)
  /\ checkpoint' = [stored |-> TRUE, seq |-> seqCovered,
                    ops |-> ops, frontier |-> frontier]
  /\ rows' = [s \in {r \in DOMAIN rows : r > seqCovered} |-> rows[s]]
  /\ seqFloor' = seqCovered
  /\ UNCHANGED <<headSeq, accepted>>

-----------------------------------------------------------------------------
(* The log on its own, written to by any device. *)

LogNext ==
  \/ \E d \in Devices, b \in BatchIds, p \in Payload : AppendRow(d, b, p)
  \/ \E n \in 0 .. MaxSeq, p, f \in Payload : CommitCheckpoint(n, p, f)

LogSpec == LogInit /\ [][LogNext]_logVars

-----------------------------------------------------------------------------
(* Properties *)

\* The table never has a hole and never keeps a covered row: the live rows are
\* exactly the sequence numbers above the floor, up to the head, and the
\* checkpoint sits at the floor.  A reader may therefore trust "rows after my
\* cursor" whenever its cursor is at or above the floor.
LogIsSuffix ==
  /\ seqFloor <= headSeq
  /\ checkpoint.seq = seqFloor
  /\ DOMAIN rows = (seqFloor + 1) .. headSeq

\* A row is never rewritten after its append: what is served under a sequence
\* number is what the pusher was acknowledged for.
RowsAreHistory == \A s \in DOMAIN rows : s \in DOMAIN accepted /\ rows[s] = accepted[s]

\* A batch id names at most one live row (the replay check of `append').
BatchIsUnique ==
  \A s, t \in DOMAIN rows : rows[s].batch = rows[t].batch => s = t

\* Every accepted row that is no longer in the table is below a stored
\* checkpoint: pruning never outruns the blob that replaces the rows.
PrunedIsCovered ==
  \A s \in 1 .. headSeq : s \notin DOMAIN rows => checkpoint.stored /\ s <= checkpoint.seq

\* What the table serves is what was promised: the rows of one batch each, as they were
\* acknowledged, and no row missing that a stored checkpoint does not replace.
LogIsHonest == RowsAreHistory /\ BatchIsUnique /\ PrunedIsCovered

\* The floor and the head only move forward, whatever clients post: a cursor a
\* client has persisted never comes to name an older position of the log.
LogMovesForward == [][headSeq' >= headSeq /\ seqFloor' >= seqFloor]_logVars
-----------------------------------------------------------------------------
(* Refinement: the table with its counters implements a write-once log that *)
(* is only ever forgotten as a prefix.                                      *)

LogView == [s \in 1 .. headSeq |-> IF s \in DOMAIN rows THEN {rows[s]} ELSE {}]

BatchOf(row) == row.batch

Promise == INSTANCE TrimmedLog WITH Entry <- Row, Key <- BatchOf,
                                length <- headSeq, log <- LogView

\* Appends, replays and checkpoints of the table are writes and forgets of the
\* promised log, and nothing else ever changes what a reader can be served.
ImplementsTrimmedLog == Promise!Spec

=============================================================================
