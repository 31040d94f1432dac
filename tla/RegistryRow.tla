----------------------------- MODULE RegistryRow -----------------------------
(***************************************************************************)
(* One row of the workspace registry and the operations on it: the merge   *)
(* function `apply_op' that server and clients share, the operation that   *)
(* re-seeds a row, and the clock that stamps local writes                  *)
(* (crates/doc/src/registry.rs).                                           *)
(*                                                                         *)
(* A clock is a number, 0 for "never written".  A value is a number that   *)
(* names the write it came from, 0 for an absent field.                    *)
(***************************************************************************)
EXTENDS Naturals, FiniteSetsExt, SequenceParts

CONSTANTS
  Ids,        \* keys of the table: a kind and an id
  Fields,     \* names of the fields of a row
  Counters,   \* counter values of a clock per millisecond (1 000 000 in the code)
  Ranks       \* number of devices that stamp clocks

ASSUME RegistryRowAssumption ==
  /\ IsFiniteSet(Ids) /\ IsFiniteSet(Fields)
  /\ Counters \in Nat \ {0} /\ Ranks \in Nat \ {0}

Clock == Nat

Row == [state : {"missing", "live", "deleted"}, del : Clock,
        clock : [Fields -> Clock], value : [Fields -> Nat], seq : Nat]

Unset == [f \in Fields |-> 0]

Missing == [state |-> "missing", del |-> 0, clock |-> Unset, value |-> Unset, seq |-> 0]

\* A write in an operation: a clock and a value, 0 to remove the field.
Write == [clock : Clock \ {0}, value : Nat]

\* The clock of an operation is 0 only when it re-seeds a row all of whose fields were
\* removed and re-seeded before.
Op == [id : Ids, op : {"upsert", "update", "delete"}, hlc : Clock,
       set : UNION {[F -> Write] : F \in SUBSET Fields}]

-----------------------------------------------------------------------------
(* apply_op *)

\* Newer than every clock on the row, its last tombstone included.
NewerThanRow(hlc, row) == hlc > row.del /\ \A f \in Fields : hlc > row.clock[f]

DeleteWins(row, op) ==
  CASE row.state = "missing" -> TRUE
    [] row.state = "deleted" -> op.hlc > row.del
    [] row.state = "live"    -> NewerThanRow(op.hlc, row)

Tombstone(row, hlc) ==
  [row EXCEPT !.state = "deleted", !.del = hlc, !.clock = Unset, !.value = Unset]

\* Only an upsert creates, and revives a tombstone it is newer than.
Reaches(row, op) ==
  CASE row.state = "live"    -> TRUE
    [] row.state = "missing" -> op.op = "upsert"
    [] row.state = "deleted" -> op.op = "upsert" /\ op.hlc > row.del

\* The writes that are newer than what their field holds; a row that is created or
\* revived holds nothing.
FieldWins(row, op, f) == f \in DOMAIN op.set /\ op.set[f].clock > row.clock[f]

WithFields(row, op) ==
  [row EXCEPT !.state = "live",
              !.clock = [f \in Fields |-> IF FieldWins(row, op, f) THEN op.set[f].clock ELSE @[f]],
              !.value = [f \in Fields |-> IF FieldWins(row, op, f) THEN op.set[f].value ELSE @[f]]]

Changes(row, op) ==
  IF op.op = "delete" THEN DeleteWins(row, op)
  ELSE /\ Reaches(row, op)
       /\ row.state # "live" \/ \E f \in Fields : FieldWins(row, op, f)

ApplyOp(row, op) ==
  CASE ~ Changes(row, op) -> row
    [] Changes(row, op) /\ op.op = "delete" -> Tombstone(row, op.hlc)
    [] OTHER -> WithFields(row, op)

\* Operations in their order.
ApplyOps(row, ops) ==
  LET after[n \in 0 .. Len(ops)] ==
        IF n = 0 THEN row ELSE ApplyOp(after[n - 1], ops[n])
  IN  after[Len(ops)]

Greater(a, b) == IF a > b THEN a ELSE b

\* The newest clock the row remembers for a field; a tombstone remembers it for all.
Seen(row, f) == Greater(row.del, row.clock[f])

\* The row holds the write, or something newer than it.
Holds(row, f, w) ==
  \/ w.clock <= row.del
  \/ w.clock < row.clock[f]
  \/ w.clock = row.clock[f] /\ w.value = row.value[f]

\* The row has taken the operation in: what a device may forget the operation for.
Absorbed(row, op) ==
  /\ row.state # "missing"
  /\ IF op.op = "delete" THEN ~ NewerThanRow(op.hlc, row)
     ELSE \A f \in DOMAIN op.set : Holds(row, f, op.set[f])

-----------------------------------------------------------------------------
(* row_to_seed_op *)

MaxClock(row) == Max({row.del} \cup {row.clock[f] : f \in Fields})

\* A row as an operation with its original clocks; fields that were removed are not
\* among its writes.
SeedOp(id, row) ==
  IF row.state = "deleted"
  THEN [id |-> id, op |-> "delete", hlc |-> row.del, set |-> << >>]
  ELSE [id |-> id, op |-> "upsert", hlc |-> MaxClock(row),
        set |-> [f \in {g \in Fields : row.value[g] # 0} |->
                   [clock |-> row.clock[f], value |-> row.value[f]]]]

-----------------------------------------------------------------------------
(* HlcClock *)

\* Fixed width: the order of the strings is that of (millisecond, counter, device).
EncodeHlc(ms, counter, rank) == (ms * Counters + counter) * Ranks + rank

NextHlc(clock, now) ==
  IF now > clock.ms THEN [ms |-> now, counter |-> 0]
  ELSE IF clock.counter + 1 < Counters THEN [clock EXCEPT !.counter = @ + 1]
  ELSE [ms |-> clock.ms + 1, counter |-> 0]

=============================================================================
