-------------------------- MODULE RegistrySyncProofs --------------------------
(***************************************************************************)
(* Registry sync, for every set of devices, rows and fields and for every  *)
(* bound.                                                                  *)
(*                                                                         *)
(* Shapes(L) says what the state is made of, L being the writes there are: *)
(* pairs of a clock and the value written at it.  Every step but a local   *)
(* write keeps Shapes(L); a local write adds its own pair.  With all pairs *)
(* for L it is a type invariant; with a set in which a clock names one     *)
(* value it is what the merge function needs (ClocksAreUnique).            *)
(***************************************************************************)
EXTENDS RegistrySync, SequenceLemmas, TLAPS

-----------------------------------------------------------------------------
(* Rows: what the merge function promises of one operation, for every row  *)
(* and every set of fields.                                                *)

\* A row the merge can produce: what is not live has no fields.
Shaped(row) ==
  /\ row \in Row
  /\ row.state # "live" => row.clock = Unset /\ row.value = Unset
  /\ row.state = "missing" => row.del = 0

\* An operation a device can issue: no write is newer than the operation.
Issued(op) == op \in Op /\ \A f \in DOMAIN op.set : op.set[f].clock <= op.hlc

\* A clock names one write.
ClocksAreUnique(row, op) ==
  \A f \in DOMAIN op.set : op.set[f].clock = row.clock[f] => op.set[f].value = row.value[f]

LEMMA OpType ==
  ASSUME NEW op \in Op
  PROVE  /\ op.hlc \in Nat
         /\ op.op \in {"upsert", "update", "delete"}
         /\ \A f \in DOMAIN op.set : f \in Fields /\ op.set[f].clock \in Nat /\ op.set[f].clock # 0
                                       /\ op.set[f].value \in Nat
<1>1. op.set \in UNION {[F -> Write] : F \in SUBSET Fields}  BY DEF Op
<1>2. PICK F \in SUBSET Fields : op.set \in [F -> Write]  BY <1>1
<1>3. \A f \in F : op.set[f] \in Write  BY <1>2
<1> QED  BY <1>2, <1>3 DEF Op, Write, Clock

LEMMA RowType ==
  ASSUME NEW row \in Row
  PROVE  /\ row.state \in {"missing", "live", "deleted"} /\ row.del \in Nat /\ row.seq \in Nat
         /\ row.clock \in [Fields -> Nat] /\ row.value \in [Fields -> Nat]
BY DEF Row, Clock

\* The result of an operation is a row of the same shape.
THEOREM ApplyKeepsShape ==
  ASSUME NEW row, Shaped(row), NEW op \in Op
  PROVE  Shaped(ApplyOp(row, op))
<1>1. CASE ~ Changes(row, op)  BY <1>1 DEF ApplyOp
<1>2. CASE Changes(row, op) /\ op.op = "delete"
  <2>1. ApplyOp(row, op) = Tombstone(row, op.hlc)  BY <1>2 DEF ApplyOp
  <2>2. row \in Row /\ op.hlc \in Nat  BY OpType DEF Shaped
  <2>3. Unset \in [Fields -> Nat]  BY DEF Unset
  <2>4. Tombstone(row, op.hlc) \in Row  BY <2>2, <2>3 DEF Tombstone, Row, Clock
  <2>5. /\ Tombstone(row, op.hlc).state = "deleted"
        /\ Tombstone(row, op.hlc).clock = Unset /\ Tombstone(row, op.hlc).value = Unset
    BY <2>2 DEF Tombstone, Row
  <2> QED  BY <2>1, <2>4, <2>5 DEF Shaped
<1>3. CASE Changes(row, op) /\ op.op # "delete"
  <2>1. ApplyOp(row, op) = WithFields(row, op)  BY <1>3 DEF ApplyOp
  <2>2. \A f \in Fields : FieldWins(row, op, f) => op.set[f].clock \in Nat /\ op.set[f].value \in Nat
    BY OpType DEF FieldWins
  <2>3. row \in Row  BY DEF Shaped
  <2>4. \A f \in Fields : row.clock[f] \in Nat /\ row.value[f] \in Nat  BY <2>3, RowType
  <2>5. /\ [f \in Fields |-> IF FieldWins(row, op, f) THEN op.set[f].clock ELSE row.clock[f]] \in [Fields -> Nat]
        /\ [f \in Fields |-> IF FieldWins(row, op, f) THEN op.set[f].value ELSE row.value[f]] \in [Fields -> Nat]
    BY <2>2, <2>4
  <2>6. WithFields(row, op) \in Row  BY <2>3, <2>5 DEF WithFields, Row, Clock
  <2>7. WithFields(row, op).state = "live"  BY <2>3 DEF WithFields, Row
  <2> QED  BY <2>1, <2>6, <2>7 DEF Shaped
<1> QED  BY <1>1, <1>2, <1>3

\* What an operation leaves in a row, when it changes it.
LEMMA AfterDelete ==
  ASSUME NEW row, Shaped(row), NEW op \in Op, op.op = "delete", Changes(row, op)
  PROVE  /\ ApplyOp(row, op).state = "deleted"
         /\ ApplyOp(row, op).del = op.hlc
         /\ op.hlc >= row.del
         /\ \A f \in Fields : op.hlc >= row.clock[f] /\ ApplyOp(row, op).clock[f] = 0
<1>1. ApplyOp(row, op) = Tombstone(row, op.hlc)  BY DEF ApplyOp
<1>2. op.hlc >= row.del /\ \A f \in Fields : op.hlc >= row.clock[f]
  <2>1. /\ op.hlc \in Nat /\ row.del \in Nat /\ row.state \in {"missing", "live", "deleted"}
        /\ \A f \in Fields : row.clock[f] \in Nat
    BY RowType, OpType DEF Shaped
  <2>2. row.state # "live" => \A f \in Fields : row.clock[f] = 0  BY DEF Shaped, Unset
  <2>3. row.state = "missing" => row.del = 0  BY DEF Shaped
  <2>4. DeleteWins(row, op)  BY DEF Changes
  <2>5. CASE row.state = "missing"  BY <2>1, <2>2, <2>3, <2>5
  <2>6. CASE row.state = "deleted"
    <3>1. op.hlc > row.del  BY <2>4, <2>6 DEF DeleteWins
    <3> QED  BY <2>1, <2>2, <2>6, <3>1
  <2>7. CASE row.state = "live"
    <3>1. NewerThanRow(op.hlc, row)  BY <2>4, <2>7 DEF DeleteWins
    <3> QED  BY <2>1, <3>1 DEF NewerThanRow
  <2> QED  BY <2>1, <2>5, <2>6, <2>7
<1> QED  BY <1>1, <1>2 DEF Tombstone, Unset, Shaped, Row

LEMMA AfterFields ==
  ASSUME NEW row, Shaped(row), NEW op \in Op, op.op # "delete", Changes(row, op)
  PROVE  /\ ApplyOp(row, op).state = "live"
         /\ ApplyOp(row, op).del = row.del
         /\ \A f \in Fields :
              \/ /\ FieldWins(row, op, f)
                 /\ ApplyOp(row, op).clock[f] = op.set[f].clock
                 /\ ApplyOp(row, op).value[f] = op.set[f].value
                 /\ op.set[f].clock > row.clock[f]
              \/ /\ ~ FieldWins(row, op, f)
                 /\ ApplyOp(row, op).clock[f] = row.clock[f]
                 /\ ApplyOp(row, op).value[f] = row.value[f]
<1>1. ApplyOp(row, op) = WithFields(row, op)  BY DEF ApplyOp
<1>2. row \in Row  BY DEF Shaped
<1>3. /\ WithFields(row, op).state = "live" /\ WithFields(row, op).del = row.del
      /\ WithFields(row, op).clock =
           [f \in Fields |-> IF FieldWins(row, op, f) THEN op.set[f].clock ELSE row.clock[f]]
      /\ WithFields(row, op).value =
           [f \in Fields |-> IF FieldWins(row, op, f) THEN op.set[f].value ELSE row.value[f]]
  BY <1>2 DEF WithFields, Row
<1>4. ASSUME NEW f \in Fields
      PROVE  /\ WithFields(row, op).clock[f] = IF FieldWins(row, op, f) THEN op.set[f].clock ELSE row.clock[f]
             /\ WithFields(row, op).value[f] = IF FieldWins(row, op, f) THEN op.set[f].value ELSE row.value[f]
  BY <1>3
<1>5. \A f \in Fields : FieldWins(row, op, f) => op.set[f].clock > row.clock[f]  BY DEF FieldWins
<1> QED  BY <1>1, <1>3, <1>4, <1>5

\* Rows only move forward: no operation, however old, takes a row behind a clock it has
\* seen.
THEOREM ApplyMovesForward ==
  ASSUME NEW row, Shaped(row), NEW op \in Op
  PROVE  /\ ApplyOp(row, op).del >= row.del
         /\ \A f \in Fields : Seen(ApplyOp(row, op), f) >= Seen(row, f)
<1>0. row.del \in Nat /\ \A f \in Fields : row.clock[f] \in Nat  BY RowType DEF Shaped
<1>1. CASE ~ Changes(row, op)
  <2>1. ApplyOp(row, op) = row  BY <1>1 DEF ApplyOp
  <2> QED  BY <1>0, <2>1 DEF Seen, Greater
<1>2. CASE Changes(row, op) /\ op.op = "delete"
  <2>1. op.hlc \in Nat  BY OpType
  <2> QED  BY <1>0, <1>2, <2>1, AfterDelete DEF Seen, Greater
<1>3. CASE Changes(row, op) /\ op.op # "delete"
  <2>1. \A f \in Fields : FieldWins(row, op, f) => op.set[f].clock \in Nat  BY OpType DEF FieldWins
  <2> QED  BY <1>0, <1>3, <2>1, AfterFields DEF Seen, Greater
<1> QED  BY <1>1, <1>2, <1>3

\* Once taken in, an operation stays taken in, whatever is applied after it.
THEOREM AbsorbedIsFinal ==
  ASSUME NEW row, Shaped(row), NEW op \in Op, NEW later \in Op, Absorbed(row, op)
  PROVE  Absorbed(ApplyOp(row, later), op)
<1>0. row.del \in Nat /\ \A f \in Fields : row.clock[f] \in Nat  BY RowType DEF Shaped
<1>1. CASE ~ Changes(row, later)
  BY <1>1 DEF ApplyOp
<1>2. CASE Changes(row, later) /\ later.op = "delete"
  <2>1. later.hlc \in Nat /\ op.hlc \in Nat  BY OpType
  <2>2. \A f \in DOMAIN op.set : f \in Fields /\ op.set[f].clock \in Nat  BY OpType
  <2>3. /\ ApplyOp(row, later).state = "deleted"
        /\ ApplyOp(row, later).del = later.hlc
        /\ later.hlc >= row.del
        /\ \A f \in Fields : later.hlc >= row.clock[f] /\ ApplyOp(row, later).clock[f] = 0
    BY <1>2, AfterDelete
  <2>4. CASE op.op = "delete"
    BY <1>0, <2>1, <2>3, <2>4 DEF Absorbed, NewerThanRow
  <2>5. CASE op.op # "delete"
    BY <1>0, <2>1, <2>2, <2>3, <2>5 DEF Absorbed, Holds
  <2> QED  BY <2>4, <2>5
<1>3. CASE Changes(row, later) /\ later.op # "delete"
  <2>1. \A f \in Fields : FieldWins(row, later, f) => later.set[f].clock \in Nat  BY OpType DEF FieldWins
  <2>2. \A f \in DOMAIN op.set : f \in Fields /\ op.set[f].clock \in Nat  BY OpType
  <2>3. op.hlc \in Nat  BY OpType
  <2>4. CASE op.op = "delete"
    BY <1>0, <1>3, <2>1, <2>3, <2>4, AfterFields DEF Absorbed, NewerThanRow
  <2>5. CASE op.op # "delete"
    BY <1>0, <1>3, <2>1, <2>2, <2>5, AfterFields DEF Absorbed, Holds
  <2> QED  BY <2>4, <2>5
<1> QED  BY <1>1, <1>2, <1>3

\* An upsert or a delete that is applied is taken in, whether it wins or loses.
THEOREM AppliedIsAbsorbed ==
  ASSUME NEW row, Shaped(row), NEW op, Issued(op), op.op # "update", ClocksAreUnique(row, op)
  PROVE  Absorbed(ApplyOp(row, op), op)
<1>0. /\ op \in Op /\ op.hlc \in Nat /\ row.del \in Nat
      /\ \A f \in Fields : row.clock[f] \in Nat
      /\ \A f \in DOMAIN op.set : /\ f \in Fields /\ op.set[f].clock \in Nat
                                  /\ op.set[f].clock # 0 /\ op.set[f].clock <= op.hlc
  BY OpType, RowType DEF Issued, Shaped
<1>1. CASE ~ Changes(row, op)
  <2>1. ApplyOp(row, op) = row  BY <1>1 DEF ApplyOp
  <2>2. row.state \in {"missing", "live", "deleted"}  BY RowType DEF Shaped
  <2>3. CASE op.op = "delete"
    BY <1>0, <1>1, <2>1, <2>2, <2>3 DEF Changes, DeleteWins, Absorbed, NewerThanRow
  <2>4. CASE op.op = "upsert" /\ row.state = "live"
    <3>1. \A f \in DOMAIN op.set : op.set[f].clock <= row.clock[f]
      BY <1>0, <1>1, <2>4 DEF Changes, Reaches, FieldWins
    <3> QED  BY <1>0, <2>1, <2>4, <3>1 DEF Absorbed, Holds, ClocksAreUnique
  <2>5. CASE op.op = "upsert" /\ row.state = "deleted"
    BY <1>0, <1>1, <2>1, <2>5 DEF Changes, Reaches, Absorbed, Holds
  <2>6. CASE op.op = "upsert" /\ row.state = "missing"
    BY <1>1, <2>6 DEF Changes, Reaches
  <2> QED  BY <1>0, <2>2, <2>3, <2>4, <2>5, <2>6, OpType
<1>2. CASE Changes(row, op) /\ op.op = "delete"
  BY <1>0, <1>2, AfterDelete DEF Absorbed, NewerThanRow
<1>3. CASE Changes(row, op) /\ op.op # "delete"
  <2>1. \A f \in DOMAIN op.set : ~ FieldWins(row, op, f) => op.set[f].clock <= row.clock[f]
    BY <1>0 DEF FieldWins
  <2>2. ASSUME NEW f \in DOMAIN op.set
        PROVE  Holds(ApplyOp(row, op), f, op.set[f])
    <3>1. f \in Fields  BY <1>0
    <3>2. CASE FieldWins(row, op, f)
      BY <1>0, <1>3, <3>1, <3>2, AfterFields DEF Holds
    <3>3. CASE ~ FieldWins(row, op, f)
      <4>1. /\ ApplyOp(row, op).clock[f] = row.clock[f]
            /\ ApplyOp(row, op).value[f] = row.value[f]
        BY <1>0, <1>3, <3>1, <3>3, AfterFields
      <4>2. op.set[f].clock <= row.clock[f]  BY <2>1, <3>3
      <4>3. op.set[f].clock = row.clock[f] => op.set[f].value = row.value[f]  BY DEF ClocksAreUnique
      <4>4. op.set[f].clock \in Nat /\ row.clock[f] \in Nat  BY <1>0, <3>1
      <4>5. op.set[f].clock < row.clock[f] \/ op.set[f].clock = row.clock[f]  BY <4>2, <4>4
      <4> QED  BY <4>1, <4>3, <4>5 DEF Holds
    <3> QED  BY <3>2, <3>3
  <2>3. ApplyOp(row, op).state = "live"  BY <1>0, <1>3, AfterFields
  <2> QED  BY <1>3, <2>2, <2>3 DEF Absorbed
<1> QED  BY <1>1, <1>2, <1>3

\* A replayed operation changes nothing, on a row that was never deleted.  (On a row that
\* was deleted and revived it may: the revival starts without clocks.)
THEOREM ReplayIsNoOp ==
  ASSUME NEW row, Shaped(row), NEW op \in Op, Absorbed(row, op), row.state = "live", row.del = 0
  PROVE  ApplyOp(row, op) = row
<1>1. SUFFICES ~ Changes(row, op)  BY DEF ApplyOp
<1>2. CASE op.op = "delete"
  BY <1>2 DEF Changes, DeleteWins, Absorbed
<1>3. CASE op.op # "delete"
  <2>1. \A f \in DOMAIN op.set : op.set[f].clock \in Nat /\ op.set[f].clock # 0 /\ row.clock[f] \in Nat
    BY OpType, RowType DEF Shaped
  <2>2. \A f \in Fields : ~ FieldWins(row, op, f)
    BY <1>3, <2>1 DEF Absorbed, Holds, FieldWins
  <2> QED  BY <1>3, <2>2 DEF Changes
<1> QED  BY <1>2, <1>3

\* Writes to a live row commute: replicas that take the same writes in in different
\* orders hold the same fields.
THEOREM WritesCommute ==
  ASSUME NEW row, Shaped(row), row.state = "live",
         NEW a \in Op, NEW b \in Op, a.op # "delete", b.op # "delete",
         \A f \in DOMAIN a.set \cap DOMAIN b.set :
           a.set[f].clock = b.set[f].clock => a.set[f].value = b.set[f].value
  PROVE  \A f \in Fields :
           /\ ApplyOp(ApplyOp(row, a), b).clock[f] = ApplyOp(ApplyOp(row, b), a).clock[f]
           /\ ApplyOp(ApplyOp(row, a), b).value[f] = ApplyOp(ApplyOp(row, b), a).value[f]
<1> DEFINE Wins(r, op, f) == f \in DOMAIN op.set /\ op.set[f].clock > r.clock[f]
<1>1. ASSUME NEW r, Shaped(r), r.state = "live", NEW op \in Op, op.op # "delete"
      PROVE  /\ ApplyOp(r, op).state = "live"
             /\ \A f \in Fields :
                  /\ ApplyOp(r, op).clock[f] = IF Wins(r, op, f) THEN op.set[f].clock ELSE r.clock[f]
                  /\ ApplyOp(r, op).value[f] = IF Wins(r, op, f) THEN op.set[f].value ELSE r.value[f]
  <2>1. CASE Changes(r, op)
    BY <1>1, <2>1, AfterFields DEF FieldWins
  <2>2. CASE ~ Changes(r, op)
    BY <1>1, <2>2 DEF ApplyOp, Changes, Reaches, FieldWins
  <2> QED  BY <2>1, <2>2
<1>2. Shaped(ApplyOp(row, a)) /\ Shaped(ApplyOp(row, b))  BY ApplyKeepsShape
<1>3. ApplyOp(row, a).state = "live" /\ ApplyOp(row, b).state = "live"  BY <1>1
<1>4. SUFFICES ASSUME NEW f \in Fields
               PROVE  /\ ApplyOp(ApplyOp(row, a), b).clock[f] = ApplyOp(ApplyOp(row, b), a).clock[f]
                      /\ ApplyOp(ApplyOp(row, a), b).value[f] = ApplyOp(ApplyOp(row, b), a).value[f]
  OBVIOUS
<1>5. /\ row.clock[f] \in Nat
      /\ f \in DOMAIN a.set => a.set[f].clock \in Nat
      /\ f \in DOMAIN b.set => b.set[f].clock \in Nat
  BY OpType, RowType DEF Shaped
<1>6. /\ ApplyOp(row, a).clock[f] = IF Wins(row, a, f) THEN a.set[f].clock ELSE row.clock[f]
      /\ ApplyOp(row, a).value[f] = IF Wins(row, a, f) THEN a.set[f].value ELSE row.value[f]
      /\ ApplyOp(row, b).clock[f] = IF Wins(row, b, f) THEN b.set[f].clock ELSE row.clock[f]
      /\ ApplyOp(row, b).value[f] = IF Wins(row, b, f) THEN b.set[f].value ELSE row.value[f]
  BY <1>1
<1>7. LET ra == ApplyOp(row, a)
          rb == ApplyOp(row, b)
      IN  /\ ApplyOp(ra, b).clock[f] = IF Wins(ra, b, f) THEN b.set[f].clock ELSE ra.clock[f]
          /\ ApplyOp(ra, b).value[f] = IF Wins(ra, b, f) THEN b.set[f].value ELSE ra.value[f]
          /\ ApplyOp(rb, a).clock[f] = IF Wins(rb, a, f) THEN a.set[f].clock ELSE rb.clock[f]
          /\ ApplyOp(rb, a).value[f] = IF Wins(rb, a, f) THEN a.set[f].value ELSE rb.value[f]
  BY <1>1, <1>2, <1>3
<1> QED  BY <1>5, <1>6, <1>7

-----------------------------------------------------------------------------
(* What the state is made of *)

Pairs == (Nat \ {0}) \X Nat

NoClears(L) == \A p \in L : p[2] # 0

\* A row made of these writes.  As long as none is a removal, a live row has a field
\* that is newer than its last tombstone.
Made(row, L) ==
  /\ \A f \in Fields : \/ row.clock[f] = 0 /\ row.value[f] = 0
                       \/ <<row.clock[f], row.value[f]>> \in L
  /\ NoClears(L) /\ row.state = "live" => \E f \in Fields : row.clock[f] > row.del

Rows(L) == {row \in Row : Shaped(row) /\ Made(row, L)}

Ops(L) ==
  {op \in Op :
     /\ Issued(op)
     /\ \A f \in DOMAIN op.set : <<op.set[f].clock, op.set[f].value>> \in L
     /\ NoClears(L) /\ op.op = "upsert" => \E f \in DOMAIN op.set : op.set[f].clock = op.hlc}

-----------------------------------------------------------------------------
(* Rows and operations *)

LEMMA RowParts ==
  ASSUME NEW L, NEW row \in Rows(L)
  PROVE  /\ Shaped(row) /\ row \in Row /\ row.state \in {"missing", "live", "deleted"}
         /\ row.del \in Nat /\ row.seq \in Nat
         /\ row.clock \in [Fields -> Nat] /\ row.value \in [Fields -> Nat]
         /\ \A f \in Fields : row.clock[f] \in Nat /\ row.value[f] \in Nat
         /\ row.state # "live" => row.clock = Unset /\ row.value = Unset
         /\ row.state = "missing" => row.del = 0
         /\ \A f \in Fields : \/ row.clock[f] = 0 /\ row.value[f] = 0
                              \/ <<row.clock[f], row.value[f]>> \in L
         /\ NoClears(L) /\ row.state = "live" => \E f \in Fields : row.clock[f] > row.del
<1>1. Shaped(row) /\ Made(row, L)  BY DEF Rows
<1>2. row \in Row  BY <1>1 DEF Shaped
<1> QED  BY <1>1, <1>2, RowType DEF Shaped, Made

LEMMA OpParts ==
  ASSUME NEW L, NEW op \in Ops(L)
  PROVE  /\ op \in Op /\ Issued(op) /\ op.id \in Ids /\ op.hlc \in Nat
         /\ op.op \in {"upsert", "update", "delete"}
         /\ \A f \in DOMAIN op.set :
              /\ f \in Fields /\ op.set[f].clock \in Nat /\ op.set[f].clock # 0
              /\ op.set[f].value \in Nat /\ op.set[f].clock <= op.hlc
              /\ <<op.set[f].clock, op.set[f].value>> \in L
         /\ NoClears(L) /\ op.op = "upsert" => \E f \in DOMAIN op.set : op.set[f].clock = op.hlc
<1>1. op \in Op /\ Issued(op)  BY DEF Ops
<1>2. op.id \in Ids  BY <1>1 DEF Op
<1> QED  BY <1>1, <1>2, OpType DEF Ops, Issued

LEMMA MissingIsARow ==
  ASSUME NEW L
  PROVE  Missing \in Rows(L)
<1>1. Unset \in [Fields -> Nat]  BY DEF Unset
<1>2. Missing \in Row  BY <1>1 DEF Missing, Row, Clock
<1>3. Shaped(Missing)  BY <1>2 DEF Shaped, Missing
<1>4. Made(Missing, L)  BY DEF Made, Missing, Unset
<1> QED  BY <1>2, <1>3, <1>4 DEF Rows

\* The merge makes rows of the same writes.
LEMMA ApplyMakesARow ==
  ASSUME NEW L, NEW row \in Rows(L), NEW op \in Ops(L)
  PROVE  ApplyOp(row, op) \in Rows(L)
<1>0. Shaped(row) /\ op \in Op  BY RowParts, OpParts
<1>1. PICK r : r = ApplyOp(row, op)  OBVIOUS
<1>2. Shaped(r)  BY <1>0, <1>1, ApplyKeepsShape
<1>3. CASE ~ Changes(row, op)  BY <1>3 DEF ApplyOp
<1>4. CASE Changes(row, op) /\ op.op = "delete"
  <2>1. r.state = "deleted"  BY <1>0, <1>1, <1>4, AfterDelete
  <2>2. \A f \in Fields : r.clock[f] = 0 /\ r.value[f] = 0  BY <1>2, <2>1 DEF Shaped, Unset
  <2> QED  BY <1>1, <1>2, <2>1, <2>2 DEF Rows, Made, Shaped
<1>5. CASE Changes(row, op) /\ op.op # "delete"
  <2>1. /\ r.state = "live" /\ r.del = row.del
        /\ \A f \in Fields :
              \/ /\ FieldWins(row, op, f)
                 /\ r.clock[f] = op.set[f].clock /\ r.value[f] = op.set[f].value
                 /\ op.set[f].clock > row.clock[f]
              \/ /\ ~ FieldWins(row, op, f)
                 /\ r.clock[f] = row.clock[f] /\ r.value[f] = row.value[f]
    BY <1>0, <1>1, <1>5, AfterFields
  <2>2. \A f \in Fields : \/ r.clock[f] = 0 /\ r.value[f] = 0
                          \/ <<r.clock[f], r.value[f]>> \in L
    <3>1. \A f \in Fields : FieldWins(row, op, f) => <<op.set[f].clock, op.set[f].value>> \in L
      BY OpParts DEF FieldWins
    <3>2. \A f \in Fields : \/ row.clock[f] = 0 /\ row.value[f] = 0
                            \/ <<row.clock[f], row.value[f]>> \in L
      BY RowParts
    <3> QED  BY <2>1, <3>1, <3>2
  <2>3. ASSUME NoClears(L) PROVE \E f \in Fields : r.clock[f] > r.del
    <3>0. row.del \in Nat /\ (\A f \in Fields : row.clock[f] \in Nat) /\ row.state \in {"missing", "live", "deleted"}
      BY RowParts
    <3>1. CASE row.state = "live"
      <4>1. PICK f \in Fields : row.clock[f] > row.del  BY <2>3, <3>1, RowParts
      <4>2. FieldWins(row, op, f) => op.set[f].clock \in Nat  BY OpParts DEF FieldWins
      <4>3. r.clock[f] > row.del  BY <2>1, <3>0, <4>1, <4>2
      <4> QED  BY <2>1, <4>3
    <3>2. CASE row.state # "live"
      <4>1. op.op = "upsert" /\ (row.state = "deleted" => op.hlc > row.del)
        BY <1>5, <3>0, <3>2 DEF Changes, Reaches
      <4>2. PICK f \in DOMAIN op.set : op.set[f].clock = op.hlc  BY <2>3, <4>1, OpParts
      <4>3. f \in Fields /\ op.set[f].clock \in Nat /\ op.set[f].clock # 0  BY OpParts
      <4>4. row.clock[f] = 0  BY <3>2, <4>3, RowParts DEF Unset
      <4>5. FieldWins(row, op, f)  BY <4>3, <4>4 DEF FieldWins
      <4>6. r.clock[f] = op.hlc  BY <2>1, <4>2, <4>3, <4>5
      <4>7. row.state = "missing" => row.del = 0  BY RowParts
      <4>8. op.hlc > row.del  BY <3>0, <3>2, <4>1, <4>2, <4>3, <4>7
      <4> QED  BY <2>1, <4>3, <4>6, <4>8
    <3> QED  BY <3>1, <3>2
  <2> QED  BY <1>1, <1>2, <2>1, <2>2, <2>3 DEF Rows, Made, Shaped
<1> QED  BY <1>3, <1>4, <1>5

\* ApplyOps is the last value of a run that takes one operation at a time.
LEMMA ApplyOpsRun ==
  ASSUME NEW row, NEW ops, Len(ops) \in Nat
  PROVE  \E after : /\ after[0] = row
                    /\ \A n \in 1 .. Len(ops) : after[n] = ApplyOp(after[n - 1], ops[n])
                    /\ ApplyOps(row, ops) = after[Len(ops)]
<1> DEFINE Runs(n, g) == g = [m \in 0 .. n |-> IF m = 0 THEN row ELSE ApplyOp(g[m - 1], ops[m])]
           S == {n \in Nat : \E g : Runs(n, g)}
<1>1. 0 \in S
  <2>1. Runs(0, [m \in 0 .. 0 |-> row])  OBVIOUS
  <2> QED  BY <2>1
<1>2. ASSUME NEW n \in Nat, n \in S PROVE n + 1 \in S
  <2>1. PICK g : Runs(n, g)  BY <1>2
  <2> DEFINE h == [m \in 0 .. n + 1 |-> IF m <= n THEN g[m] ELSE ApplyOp(g[n], ops[n + 1])]
  <2>2. \A m \in 0 .. n : h[m] = g[m] /\ m \in 0 .. n + 1 OBVIOUS
  <2>3. h[n + 1] = ApplyOp(g[n], ops[n + 1])  OBVIOUS
  <2>4. g[0] = row /\ \A m \in 1 .. n : g[m] = ApplyOp(g[m - 1], ops[m])
    BY <2>1
  <2>5. h = [m \in 0 .. n + 1 |-> h[m]]  OBVIOUS
  <2> HIDE DEF h
  <2>6. ASSUME NEW m \in 0 .. n + 1
        PROVE h[m] = IF m = 0 THEN row ELSE ApplyOp(h[m - 1], ops[m])
    <3>1. CASE m = 0 BY <2>2, <2>4, <3>1
    <3>2. CASE m \in 1 .. n
      <4>1. h[m] = g[m] /\ h[m - 1] = g[m - 1] /\ m # 0  BY <2>2, <3>2
      <4> QED BY <2>4, <3>2, <4>1
    <3>3. CASE m = n + 1
      <4>1. h[m] = ApplyOp(g[n], ops[m]) /\ h[m - 1] = g[n] /\ m # 0 BY <2>2, <2>3, <3>3
      <4> QED BY <4>1
    <3> QED BY <3>1, <3>2, <3>3
  <2>7. Runs(n + 1, h) BY <2>5, <2>6
  <2> QED BY <2>7

<1>3. Len(ops) \in S BY <1>1, <1>2, InductionOnNat
<1>4. PICK after : after = CHOOSE g : Runs(Len(ops), g) OBVIOUS
<1>5. Runs(Len(ops), after)
  <2>1. \E g : Runs(Len(ops), g) BY <1>3 DEF S
  <2> HIDE DEF Runs
  <2> QED BY <1>4, <2>1
<1>6. ApplyOps(row, ops) = after[Len(ops)] BY <1>4 DEF ApplyOps
<1>7. after[0] = row /\ \A n \in 1 .. Len(ops) : after[n] = ApplyOp(after[n - 1], ops[n])
  BY <1>5
<1> QED BY <1>6, <1>7

LEMMA ApplyOpsMakesARow ==
  ASSUME NEW L, NEW row \in Rows(L), NEW ops \in Seq(Ops(L))
  PROVE  ApplyOps(row, ops) \in Rows(L)
<1>0. Len(ops) \in Nat /\ \A n \in 1 .. Len(ops) : ops[n] \in Ops(L)  OBVIOUS
<1>1. PICK after : /\ after[0] = row
                   /\ \A n \in 1 .. Len(ops) : after[n] = ApplyOp(after[n - 1], ops[n])
                   /\ ApplyOps(row, ops) = after[Len(ops)]
  BY <1>0, ApplyOpsRun
<1> DEFINE S == {n \in Nat : n <= Len(ops) => after[n] \in Rows(L)}
<1>2. 0 \in S  BY <1>1
<1>3. ASSUME NEW n \in Nat, n \in S PROVE n + 1 \in S
  <2>1. SUFFICES ASSUME n + 1 <= Len(ops) PROVE after[n + 1] \in Rows(L)  OBVIOUS
  <2>2. n + 1 \in 1 .. Len(ops) /\ n + 1 - 1 = n  BY <1>0, <2>1
  <2>3. after[n] \in Rows(L)  BY <1>0, <1>3, <2>1
  <2>4. after[n + 1] = ApplyOp(after[n], ops[n + 1])  BY <1>1, <2>2
  <2> QED  BY <1>0, <2>2, <2>3, <2>4, ApplyMakesARow
<1>4. Len(ops) \in S
  <2>1. \A n \in Nat : n \in S => n + 1 \in S  BY <1>3
  <2> HIDE DEF S
  <2> QED  BY <1>0, <1>2, <2>1, InductionOnNat
<1> QED  BY <1>0, <1>1, <1>4

\* The operations on one row are some of the operations.
LEMMA OpsOnFacts ==
  ASSUME NEW S, NEW ops \in Seq(S), NEW id
  PROVE  /\ OpsOn(ops, id) \in Seq(S)
         /\ ToSet(OpsOn(ops, id)) = {op \in ToSet(ops) : op.id = id}
<1>1. DOMAIN ops = 1 .. Len(ops)  OBVIOUS
<1>2. PICK I : I = {n \in DOMAIN ops : ops[n].id = id}  OBVIOUS
<1>3. OpsOn(ops, id) = KeepAt(ops, I)  BY <1>2 DEF OpsOn
<1>4. KeepAt(ops, I) \in Seq(S) /\ ToSet(KeepAt(ops, I)) = {ops[i] : i \in I \cap 1 .. Len(ops)}
  BY ToSetOfKeepAt
<1>5. ToSet(ops) = {ops[k] : k \in 1 .. Len(ops)}  BY ToSetOfSeq
<1>6. {ops[i] : i \in I \cap 1 .. Len(ops)} = {op \in ToSet(ops) : op.id = id}  BY <1>1, <1>2, <1>5
<1> QED  BY <1>3, <1>4, <1>6

\* A row as an operation is made of the row's writes.
LEMMA SeedMakesAnOp ==
  ASSUME NEW L, L \subseteq Pairs, NEW id \in Ids, NEW row \in Rows(L), row.state # "missing"
  PROVE  /\ SeedOp(id, row) \in Ops(L) /\ SeedOp(id, row).id = id
         /\ SeedOp(id, row).op = IF row.state = "deleted" THEN "delete" ELSE "upsert"
         /\ row.state = "deleted" => SeedOp(id, row).hlc = row.del
         /\ row.state = "live" => \A f \in Fields : SeedOp(id, row).hlc >= row.clock[f]
         /\ row.state = "live" => SeedOp(id, row).hlc >= row.del
<1>0. /\ row.state \in {"missing", "live", "deleted"} /\ row.del \in Nat
      /\ row.clock \in [Fields -> Nat]
      /\ \A f \in Fields : row.clock[f] \in Nat /\ row.value[f] \in Nat
      /\ \A f \in Fields : \/ row.clock[f] = 0 /\ row.value[f] = 0
                           \/ <<row.clock[f], row.value[f]>> \in L
  BY RowParts
<1>1. CASE row.state = "deleted"
  <2>1. PICK o : o = [id |-> id, op |-> "delete", hlc |-> row.del, set |-> << >>]  OBVIOUS
  <2>2. SeedOp(id, row) = o  BY <1>1, <2>1 DEF SeedOp
  <2>3. << >> \in [{} -> Write]  OBVIOUS
  <2>4. << >> \in UNION {[F -> Write] : F \in SUBSET Fields}  BY <2>3
  <2>5. o \in Op  BY <1>0, <2>1, <2>4 DEF Op, Clock
  <2>6. DOMAIN o.set = {} /\ o.op = "delete" /\ o.id = id /\ o.hlc = row.del  BY <2>1
  <2> QED  BY <1>1, <2>2, <2>5, <2>6 DEF Ops, Issued
<1>2. CASE row.state = "live"
  <2> DEFINE C == {row.del} \cup {row.clock[f] : f \in Fields}
             G == {g \in Fields : row.value[g] # 0}
             T == [f \in G |-> [clock |-> row.clock[f], value |-> row.value[f]]]
  <2>1. PICK m : m = MaxClock(row)  OBVIOUS
  <2>2. m \in Nat /\ (\A f \in Fields : m >= row.clock[f]) /\ m >= row.del /\ m \in C
    <3>1. C \in SUBSET Nat /\ C # {}  BY <1>0
    <3>2. IsFiniteSet(C)
      <4>1. PICK D : D = {row.clock[f] : f \in Fields}  OBVIOUS
      <4>2. row.clock \in Surjection(Fields, D)  BY <1>0, <4>1 DEF Surjection
      <4>3. IsFiniteSet(D)  BY <4>2, FS_Surjection, RegistryRowAssumption
      <4>4. IsFiniteSet(D \cup {row.del})  BY <4>3, FS_AddElement
      <4>5. C = D \cup {row.del}  BY <4>1
      <4> QED  BY <4>4, <4>5
    <3>3. m = Max(C)  BY <2>1 DEF MaxClock
    <3> HIDE DEF C
    <3>4. m \in C /\ \A x \in C : m >= x  BY <3>1, <3>2, <3>3, LargestNumber
    <3> QED  BY <3>1, <3>4 DEF C
  <2>3. PICK o : o = [id |-> id, op |-> "upsert", hlc |-> m, set |-> T]  OBVIOUS
  <2>4. SeedOp(id, row) = o  BY <1>2, <2>1, <2>3 DEF SeedOp
  <2>5. \A f \in G : <<row.clock[f], row.value[f]>> \in L /\ f \in Fields  BY <1>0
  <2>6. \A f \in G : row.clock[f] # 0  BY <2>5 DEF Pairs
  <2>7. T \in UNION {[F -> Write] : F \in SUBSET Fields}
    <3>1. \A f \in G : T[f] \in Write  BY <1>0, <2>6 DEF Write, Clock
    <3>2. T \in [G -> Write]  BY <3>1
    <3> QED  BY <3>2
  <2>8. o \in Op  BY <2>2, <2>3, <2>7 DEF Op, Clock
  <2>9. \A f \in DOMAIN o.set : <<o.set[f].clock, o.set[f].value>> \in L /\ o.set[f].clock <= o.hlc
    BY <1>0, <2>2, <2>3, <2>5
  <2>10. ASSUME NoClears(L) PROVE \E f \in DOMAIN o.set : o.set[f].clock = o.hlc
    <3>1. PICK g \in Fields : row.clock[g] > row.del  BY <1>2, <2>10, RowParts
    <3>2. PICK f \in Fields : row.clock[f] = m  BY <1>0, <2>2, <3>1
    <3>3. row.clock[f] # 0  BY <1>0, <2>2, <3>1, <3>2
    <3>4. row.value[f] # 0  BY <1>0, <2>10, <3>3 DEF NoClears
    <3> QED  BY <2>3, <3>2, <3>4
  <2>11. o.id = id /\ o.op = "upsert" /\ o.hlc = m  BY <2>3
  <2> HIDE DEF C, G, T
  <2>12. o \in Ops(L)  BY <2>8, <2>9, <2>10 DEF Ops, Issued
  <2> QED  BY <1>2, <2>2, <2>4, <2>11, <2>12
<1> QED  BY <1>0, <1>1, <1>2

-----------------------------------------------------------------------------
(* The queue of a replica *)

Batches(L) == [batch : Nat, ops : Seq(Ops(L)), flight : BOOLEAN]

Clocks == [ms : Nat, counter : 0 .. Counters - 1]

DocRecords(L) ==
  [rows : [Ids -> Rows(L)], cursor : Nat, pending : Seq(Batches(L)), clock : Clocks,
   touched : BOOLEAN, written : SUBSET Ops(L), epoch : Nat]

\* Batches have names of their own, all taken from the replica's clock.
Named(d, dc) ==
  /\ \A n \in DOMAIN dc.pending : dc.pending[n].batch <= Now(d, dc)
  /\ \A m, n \in DOMAIN dc.pending : dc.pending[m].batch = dc.pending[n].batch => m = n

Docs(d, L) == {dc \in DocRecords(L) : Named(d, dc)}

Landing(dc) == \A n \in DOMAIN dc.pending : ~ dc.pending[n].flight

\* The operations of a queue, in no order.
OpsOf(pending) == UNION {ToSet(pending[n].ops) : n \in DOMAIN pending}

LEMMA DocParts ==
  ASSUME NEW L, NEW d, NEW dc \in Docs(d, L)
  PROVE  /\ dc \in DocRecords(L) /\ Named(d, dc)
         /\ dc.rows \in [Ids -> Rows(L)] /\ dc.cursor \in Nat /\ dc.pending \in Seq(Batches(L))
         /\ dc.clock \in Clocks /\ dc.touched \in BOOLEAN /\ dc.written \in SUBSET Ops(L)
         /\ dc.epoch \in Nat
         /\ DOMAIN dc.pending = 1 .. Len(dc.pending) /\ Len(dc.pending) \in Nat
         /\ \A n \in DOMAIN dc.pending :
              /\ dc.pending[n] \in Batches(L) /\ dc.pending[n].batch \in Nat
              /\ dc.pending[n].ops \in Seq(Ops(L)) /\ dc.pending[n].flight \in BOOLEAN
<1>1. dc \in DocRecords(L) /\ Named(d, dc)  BY DEF Docs
<1>2. /\ dc.rows \in [Ids -> Rows(L)] /\ dc.cursor \in Nat /\ dc.pending \in Seq(Batches(L))
      /\ dc.clock \in Clocks /\ dc.touched \in BOOLEAN /\ dc.written \in SUBSET Ops(L)
      /\ dc.epoch \in Nat
  BY <1>1 DEF DocRecords
<1>3. PICK p \in Seq(Batches(L)) : p = dc.pending  BY <1>2
<1>4. DOMAIN p = 1 .. Len(p) /\ Len(p) \in Nat /\ \A n \in DOMAIN p : p[n] \in Batches(L)  OBVIOUS
<1>5. \A b \in Batches(L) : b.batch \in Nat /\ b.ops \in Seq(Ops(L)) /\ b.flight \in BOOLEAN  BY DEF Batches
<1> QED  BY <1>1, <1>2, <1>3, <1>4, <1>5

\* The operations of a queue as a sequence.
LEMMA FlattenPending ==
  ASSUME NEW L, NEW p \in Seq(Batches(L))
  PROVE  LET all == FlattenSeq([n \in DOMAIN p |-> p[n].ops])
         IN  all \in Seq(Ops(L)) /\ ToSet(all) = OpsOf(p)
<1>0. DOMAIN p = 1 .. Len(p) /\ Len(p) \in Nat /\ \A n \in DOMAIN p : p[n] \in Batches(L)  OBVIOUS
<1>1. DOMAIN p = 1 .. Len(p) /\ Len(p) \in Nat /\ \A n \in DOMAIN p : p[n].ops \in Seq(Ops(L))
  BY <1>0 DEF Batches
<1>2. PICK ss : ss = [n \in DOMAIN p |-> p[n].ops]  OBVIOUS
<1>3. Len(ss) = Len(p) /\ \A n \in 1 .. Len(ss) : ss[n] \in Seq(Ops(L)) /\ ss[n] = p[n].ops
  <2>1. DOMAIN ss = 1 .. Len(p)  BY <1>1, <1>2
  <2>2. ss \in Seq(Seq(Ops(L)))  BY <1>1, <1>2
  <2> QED  BY <1>1, <1>2, <2>1, <2>2
<1>4. Len(ss) = 0 => ss = <<>>  BY <1>1, <1>2, <1>3
<1>5. /\ FlattenSeq(ss) \in Seq(Ops(L))
      /\ ToSet(FlattenSeq(ss)) = UNION {ToSet(ss[n]) : n \in 1 .. Len(ss)}
  BY <1>1, <1>3, <1>4, ToSetOfFlatten
<1>6. UNION {ToSet(ss[n]) : n \in 1 .. Len(ss)} = OpsOf(p)  BY <1>1, <1>3 DEF OpsOf
<1> QED  BY <1>2, <1>5, <1>6

LEMMA PendingOpsFacts ==
  ASSUME NEW L, NEW d, NEW dc \in Docs(d, L), NEW id
  PROVE  /\ PendingOps(dc, id) \in Seq(Ops(L))
         /\ ToSet(PendingOps(dc, id)) = {op \in OpsOf(dc.pending) : op.id = id}
<1>1. PICK p \in Seq(Batches(L)) : p = dc.pending  BY DocParts
<1>2. PICK all : all = FlattenSeq([n \in DOMAIN p |-> p[n].ops])  OBVIOUS
<1>3. all \in Seq(Ops(L)) /\ ToSet(all) = OpsOf(p)  BY <1>2, FlattenPending
<1>4. /\ OpsOn(all, id) \in Seq(Ops(L))
      /\ ToSet(OpsOn(all, id)) = {op \in ToSet(all) : op.id = id}
  BY <1>3, OpsOnFacts
<1>5. PendingOps(dc, id) = OpsOn(all, id)  BY <1>1, <1>2 DEF PendingOps
<1> QED  BY <1>1, <1>3, <1>4, <1>5

LEMMA ViewIsARow ==
  ASSUME NEW L, NEW d, NEW dc \in Docs(d, L), NEW id \in Ids
  PROVE  View(dc, id) \in Rows(L)
<1>1. dc.rows[id] \in Rows(L)  BY DocParts
<1>2. PendingOps(dc, id) \in Seq(Ops(L))  BY PendingOpsFacts
<1> QED  BY <1>1, <1>2, ApplyOpsMakesARow DEF View

\* Clocks only go up, in the order of their encoding.
LEMMA EncodedOrder ==
  ASSUME NEW m \in Nat, NEW c \in 0 .. Counters - 1, NEW n \in Nat, NEW e \in 0 .. Counters - 1,
         NEW r \in 0 .. Ranks - 1,
         n > m \/ (n = m /\ e > c)
  PROVE  EncodeHlc(n, e, r) > EncodeHlc(m, c, r)
<1>0. Counters \in Nat /\ Ranks \in Nat /\ Ranks >= 1  BY RegistryRowAssumption
<1>1. PICK a \in Nat, b \in Nat : a = m * Counters + c /\ b = n * Counters + e
  <2>1. m * Counters \in Nat /\ n * Counters \in Nat  BY <1>0
  <2> QED  BY <1>0, <2>1
<1>2. b >= a + 1
  <2>1. CASE n = m /\ e > c
    BY <1>0, <1>1, <2>1
  <2>2. CASE n > m
    <3>1. PICK k \in Nat : n = m + 1 + k
      <4>1. n - m - 1 \in Nat /\ n = m + 1 + (n - m - 1)  BY <2>2
      <4> QED  BY <4>1
    <3>2. PICK x \in Nat, y \in Nat : x = m * Counters /\ y = k * Counters  BY <1>0
    <3>3. n * Counters = x + Counters + y
      <4>1. (m + 1 + k) * Counters = m * Counters + Counters + k * Counters  BY <1>0
      <4> QED  BY <3>1, <3>2, <4>1
    <3> QED  BY <1>0, <1>1, <3>2, <3>3
  <2> QED  BY <2>1, <2>2
<1>3. PICK k \in Nat : b = a + 1 + k
  <2>1. b - a - 1 \in Nat /\ b = a + 1 + (b - a - 1)  BY <1>2
  <2> QED  BY <2>1
<1>4. b * Ranks = a * Ranks + Ranks + k * Ranks
  <2>1. (a + 1 + k) * Ranks = a * Ranks + Ranks + k * Ranks  BY <1>0
  <2> QED  BY <1>3, <2>1
<1>5. a * Ranks \in Nat /\ k * Ranks \in Nat  BY <1>0
<1>6. b * Ranks + r > a * Ranks + r
  <2>1. PICK u \in Nat, v \in Nat, w \in Nat : u = a * Ranks /\ v = k * Ranks /\ w = b * Ranks
    BY <1>0, <1>5
  <2> QED  BY <1>0, <1>4, <2>1
<1> QED  BY <1>1, <1>6 DEF EncodeHlc

LEMMA NextHlcFacts ==
  ASSUME NEW clock \in Clocks, NEW now \in Nat, NEW r \in 0 .. Ranks - 1
  PROVE  /\ NextHlc(clock, now) \in Clocks
         /\ NextHlc(clock, now).ms >= now /\ NextHlc(clock, now).ms >= clock.ms
         /\ EncodeHlc(NextHlc(clock, now).ms, NextHlc(clock, now).counter, r)
              > EncodeHlc(clock.ms, clock.counter, r)
<1>0. Counters \in Nat /\ Counters >= 1 /\ clock.ms \in Nat /\ clock.counter \in 0 .. Counters - 1
  BY RegistryRowAssumption DEF Clocks
<1>1. PICK n : n = NextHlc(clock, now)  OBVIOUS
<1>2. /\ n \in Clocks /\ n.ms >= now /\ n.ms >= clock.ms
      /\ n.ms > clock.ms \/ (n.ms = clock.ms /\ n.counter > clock.counter)
  <2>1. CASE now > clock.ms  BY <1>0, <1>1, <2>1 DEF NextHlc, Clocks
  <2>2. CASE ~ (now > clock.ms) /\ clock.counter + 1 < Counters
    BY <1>0, <1>1, <2>2 DEF NextHlc, Clocks
  <2>3. CASE ~ (now > clock.ms) /\ ~ (clock.counter + 1 < Counters)
    BY <1>0, <1>1, <2>3 DEF NextHlc, Clocks
  <2> QED  BY <2>1, <2>2, <2>3
<1>3. n.ms \in Nat /\ n.counter \in 0 .. Counters - 1  BY <1>2 DEF Clocks
<1> QED  BY <1>0, <1>1, <1>2, <1>3, EncodedOrder

\* What a change of the queue leaves alone.
SameBut(dc, e) ==
  e.rows = dc.rows /\ e.cursor = dc.cursor /\ e.written = dc.written /\ e.epoch = dc.epoch

LEMMA TickFacts ==
  ASSUME NEW L, NEW d \in Devices, NEW dc \in Docs(d, L), NEW now \in Nat
  PROVE  /\ Tick(dc, now) \in Docs(d, L)
         /\ Now(d, Tick(dc, now)) > Now(d, dc) /\ Now(d, dc) \in Nat /\ Now(d, Tick(dc, now)) \in Nat
         /\ Tick(dc, now).clock = NextHlc(dc.clock, now)
         /\ Tick(dc, now).clock.ms >= now /\ Tick(dc, now).clock.ms >= dc.clock.ms
         /\ Tick(dc, now).pending = dc.pending /\ Tick(dc, now).touched = dc.touched
         /\ SameBut(dc, Tick(dc, now))
<1>0. dc \in DocRecords(L) /\ dc.clock \in Clocks /\ Named(d, dc)
      /\ dc.pending \in Seq(Batches(L)) /\ \A n \in DOMAIN dc.pending : dc.pending[n].batch \in Nat
  BY DocParts
<1>1. Rank[d] \in 0 .. Ranks - 1 /\ Ranks \in Nat /\ Counters \in Nat
  BY RegistrySyncAssumption, RegistryRowAssumption
<1>2. PICK c : c = NextHlc(dc.clock, now)  OBVIOUS
<1>3. /\ c \in Clocks /\ c.ms >= now /\ c.ms >= dc.clock.ms
      /\ EncodeHlc(c.ms, c.counter, Rank[d]) > EncodeHlc(dc.clock.ms, dc.clock.counter, Rank[d])
  BY <1>0, <1>1, <1>2, NextHlcFacts
<1>4. PICK t : t = Tick(dc, now)  OBVIOUS
<1>5. t = [dc EXCEPT !.clock = c]  BY <1>2, <1>4 DEF Tick
<1>6. /\ t \in DocRecords(L) /\ t.clock = c /\ t.pending = dc.pending /\ t.touched = dc.touched
      /\ SameBut(dc, t)
  BY <1>0, <1>3, <1>5 DEF DocRecords, SameBut
<1>7. \A k \in Clocks : EncodeHlc(k.ms, k.counter, Rank[d]) \in Nat
  BY <1>1 DEF Clocks, EncodeHlc
<1>8. Now(d, t) > Now(d, dc) /\ Now(d, dc) \in Nat /\ Now(d, t) \in Nat
  BY <1>0, <1>3, <1>6, <1>7 DEF Now
<1>9. Named(d, t)
  <2>1. \A n \in DOMAIN dc.pending : dc.pending[n].batch <= Now(d, dc)  BY <1>0 DEF Named
  <2>2. \A n \in DOMAIN dc.pending : dc.pending[n].batch <= Now(d, t)  BY <1>0, <1>8, <2>1
  <2> QED  BY <1>0, <1>6, <2>2 DEF Named
<1> QED  BY <1>2, <1>3, <1>4, <1>6, <1>8, <1>9 DEF Docs

\* The batch that operations are queued in.
NewBatch(d, dc, ops, now) == [batch |-> Now(d, Tick(dc, now)), ops |-> ops, flight |-> FALSE]

Enqueued(L, d, dc, ops, e, b) ==
  /\ e \in Docs(d, L) /\ SameBut(dc, e)
  /\ e.clock.ms >= dc.clock.ms
  /\ Now(d, e) >= Now(d, dc)
  /\ ops = <<>> => e = dc
  /\ ops # <<>> => e.pending = Append(dc.pending, b) /\ b.batch <= Now(d, e)
  /\ b \in Batches(L) /\ b.batch > Now(d, dc) /\ b.ops = ops /\ b.flight = FALSE

LEMMA EnqueueOpsFacts ==
  ASSUME NEW L, NEW d \in Devices, NEW dc \in Docs(d, L), NEW ops \in Seq(Ops(L)), NEW now \in Nat
  PROVE  Enqueued(L, d, dc, ops, EnqueueOps(d, dc, ops, now), NewBatch(d, dc, ops, now))
<1> DEFINE b == NewBatch(d, dc, ops, now)
<1>1. PICK t : t = Tick(dc, now)  OBVIOUS
<1>2. /\ t \in Docs(d, L) /\ Now(d, t) > Now(d, dc) /\ Now(d, dc) \in Nat /\ Now(d, t) \in Nat
      /\ t.pending = dc.pending /\ SameBut(dc, t) /\ t.clock = NextHlc(dc.clock, now)
      /\ t.clock.ms >= dc.clock.ms
  BY <1>1, TickFacts
<1>3. PICK x : x = b  OBVIOUS
<1>4. x \in Batches(L) /\ x.batch = Now(d, t) /\ x.ops = ops /\ x.flight = FALSE
  BY <1>1, <1>2, <1>3 DEF Batches, NewBatch
<1>5. PICK q : q = Append(dc.pending, x)  OBVIOUS
<1>6. dc.pending \in Seq(Batches(L)) /\ \A n \in DOMAIN dc.pending : dc.pending[n].batch \in Nat
  BY DocParts
<1>7. PICK p \in Seq(Batches(L)) : p = dc.pending  BY <1>6
<1>8. /\ q \in Seq(Batches(L)) /\ Len(q) = Len(p) + 1 /\ q[Len(p) + 1] = x
      /\ DOMAIN q = 1 .. Len(p) + 1 /\ DOMAIN p = 1 .. Len(p) /\ Len(p) \in Nat
      /\ \A n \in 1 .. Len(p) : q[n] = p[n]
  BY <1>4, <1>5, <1>7
<1>9. PICK e : e = [t EXCEPT !.touched = TRUE, !.pending = q]  OBVIOUS
<1>10. /\ e \in DocRecords(L) /\ e.pending = q /\ e.clock = t.clock /\ e.touched = TRUE /\ SameBut(t, e)
  <2>1. t \in DocRecords(L)  BY <1>2, DocParts
  <2> QED  BY <1>8, <1>9, <2>1 DEF DocRecords, SameBut
<1>11. Now(d, e) = Now(d, t)  BY <1>10 DEF Now
<1>12. Named(d, e)
  <2>1. /\ \A n \in 1 .. Len(p) : p[n].batch <= Now(d, dc) /\ p[n].batch \in Nat
        /\ \A m, n \in 1 .. Len(p) : p[m].batch = p[n].batch => m = n
    BY <1>6, <1>7, <1>8, DocParts DEF Named
  <2>2. ASSUME NEW n \in 1 .. Len(p) + 1 PROVE q[n].batch <= Now(d, e)
    <3>1. CASE n \in 1 .. Len(p)  BY <1>2, <1>8, <1>11, <2>1, <3>1
    <3>2. CASE n = Len(p) + 1  BY <1>2, <1>4, <1>8, <1>11, <3>2
    <3> QED  BY <1>8, <3>1, <3>2
  <2>3. ASSUME NEW m \in 1 .. Len(p) + 1, NEW n \in 1 .. Len(p) + 1, q[m].batch = q[n].batch
        PROVE  m = n
    <3>1. \A k \in 1 .. Len(p) : q[k].batch = p[k].batch /\ q[k].batch # x.batch
      BY <1>2, <1>4, <1>8, <2>1
    <3>2. CASE m \in 1 .. Len(p) /\ n \in 1 .. Len(p)  BY <2>1, <2>3, <3>1, <3>2
    <3>3. CASE m = Len(p) + 1 /\ n \in 1 .. Len(p)  BY <1>8, <2>3, <3>1, <3>3
    <3>4. CASE n = Len(p) + 1 /\ m \in 1 .. Len(p)  BY <1>8, <2>3, <3>1, <3>4
    <3> QED  BY <1>8, <3>2, <3>3, <3>4
  <2> QED  BY <1>8, <1>10, <2>2, <2>3 DEF Named
<1>13. e \in Docs(d, L)  BY <1>10, <1>12 DEF Docs
<1>14. PICK r : r = EnqueueOps(d, dc, ops, now)  OBVIOUS
<1>15. r = IF ops = <<>> THEN dc ELSE e
  <2>1. ops # <<>> => r = [t EXCEPT !.touched = TRUE, !.pending = Append(t.pending, x)]
    <3>1. t \in DocRecords(L)  BY <1>2, DocParts
    <3> QED  BY <1>1, <1>3, <1>14, <3>1 DEF EnqueueOps, DocRecords, NewBatch
  <2> QED  BY <1>2, <1>5, <1>9, <1>14, <2>1 DEF EnqueueOps
<1>16. SameBut(dc, e)  BY <1>2, <1>10 DEF SameBut
<1>17. SameBut(dc, dc)  BY DEF SameBut
<1>18. dc.clock.ms \in Nat  BY DocParts DEF Clocks
<1>19. Enqueued(L, d, dc, ops, r, x)
  BY <1>2, <1>4, <1>5, <1>10, <1>11, <1>13, <1>15, <1>16, <1>17, <1>18 DEF Enqueued
<1> QED  BY <1>3, <1>14, <1>19

LEMMA OpsOfAppend ==
  ASSUME NEW L, NEW p \in Seq(Batches(L)), NEW b \in Batches(L)
  PROVE  /\ OpsOf(Append(p, b)) = OpsOf(p) \cup ToSet(b.ops)
         /\ OpsOf(<<>>) = {}
<1>1. PICK q : q = Append(p, b)  OBVIOUS
<1>2. PICK l \in Nat : l = Len(p)  OBVIOUS
<1>3. /\ DOMAIN q = 1 .. l + 1 /\ DOMAIN p = 1 .. l /\ q[l + 1] = b
      /\ \A n \in 1 .. l : q[n] = p[n]
  BY <1>1, <1>2
<1>4. ASSUME NEW o \in OpsOf(q) PROVE o \in OpsOf(p) \cup ToSet(b.ops)
  <2>1. PICK n \in 1 .. l + 1 : o \in ToSet(q[n].ops)  BY <1>3, <1>4 DEF OpsOf
  <2>2. n \in 1 .. l \/ n = l + 1  OBVIOUS
  <2> QED  BY <1>3, <2>1, <2>2 DEF OpsOf
<1>5. ASSUME NEW o \in OpsOf(p) \cup ToSet(b.ops) PROVE o \in OpsOf(q)
  <2>1. CASE o \in OpsOf(p)
    <3>1. PICK n \in 1 .. l : o \in ToSet(p[n].ops)  BY <1>3, <2>1 DEF OpsOf
    <3>2. n \in 1 .. l + 1  OBVIOUS
    <3> QED  BY <1>3, <3>1, <3>2 DEF OpsOf
  <2>2. CASE o \in ToSet(b.ops)  BY <1>3, <2>2 DEF OpsOf
  <2> QED  BY <1>5, <2>1, <2>2
<1>6. OpsOf(<<>>) = {}  BY DEF OpsOf
<1> QED  BY <1>1, <1>4, <1>5, <1>6

\* Batches marked as in flight, or as not in flight.
Marked(dc, flight) == [dc EXCEPT !.pending = [n \in DOMAIN @ |-> [@[n] EXCEPT !.flight = flight]]]

MarkedAs(L, d, dc, flight, e) ==
  /\ e \in Docs(d, L) /\ SameBut(dc, e) /\ e.clock = dc.clock /\ e.touched = dc.touched
  /\ DOMAIN e.pending = DOMAIN dc.pending
  /\ \A n \in DOMAIN dc.pending :
       /\ e.pending[n].batch = dc.pending[n].batch
       /\ e.pending[n].ops = dc.pending[n].ops
       /\ e.pending[n].flight = flight
  /\ OpsOf(e.pending) = OpsOf(dc.pending)
  /\ Now(d, e) = Now(d, dc)

LEMMA MarkedFacts ==
  ASSUME NEW L, NEW d, NEW dc \in Docs(d, L), NEW flight \in BOOLEAN
  PROVE  MarkedAs(L, d, dc, flight, Marked(dc, flight))
<1>0. /\ dc \in DocRecords(L) /\ Named(d, dc)
      /\ DOMAIN dc.pending = 1 .. Len(dc.pending) /\ Len(dc.pending) \in Nat
      /\ \A n \in DOMAIN dc.pending : dc.pending[n] \in Batches(L)
  BY DocParts
<1>1. PICK e : e = Marked(dc, flight)  OBVIOUS
<1>2. PICK q : q = [n \in DOMAIN dc.pending |-> [dc.pending[n] EXCEPT !.flight = flight]]  OBVIOUS
<1>3. e = [dc EXCEPT !.pending = q]  BY <1>0, <1>1, <1>2 DEF Marked, DocRecords
<1>4. DOMAIN q = DOMAIN dc.pending  BY <1>2
<1>5. ASSUME NEW n \in DOMAIN dc.pending
      PROVE  /\ q[n] \in Batches(L) /\ q[n].batch = dc.pending[n].batch
             /\ q[n].ops = dc.pending[n].ops /\ q[n].flight = flight
  <2>1. dc.pending[n] \in Batches(L)  BY <1>0
  <2>2. q[n] = [dc.pending[n] EXCEPT !.flight = flight]  BY <1>2
  <2> QED  BY <2>1, <2>2 DEF Batches
<1>6. q \in Seq(Batches(L))
  <2>1. PICK l \in Nat : l = Len(dc.pending)  BY <1>0
  <2>2. q \in [1 .. l -> Batches(L)]  BY <1>0, <1>2, <1>5, <2>1
  <2> QED  BY <2>2, SeqDef
<1>7. /\ e \in DocRecords(L) /\ SameBut(dc, e) /\ e.clock = dc.clock /\ e.touched = dc.touched
      /\ e.pending = q
  BY <1>0, <1>3, <1>6 DEF DocRecords, SameBut
<1>8. Now(d, e) = Now(d, dc)  BY <1>7 DEF Now
<1>9. Named(d, e)  BY <1>0, <1>4, <1>5, <1>7, <1>8 DEF Named
<1>10. OpsOf(e.pending) = OpsOf(dc.pending)  BY <1>4, <1>5, <1>7 DEF OpsOf
<1> QED  BY <1>1, <1>4, <1>5, <1>7, <1>8, <1>9, <1>10 DEF Docs, MarkedAs

LEMMA LandedFacts ==
  ASSUME NEW L, NEW d, NEW dc \in Docs(d, L)
  PROVE  /\ Landed(dc) = Marked(dc, FALSE)
         /\ Landed(dc) \in Docs(d, L) /\ Landing(Landed(dc))
         /\ Kept(dc) \in Docs(d, L) /\ Landing(Kept(dc)) /\ SameBut(dc, Kept(dc))
         /\ Kept(dc).clock = dc.clock /\ Kept(dc).pending = Landed(dc).pending
<1>1. Landed(dc) = Marked(dc, FALSE)  BY DEF Landed, Marked
<1>2. PICK l : l = Landed(dc)  OBVIOUS
<1>3. l \in Docs(d, L) /\ Landing(l) /\ SameBut(dc, l) /\ l.clock = dc.clock
  <2>1. PICK no \in BOOLEAN : no = FALSE  OBVIOUS
  <2>2. l = Marked(dc, no)  BY <1>1, <1>2, <2>1
  <2>3. /\ l \in Docs(d, L) /\ SameBut(dc, l) /\ l.clock = dc.clock
        /\ DOMAIN l.pending = DOMAIN dc.pending
        /\ \A n \in DOMAIN dc.pending : l.pending[n].flight = no
    BY <2>2, MarkedFacts DEF MarkedAs
  <2> QED  BY <2>1, <2>3 DEF Landing
<1>4. PICK k : k = [l EXCEPT !.touched = FALSE]  OBVIOUS
<1>5. k = Kept(dc)  BY <1>2, <1>4 DEF Kept
<1>6. /\ k \in DocRecords(L) /\ SameBut(l, k) /\ k.clock = l.clock /\ k.pending = l.pending
  <2>1. l \in DocRecords(L)  BY <1>3, DocParts
  <2> QED  BY <1>4, <2>1 DEF DocRecords, SameBut
<1>7. k \in Docs(d, L)
  <2>1. Named(d, l)  BY <1>3, DocParts
  <2> QED  BY <1>6, <2>1 DEF Docs, Named, Now
<1> QED  BY <1>1, <1>2, <1>3, <1>5, <1>6, <1>7 DEF SameBut, Landing

\* A sequence with a part for every member of a finite set.
LEMMA FlattenOver ==
  ASSUME NEW S, NEW I, IsFiniteSet(I), NEW parts, \A i \in I : parts[i] \in Seq(S)
  PROVE  LET all == FlattenSeq([n \in 1 .. Cardinality(I) |-> parts[SetToSeq(I)[n]]])
         IN  all \in Seq(S) /\ ToSet(all) = UNION {ToSet(parts[i]) : i \in I}
<1>1. PICK q : q = SetToSeq(I)  OBVIOUS
<1>2. PICK c : c = Cardinality(I)  OBVIOUS
<1>3. /\ c \in Nat
      /\ \A n \in 1 .. c : q[n] \in I
      /\ \A i \in I : \E n \in 1 .. c : q[n] = i
  BY <1>1, <1>2, SetToSeqFacts
<1>4. PICK ss : ss = [n \in 1 .. c |-> parts[q[n]]]  OBVIOUS
<1>5. Len(ss) = c /\ (c = 0 => ss = <<>>) /\ \A n \in 1 .. c : ss[n] = parts[q[n]]
  <2>1. ss \in Seq(Seq(S))  BY <1>3, <1>4
  <2>2. DOMAIN ss = 1 .. c  BY <1>4
  <2> QED  BY <1>3, <1>4, <2>1, <2>2
<1>6. \A n \in 1 .. Len(ss) : ss[n] \in Seq(S)  BY <1>3, <1>5
<1>7. /\ FlattenSeq(ss) \in Seq(S)
      /\ ToSet(FlattenSeq(ss)) = UNION {ToSet(ss[n]) : n \in 1 .. Len(ss)}
  BY <1>3, <1>5, <1>6, ToSetOfFlatten
<1>8. UNION {ToSet(ss[n]) : n \in 1 .. Len(ss)} = UNION {ToSet(parts[i]) : i \in I}
  <2>1. ASSUME NEW i \in I, NEW x \in ToSet(parts[i]) PROVE \E n \in 1 .. Len(ss) : x \in ToSet(ss[n])
    <3>1. PICK n \in 1 .. c : q[n] = i  BY <1>3
    <3>2. ss[n] = parts[i]  BY <1>5, <3>1
    <3> QED  BY <1>5, <2>1, <3>1, <3>2
  <2>2. ASSUME NEW n \in 1 .. Len(ss), NEW x \in ToSet(ss[n]) PROVE \E i \in I : x \in ToSet(parts[i])
    BY <1>3, <1>5, <2>2
  <2> DEFINE A == UNION {ToSet(ss[n]) : n \in 1 .. Len(ss)}
             B == UNION {ToSet(parts[i]) : i \in I}
  <2>3. \A x : x \in A => x \in B  BY <2>2
  <2>4. \A x : x \in B => x \in A  BY <2>1
  <2> HIDE DEF A, B
  <2>5. A = B  BY <2>3, <2>4
  <2> QED  BY <2>5 DEF A, B
<1> QED  BY <1>1, <1>2, <1>4, <1>7, <1>8

\* What compaction makes of the operations on a row.
MergedOps(dc, i) ==
  IF View(dc, i).state = "missing" THEN ToSet(PendingOps(dc, i)) ELSE {SeedOp(i, View(dc, i))}

NamedRows(dc) == {i \in Ids : PendingOps(dc, i) # <<>>}

AllMerged(dc) == UNION {MergedOps(dc, i) : i \in NamedRows(dc)}

CompactedTo(L, d, dc, c) ==
  /\ c \in Docs(d, L) /\ SameBut(dc, c)
  /\ c.clock.ms >= dc.clock.ms /\ Now(d, c) >= Now(d, dc)
  /\ \/ c = dc
     \/ /\ Landing(c)
        /\ OpsOf(c.pending) = AllMerged(dc)
        /\ \A n \in DOMAIN c.pending : c.pending[n].batch > Now(d, dc)

LEMMA CompactedFacts ==
  ASSUME NEW L, L \subseteq Pairs, NEW d \in Devices, NEW dc \in Docs(d, L), NEW now \in Nat
  PROVE  CompactedTo(L, d, dc, Compacted(d, dc, now))
<1>1. PICK c : c = Compacted(d, dc, now)  OBVIOUS
<1>2. CASE dc.pending = <<>> \/ \E n \in DOMAIN dc.pending : dc.pending[n].flight
  <2>1. c = dc  BY <1>1, <1>2 DEF Compacted
  <2>2. dc.clock.ms \in Nat /\ Now(d, dc) \in Nat
    <3>1. Now(d, dc) \in Nat  BY TickFacts
    <3> QED  BY <3>1, DocParts DEF Clocks
  <2> QED  BY <1>1, <2>1, <2>2 DEF SameBut, CompactedTo
<1>3. CASE ~ (dc.pending = <<>> \/ \E n \in DOMAIN dc.pending : dc.pending[n].flight)
  <2> DEFINE one(i) == IF View(dc, i).state = "missing" THEN PendingOps(dc, i)
                       ELSE <<SeedOp(i, View(dc, i))>>
  <2>1. PICK named : named = NamedRows(dc)  OBVIOUS
  <2>2. IsFiniteSet(named) /\ named \subseteq Ids
    BY <2>1, RegistryRowAssumption, FS_Subset DEF NamedRows
  <2>3. PICK parts : parts = [i \in named |-> one(i)]  OBVIOUS
  <2>4. ASSUME NEW i \in named PROVE parts[i] \in Seq(Ops(L)) /\ ToSet(parts[i]) = MergedOps(dc, i)
    <3>1. i \in Ids  BY <2>2
    <3>2. parts[i] = one(i)  BY <2>3
    <3>3. CASE View(dc, i).state = "missing"
      BY <3>2, <3>3, PendingOpsFacts DEF MergedOps
    <3>4. CASE View(dc, i).state # "missing"
      <4>1. PICK o : o = SeedOp(i, View(dc, i))  OBVIOUS
      <4>2. o \in Ops(L)  BY <3>1, <3>4, <4>1, ViewIsARow, SeedMakesAnOp
      <4>3. <<o>> \in Seq(Ops(L)) /\ ToSet(<<o>>) = {o}  BY <4>2, ToSetOfOne
      <4> QED  BY <3>2, <3>4, <4>1, <4>3 DEF MergedOps
    <3> QED  BY <3>3, <3>4
  <2>5. PICK ops : ops = FlattenSeq([n \in 1 .. Cardinality(named) |-> parts[SetToSeq(named)[n]]])
    OBVIOUS
  <2>6. ops \in Seq(Ops(L)) /\ ToSet(ops) = AllMerged(dc)
    <3>1. ops \in Seq(Ops(L)) /\ ToSet(ops) = UNION {ToSet(parts[i]) : i \in named}
      BY <2>2, <2>4, <2>5, FlattenOver
    <3> QED  BY <2>1, <2>4, <3>1 DEF AllMerged
  <2>7. PICK e : e = [dc EXCEPT !.pending = <<>>]  OBVIOUS
  <2>8. /\ e \in Docs(d, L) /\ SameBut(dc, e) /\ e.clock = dc.clock /\ e.pending = <<>>
        /\ Now(d, e) = Now(d, dc)
    <3>1. dc \in DocRecords(L)  BY DocParts
    <3>2. <<>> \in Seq(Batches(L)) /\ DOMAIN <<>> = {}  OBVIOUS
    <3>3. e \in DocRecords(L) /\ SameBut(dc, e) /\ e.clock = dc.clock /\ e.pending = <<>>
      BY <2>7, <3>1, <3>2 DEF DocRecords, SameBut
    <3> QED  BY <3>2, <3>3 DEF Docs, Named, Now
  <2>9. c = EnqueueOps(d, e, ops, now)
    <3>1. \A n \in 1 .. Cardinality(named) : SetToSeq(named)[n] \in named  BY <2>2, SetToSeqFacts
    <3>2. [n \in 1 .. Cardinality(named) |-> parts[SetToSeq(named)[n]]]
            = [n \in 1 .. Cardinality(named) |-> one(SetToSeq(named)[n])]
      BY <2>3, <3>1
    <3> QED  BY <1>1, <1>3, <2>1, <2>5, <2>7, <3>2 DEF Compacted, NamedRows
  <2>10. PICK b : b = NewBatch(d, e, ops, now)  OBVIOUS
  <2>11. /\ c \in Docs(d, L) /\ SameBut(e, c) /\ c.clock.ms >= e.clock.ms /\ Now(d, c) >= Now(d, e)
         /\ ops = <<>> => c = e
         /\ ops # <<>> => c.pending = Append(<<>>, b)
         /\ b \in Batches(L) /\ b.batch > Now(d, e) /\ b.ops = ops /\ b.flight = FALSE
    <3>1. e \in Docs(d, L) /\ ops \in Seq(Ops(L)) /\ now \in Nat /\ d \in Devices  BY <2>6, <2>8
    <3>2. Enqueued(L, d, e, ops, c, b)  BY <2>9, <2>10, <3>1, EnqueueOpsFacts, Zenon
    <3> QED  BY <2>8, <3>2 DEF Enqueued
  <2>12. SameBut(dc, c)  BY <2>8, <2>11 DEF SameBut
  <2>13. c.clock.ms >= dc.clock.ms /\ Now(d, c) >= Now(d, dc)  BY <2>8, <2>11
  <2>14. CASE ops = <<>>
    <3>1. c.pending = <<>>  BY <2>8, <2>11, <2>14
    <3>2. OpsOf(c.pending) = {} /\ Landing(c)  BY <3>1 DEF OpsOf, Landing
    <3>3. ToSet(ops) = {}  BY <2>14 DEF ToSet
    <3>4. OpsOf(c.pending) = AllMerged(dc)  BY <2>6, <3>2, <3>3
    <3>5. \A n \in DOMAIN c.pending : c.pending[n].batch > Now(d, dc)  BY <3>1
    <3> QED  BY <1>1, <2>11, <2>12, <2>13, <3>2, <3>4, <3>5 DEF CompactedTo
  <2>15. CASE ops # <<>>
    <3>1. c.pending = Append(<<>>, b)  BY <2>11, <2>15
    <3>2. DOMAIN c.pending = {1} /\ c.pending[1] = b  BY <2>11, <3>1
    <3>3. OpsOf(c.pending) = ToSet(ops) /\ Landing(c)  BY <2>11, <3>2 DEF OpsOf, Landing
    <3>4. OpsOf(c.pending) = AllMerged(dc)  BY <2>6, <3>3
    <3>5. \A n \in DOMAIN c.pending : c.pending[n].batch > Now(d, dc)  BY <2>8, <2>11, <3>2
    <3> QED  BY <1>1, <2>11, <2>12, <2>13, <3>3, <3>4, <3>5 DEF CompactedTo
  <2> QED  BY <2>14, <2>15
<1> QED  BY <1>2, <1>3

-----------------------------------------------------------------------------
(* Frames, tables, sockets *)

PartRows(L) == UNION {[J -> Rows(L)] : J \in SUBSET Ids}

RowsFrames(L) == [t : {"rows"}, seq : Nat, rows : PartRows(L)]
StateFrames(L) == [t : {"state"}, seq : Nat, full : BOOLEAN, rows : PartRows(L)]
Acks == [t : {"ack"}, batch : Nat, seq : Nat]
DownFrames(L) == RowsFrames(L) \cup StateFrames(L) \cup Acks

Pushes(L) == [t : {"push"}, batch : Nat, ops : Seq(Ops(L))]
Hellos == [t : {"hello"}, fresh : BOOLEAN, cursor : Nat]
UpFrames(L) == Pushes(L) \cup Hellos

Sockets(L) ==
  [open : BOOLEAN, lagged : BOOLEAN, up : Seq(UpFrames(L)), bcast : Seq(RowsFrames(L)),
   down : Seq(DownFrames(L))]

Tables(L) ==
  {table \in [rows : [Ids -> Rows(L)], seq : Nat] : \A i \in Ids : table.rows[i].seq <= table.seq}

InHand(L) == [to : Devices \cup {NoDevice}, batch : Nat, frame : RowsFrames(L)]

LEMMA PartParts ==
  ASSUME NEW L, NEW part \in PartRows(L)
  PROVE  DOMAIN part \subseteq Ids /\ \A i \in DOMAIN part : part[i] \in Rows(L)
<1>1. PICK J \in SUBSET Ids : part \in [J -> Rows(L)]  BY DEF PartRows
<1> QED  BY <1>1

LEMMA WithRowsFacts ==
  ASSUME NEW L, NEW rows \in [Ids -> Rows(L)], NEW part \in PartRows(L)
  PROVE  /\ WithRows(rows, part) \in [Ids -> Rows(L)]
         /\ \A i \in Ids : WithRows(rows, part)[i] = IF i \in DOMAIN part THEN part[i] ELSE rows[i]
BY PartParts DEF WithRows

LEMMA StateFrameFacts ==
  ASSUME NEW L, server \in Tables(L), NEW fresh \in BOOLEAN, NEW cursor \in Nat
  PROVE  /\ StateFrame(fresh, cursor) \in StateFrames(L)
         /\ StateFrame(fresh, cursor).seq = server.seq
         /\ \A i \in DOMAIN StateFrame(fresh, cursor).rows :
              i \in Ids /\ StateFrame(fresh, cursor).rows[i] = server.rows[i]
         /\ StateFrame(fresh, cursor).full = (fresh \/ cursor > server.seq)
         /\ \A i \in Ids : /\ server.rows[i].state # "missing"
                           /\ (fresh \/ cursor > server.seq) \/ server.rows[i].seq > cursor
                           => i \in DOMAIN StateFrame(fresh, cursor).rows
<1> DEFINE full == fresh \/ cursor > server.seq
           ids == {i \in Ids : /\ server.rows[i].state # "missing"
                               /\ full \/ server.rows[i].seq > cursor}
<1>1. PICK m : m = [i \in ids |-> server.rows[i]]  OBVIOUS
<1>2. PICK b \in BOOLEAN : b = full  OBVIOUS
<1>3. m \in PartRows(L)
  <2>1. \A i \in ids : server.rows[i] \in Rows(L)  BY DEF Tables
  <2>2. m \in [ids -> Rows(L)] /\ ids \in SUBSET Ids  BY <1>1, <2>1
  <2> QED  BY <2>2 DEF PartRows
<1>4. server.seq \in Nat  BY DEF Tables
<1>5. PICK f : f = StateFrame(fresh, cursor)  OBVIOUS
<1>6. f = [t |-> "state", seq |-> server.seq, full |-> b, rows |-> m]
  BY <1>1, <1>2, <1>5 DEF StateFrame
<1>7. f \in StateFrames(L)  BY <1>3, <1>4, <1>6 DEF StateFrames
<1>8. f.seq = server.seq /\ f.full = full /\ f.rows = m  BY <1>2, <1>6
<1>9. \A i \in DOMAIN m : i \in Ids /\ m[i] = server.rows[i]  BY <1>1
<1>10. \A i \in Ids : server.rows[i].state # "missing" /\ (full \/ server.rows[i].seq > cursor)
                        => i \in DOMAIN m
  BY <1>1
<1> QED  BY <1>5, <1>7, <1>8, <1>9, <1>10

LEMMA StampedRow ==
  ASSUME NEW L, NEW row \in Rows(L), NEW seq \in Nat
  PROVE  LET r == [row EXCEPT !.seq = seq]
         IN  /\ r \in Rows(L) /\ r.seq = seq /\ r.state = row.state /\ r.del = row.del
             /\ r.clock = row.clock /\ r.value = row.value
<1>1. PICK r : r = [row EXCEPT !.seq = seq]  OBVIOUS
<1>2. row \in Row  BY RowParts
<1>3. /\ r \in Row /\ r.seq = seq /\ r.state = row.state /\ r.del = row.del
      /\ r.clock = row.clock /\ r.value = row.value
  BY <1>1, <1>2 DEF Row
<1>4. Shaped(row) /\ Made(row, L)  BY DEF Rows
<1>5. Shaped(r) /\ Made(r, L)  BY <1>3, <1>4 DEF Shaped, Made
<1> QED  BY <1>1, <1>3, <1>5 DEF Rows

\* What a batch does to a row, short of the stamp.
After(ops, i) == ApplyOps(server.rows[i], OpsOn(ops, i))

LEMMA TouchedFacts ==
  ASSUME NEW L, server \in Tables(L), NEW ops \in Seq(Ops(L))
  PROVE  /\ Touched(ops) \in PartRows(L)
         /\ \A i \in Ids : After(ops, i) \in Rows(L)
         /\ DOMAIN Touched(ops) = {i \in Ids : After(ops, i) # server.rows[i]}
         /\ \A i \in DOMAIN Touched(ops) :
              /\ Touched(ops)[i].seq = server.seq + 1
              /\ Touched(ops)[i].state = After(ops, i).state
              /\ Touched(ops)[i].del = After(ops, i).del
              /\ Touched(ops)[i].clock = After(ops, i).clock
              /\ Touched(ops)[i].value = After(ops, i).value
<1>0. server.seq + 1 \in Nat  BY DEF Tables
<1>1. ASSUME NEW i \in Ids PROVE After(ops, i) \in Rows(L)
  <2>1. server.rows[i] \in Rows(L)  BY DEF Tables
  <2>2. OpsOn(ops, i) \in Seq(Ops(L))  BY OpsOnFacts
  <2> QED  BY <2>1, <2>2, ApplyOpsMakesARow DEF After
<1>2. PICK J : J = {i \in Ids : After(ops, i) # server.rows[i]}  OBVIOUS
<1>3. PICK m : m = Touched(ops)  OBVIOUS
<1>4. m = [i \in J |-> [After(ops, i) EXCEPT !.seq = server.seq + 1]]
  BY <1>2, <1>3 DEF Touched, After
<1>5. ASSUME NEW i \in J
      PROVE  /\ m[i] \in Rows(L) /\ m[i].seq = server.seq + 1 /\ m[i].state = After(ops, i).state
             /\ m[i].del = After(ops, i).del /\ m[i].clock = After(ops, i).clock
             /\ m[i].value = After(ops, i).value
  <2>1. PICK a, s : a = After(ops, i) /\ s = server.seq + 1  OBVIOUS
  <2>2. a \in Rows(L) /\ s \in Nat  BY <1>0, <1>1, <1>2, <2>1
  <2>3. m[i] = [a EXCEPT !.seq = s]  BY <1>4, <2>1
  <2> QED  BY <2>1, <2>2, <2>3, StampedRow
<1>6. DOMAIN m = J  BY <1>4
<1>7. m \in PartRows(L)
  <2>1. m \in [J -> Rows(L)] /\ J \in SUBSET Ids  BY <1>2, <1>4, <1>5
  <2> QED  BY <2>1 DEF PartRows
<1> QED  BY <1>1, <1>2, <1>3, <1>5, <1>6, <1>7

-----------------------------------------------------------------------------
(* Frames applied to a replica *)

SeedsOf(dc) == {SeedOp(i, dc.rows[i]) : i \in {j \in Ids : dc.rows[j].state # "missing"}}

LEMMA SeedsFacts ==
  ASSUME NEW L, L \subseteq Pairs, NEW d, NEW dc \in Docs(d, L), NEW ids \in SUBSET Ids
  PROVE  /\ Seeds(dc, ids) \in Seq(Ops(L))
         /\ ToSet(Seeds(dc, ids)) \subseteq SeedsOf(dc)
         /\ \A i \in ids : dc.rows[i].state # "missing" => SeedOp(i, dc.rows[i]) \in ToSet(Seeds(dc, ids))
<1>1. PICK held : held = {i \in ids : dc.rows[i].state # "missing"}  OBVIOUS
<1>2. IsFiniteSet(held) /\ held \subseteq Ids
  <2>1. held \subseteq Ids  BY <1>1
  <2> QED  BY <2>1, RegistryRowAssumption, FS_Subset
<1>3. PICK q : q = SetToSeq(held)  OBVIOUS
<1>4. PICK c \in Nat : c = Cardinality(held)  BY <1>2, SetToSeqFacts
<1>5. (\A n \in 1 .. c : q[n] \in held) /\ (\A i \in held : \E n \in 1 .. c : q[n] = i)
  BY <1>2, <1>3, <1>4, SetToSeqFacts
<1>6. ASSUME NEW i \in held PROVE SeedOp(i, dc.rows[i]) \in Ops(L)
  <2>1. i \in Ids /\ dc.rows[i] \in Rows(L) /\ dc.rows[i].state # "missing"  BY <1>1, <1>2, DocParts
  <2> QED  BY <2>1, SeedMakesAnOp
<1>7. PICK s : s = Seeds(dc, ids)  OBVIOUS
<1>8. s = [n \in 1 .. c |-> SeedOp(q[n], dc.rows[q[n]])]  BY <1>1, <1>3, <1>4, <1>7 DEF Seeds
<1>9. s \in Seq(Ops(L))
  <2>1. s \in [1 .. c -> Ops(L)]  BY <1>5, <1>6, <1>8
  <2> QED  BY <2>1, SeqDef
<1>10. DOMAIN s = 1 .. c  BY <1>8
<1>11. ToSet(s) = {s[n] : n \in 1 .. c}
  <2>1. Len(s) = c  BY <1>4, <1>9, <1>10
  <2> QED  BY <1>9, <2>1, ToSetOfSeq
<1>12. \A n \in 1 .. c : s[n] \in SeedsOf(dc)
  <2>1. \A n \in 1 .. c : q[n] \in Ids /\ dc.rows[q[n]].state # "missing"  BY <1>1, <1>2, <1>5
  <2> QED  BY <1>8, <2>1 DEF SeedsOf
<1>13. ASSUME NEW i \in held PROVE SeedOp(i, dc.rows[i]) \in ToSet(s)
  <2>1. PICK n \in 1 .. c : q[n] = i  BY <1>5
  <2>2. s[n] = SeedOp(i, dc.rows[i])  BY <1>8, <2>1
  <2> QED  BY <1>11, <2>2
<1> QED  BY <1>1, <1>7, <1>9, <1>11, <1>12, <1>13

\* A full table that is not older than the cursor replaces the rows.
Replaces(dc, f) == f.full /\ ~ (f.seq < dc.cursor)

NewRow(dc, f, i) ==
  IF i \in DOMAIN f.rows THEN f.rows[i] ELSE IF Replaces(dc, f) THEN Missing ELSE dc.rows[i]

StateApplied(L, d, dc, f, e) ==
  /\ e \in Docs(d, L)
  /\ e.cursor = f.seq /\ e.written = dc.written /\ e.epoch = dc.epoch
  /\ e.clock.ms >= dc.clock.ms /\ Now(d, e) >= Now(d, dc)
  /\ \A i \in Ids : e.rows[i] = NewRow(dc, f, i)
  /\ Len(e.pending) >= Len(dc.pending)
  /\ \A n \in DOMAIN e.pending : \/ n \in DOMAIN dc.pending /\ e.pending[n] = dc.pending[n]
                                 \/ /\ ~ e.pending[n].flight /\ e.pending[n].batch > Now(d, dc)
                                    /\ ToSet(e.pending[n].ops) \subseteq SeedsOf(dc)
  /\ \A n \in DOMAIN dc.pending : n \in DOMAIN e.pending /\ e.pending[n] = dc.pending[n]

LEMMA ApplyStateFacts ==
  ASSUME NEW L, L \subseteq Pairs, NEW d \in Devices, NEW dc \in Docs(d, L),
         NEW f \in StateFrames(L), NEW now \in Nat
  PROVE  StateApplied(L, d, dc, f, ApplyState(d, dc, f, now))
<1>0. f.seq \in Nat /\ f.full \in BOOLEAN /\ f.rows \in PartRows(L) /\ dc.cursor \in Nat
  BY DocParts DEF StateFrames
<1>1. PICK r : r = IF Replaces(dc, f) THEN WithRows(NewDoc.rows, f.rows) ELSE WithRows(dc.rows, f.rows)
  OBVIOUS
<1>2. r \in [Ids -> Rows(L)] /\ \A i \in Ids : r[i] = NewRow(dc, f, i)
  <2>1. dc.rows \in [Ids -> Rows(L)]  BY DocParts
  <2>2. NewDoc.rows \in [Ids -> Rows(L)] /\ \A i \in Ids : NewDoc.rows[i] = Missing
    BY MissingIsARow DEF NewDoc
  <2>3. CASE Replaces(dc, f)
    BY <1>0, <1>1, <2>2, <2>3, WithRowsFacts DEF NewRow
  <2>4. CASE ~ Replaces(dc, f)
    BY <1>0, <1>1, <2>1, <2>4, WithRowsFacts DEF NewRow
  <2> QED  BY <2>3, <2>4
<1>3. PICK base : base = [dc EXCEPT !.touched = TRUE, !.cursor = f.seq, !.rows = r]  OBVIOUS
<1>4. /\ base \in Docs(d, L) /\ base.cursor = f.seq /\ base.written = dc.written /\ base.epoch = dc.epoch
      /\ base.clock = dc.clock /\ base.pending = dc.pending /\ base.rows = r
      /\ Now(d, base) = Now(d, dc)
  <2>1. dc \in DocRecords(L) /\ Named(d, dc)  BY DocParts
  <2>2. /\ base \in DocRecords(L) /\ base.cursor = f.seq /\ base.written = dc.written /\ base.epoch = dc.epoch
        /\ base.clock = dc.clock /\ base.pending = dc.pending /\ base.rows = r
    BY <1>0, <1>2, <1>3, <2>1 DEF DocRecords
  <2>3. Now(d, base) = Now(d, dc)  BY <2>2 DEF Now
  <2> QED  BY <2>1, <2>2, <2>3 DEF Docs, Named
<1>5. PICK e : e = ApplyState(d, dc, f, now)  OBVIOUS
<1>6. \/ e = base
      \/ \E ids \in SUBSET Ids : e = EnqueueOps(d, base, Seeds(dc, ids), now)
  <2>1. dc \in DocRecords(L)  BY DocParts
  <2>2. PICK cur : cur = dc.cursor  OBVIOUS
  <2>3. CASE ~ f.full
    <3>1. ~ Replaces(dc, f)  BY <2>3 DEF Replaces
    <3> QED  BY <1>1, <1>3, <1>5, <2>1, <2>3, <3>1 DEF ApplyState, DocRecords
  <2>4. CASE f.full /\ f.seq < dc.cursor
    <3>1. ~ Replaces(dc, f)  BY <2>4 DEF Replaces
    <3>2. e = EnqueueOps(d, base, Seeds(dc, Ids), now)
      BY <1>1, <1>3, <1>5, <2>1, <2>4, <3>1 DEF ApplyState, DocRecords
    <3> QED  BY <3>2
  <2>5. CASE f.full /\ ~ (f.seq < dc.cursor)
    <3>1. Replaces(dc, f)  BY <2>5 DEF Replaces
    <3>2. e = EnqueueOps(d, base, Seeds(dc, Ids \ DOMAIN f.rows), now)
      BY <1>1, <1>3, <1>5, <2>1, <2>5, <3>1 DEF ApplyState, DocRecords
    <3> QED  BY <3>2
  <2> QED  BY <2>3, <2>4, <2>5
<1>7. /\ Now(d, dc) \in Nat /\ dc.clock.ms \in Nat
      /\ DOMAIN dc.pending = 1 .. Len(dc.pending) /\ Len(dc.pending) \in Nat
  <2>1. Now(d, dc) \in Nat  BY TickFacts
  <2> QED  BY <2>1, DocParts DEF Clocks
<1>8. CASE e = base
  BY <1>2, <1>4, <1>5, <1>7, <1>8 DEF StateApplied
<1>9. CASE e # base
  <2>1. PICK ids \in SUBSET Ids : e = EnqueueOps(d, base, Seeds(dc, ids), now)  BY <1>6, <1>9
  <2>2. PICK ops : ops = Seeds(dc, ids)  OBVIOUS
  <2>3. ops \in Seq(Ops(L)) /\ ToSet(ops) \subseteq SeedsOf(dc)  BY <2>2, SeedsFacts
  <2>4. PICK b : b = NewBatch(d, base, ops, now)  OBVIOUS
  <2>5. Enqueued(L, d, base, ops, e, b)  BY <1>4, <2>1, <2>2, <2>3, <2>4, EnqueueOpsFacts
  <2>6. ops # <<>>  BY <1>9, <2>5 DEF Enqueued
  <2>7. /\ e \in Docs(d, L) /\ e.rows = r /\ e.cursor = f.seq /\ e.written = dc.written /\ e.epoch = dc.epoch
        /\ e.clock.ms >= dc.clock.ms /\ Now(d, e) >= Now(d, dc)
        /\ e.pending = Append(dc.pending, b)
        /\ b \in Batches(L) /\ b.batch > Now(d, dc) /\ b.ops = ops /\ b.flight = FALSE
    BY <1>4, <2>5, <2>6 DEF Enqueued, SameBut
  <2>8. PICK p \in Seq(Batches(L)) : p = dc.pending  BY DocParts
  <2>9. PICK q : q = e.pending  OBVIOUS
  <2>10. /\ Len(q) = Len(p) + 1 /\ q[Len(p) + 1] = b
         /\ DOMAIN q = 1 .. Len(p) + 1 /\ DOMAIN p = 1 .. Len(p) /\ Len(p) \in Nat
         /\ \A n \in 1 .. Len(p) : q[n] = p[n]
    BY <2>7, <2>8, <2>9
  <2>11. ASSUME NEW n \in DOMAIN q
         PROVE  \/ n \in DOMAIN p /\ q[n] = p[n]
                \/ /\ ~ q[n].flight /\ q[n].batch > Now(d, dc)
                   /\ ToSet(q[n].ops) \subseteq SeedsOf(dc)
    <3>1. n \in 1 .. Len(p) \/ n = Len(p) + 1  BY <2>10
    <3> QED  BY <2>3, <2>7, <2>10, <3>1
  <2>12. Len(q) >= Len(p) /\ \A n \in DOMAIN p : n \in DOMAIN q /\ q[n] = p[n]  BY <2>10
  <2> QED  BY <1>2, <1>5, <2>7, <2>8, <2>9, <2>11, <2>12 DEF StateApplied
<1> QED  BY <1>8, <1>9

LEMMA ApplyRowsFacts ==
  ASSUME NEW L, NEW d \in Devices, NEW dc \in Docs(d, L), NEW f \in RowsFrames(L)
  PROVE  LET e == ApplyRows(dc, f)
         IN  /\ e \in Docs(d, L)
             /\ e.written = dc.written /\ e.epoch = dc.epoch
             /\ e.clock = dc.clock /\ e.pending = dc.pending /\ Now(d, e) = Now(d, dc)
             /\ e.cursor >= dc.cursor /\ e.cursor >= f.seq /\ e.cursor \in {dc.cursor, f.seq}
             /\ \A i \in Ids : e.rows[i] = IF i \in DOMAIN f.rows THEN f.rows[i] ELSE dc.rows[i]
<1>0. f.seq \in Nat /\ f.rows \in PartRows(L) /\ dc.cursor \in Nat
  BY DocParts DEF RowsFrames
<1>1. PICK r : r = WithRows(dc.rows, f.rows)  OBVIOUS
<1>2. r \in [Ids -> Rows(L)] /\ \A i \in Ids : r[i] = IF i \in DOMAIN f.rows THEN f.rows[i] ELSE dc.rows[i]
  BY <1>0, <1>1, DocParts, WithRowsFacts
<1>3. PICK c \in Nat : c = IF f.seq > dc.cursor THEN f.seq ELSE dc.cursor  BY <1>0
<1>4. PICK e : e = ApplyRows(dc, f)  OBVIOUS
<1>5. dc \in DocRecords(L) /\ Named(d, dc)  BY DocParts
<1>6. e = [dc EXCEPT !.touched = TRUE, !.rows = r, !.cursor = c]
  BY <1>1, <1>3, <1>4, <1>5 DEF ApplyRows, DocRecords
<1>7. /\ e \in DocRecords(L) /\ e.written = dc.written /\ e.epoch = dc.epoch
      /\ e.clock = dc.clock /\ e.pending = dc.pending /\ e.cursor = c /\ e.rows = r
  BY <1>2, <1>5, <1>6 DEF DocRecords
<1>8. Now(d, e) = Now(d, dc)  BY <1>7 DEF Now
<1>9. e \in Docs(d, L)  BY <1>5, <1>7, <1>8 DEF Docs, Named
<1>10. c >= dc.cursor /\ c >= f.seq /\ c \in {dc.cursor, f.seq}  BY <1>0, <1>3
<1> QED  BY <1>2, <1>4, <1>7, <1>8, <1>9, <1>10

\* The batches with another name stay, and no other.
AckApplied(L, d, dc, f, e) ==
  /\ e \in Docs(d, L)
  /\ e.rows = dc.rows /\ e.written = dc.written /\ e.epoch = dc.epoch
  /\ e.clock = dc.clock /\ Now(d, e) = Now(d, dc)
  /\ e.cursor >= dc.cursor /\ e.cursor >= f.seq /\ e.cursor \in {dc.cursor, f.seq}
  /\ \A k \in DOMAIN e.pending : \E n \in DOMAIN dc.pending : e.pending[k] = dc.pending[n]
  /\ \A n \in DOMAIN dc.pending : dc.pending[n].batch # f.batch =>
       \E k \in DOMAIN e.pending : e.pending[k] = dc.pending[n]

LEMMA AckBatchFacts ==
  ASSUME NEW L, NEW d \in Devices, NEW dc \in Docs(d, L), NEW f \in Acks
  PROVE  AckApplied(L, d, dc, f, AckBatch(dc, f))
<1>0. f.seq \in Nat /\ dc.cursor \in Nat  BY DocParts DEF Acks
<1>1. PICK p \in Seq(Batches(L)) : p = dc.pending  BY DocParts
<1>2. PICK I : I = {n \in DOMAIN p : p[n].batch # f.batch}  OBVIOUS
<1>3. PICK q : q = KeepAt(p, I)  OBVIOUS
<1>4. PICK g : IsPart(Batches(L), p, I, Len(p), q, g)  BY <1>3, KeepAtFacts
<1>5. /\ q \in Seq(Batches(L)) /\ DOMAIN q = 1 .. Len(q) /\ Len(q) \in Nat /\ DOMAIN p = 1 .. Len(p)
      /\ \A k \in DOMAIN q : g[k] \in DOMAIN p /\ g[k] \in I /\ q[k] = p[g[k]]
      /\ \A j, k \in DOMAIN q : j < k => g[j] < g[k]
      /\ \A i \in DOMAIN p : i \in I => \E k \in DOMAIN q : g[k] = i
  <2>1. q \in Seq(Batches(L))  BY <1>4 DEF IsPart
  <2>2. DOMAIN q = 1 .. Len(q) /\ Len(q) \in Nat  BY <2>1
  <2>3. DOMAIN p = 1 .. Len(p)  OBVIOUS
  <2> QED  BY <1>4, <2>1, <2>2, <2>3 DEF IsPart
<1>6. PICK c \in Nat : c = IF f.seq > dc.cursor THEN f.seq ELSE dc.cursor  BY <1>0
<1>7. PICK e : e = AckBatch(dc, f)  OBVIOUS
<1>8. dc \in DocRecords(L) /\ Named(d, dc)  BY DocParts
<1>9. PICK t \in BOOLEAN : t = (dc.touched \/ \E n \in DOMAIN dc.pending : dc.pending[n].batch = f.batch)
  OBVIOUS
<1>10. e = [dc EXCEPT !.pending = q, !.touched = t, !.cursor = c]
  BY <1>1, <1>2, <1>3, <1>6, <1>7, <1>8, <1>9 DEF AckBatch, DocRecords
<1>11. /\ e \in DocRecords(L) /\ e.written = dc.written /\ e.epoch = dc.epoch
       /\ e.clock = dc.clock /\ e.pending = q /\ e.cursor = c /\ e.rows = dc.rows
  BY <1>5, <1>8, <1>10 DEF DocRecords
<1>12. Now(d, e) = Now(d, dc)  BY <1>11 DEF Now
<1>13. Named(d, e)
  <2>1. /\ \A n \in DOMAIN p : p[n].batch <= Now(d, dc)
        /\ \A m, n \in DOMAIN p : p[m].batch = p[n].batch => m = n
    BY <1>1, <1>8 DEF Named
  <2>2. \A k \in DOMAIN q : q[k].batch <= Now(d, e)  BY <1>5, <1>12, <2>1
  <2>3. ASSUME NEW j \in DOMAIN q, NEW k \in DOMAIN q, q[j].batch = q[k].batch PROVE j = k
    <3>1. g[j] = g[k] /\ g[j] \in Nat /\ g[k] \in Nat  BY <1>5, <2>1, <2>3
    <3>2. j \in Nat /\ k \in Nat  BY <1>5
    <3>3. ~ (j < k) /\ ~ (k < j)  BY <1>5, <3>1
    <3> QED  BY <3>2, <3>3
  <2> QED  BY <1>11, <2>2, <2>3 DEF Named
<1>14. e \in Docs(d, L)  BY <1>11, <1>13 DEF Docs
<1>15. c >= dc.cursor /\ c >= f.seq /\ c \in {dc.cursor, f.seq}  BY <1>0, <1>6
<1>16. \A k \in DOMAIN q : \E n \in DOMAIN p : q[k] = p[n]  BY <1>5
<1>17. \A n \in DOMAIN p : p[n].batch # f.batch => \E k \in DOMAIN q : q[k] = p[n]  BY <1>2, <1>5
<1> QED  BY <1>1, <1>7, <1>11, <1>12, <1>14, <1>15, <1>16, <1>17 DEF AckApplied

-----------------------------------------------------------------------------
(* What the room's steps do *)

RoomShapes(L) ==
  /\ server \in Tables(L) /\ disk \in Tables(L) /\ disk.seq <= server.seq
  /\ sock \in [Devices -> Sockets(L)]
  /\ stale \in [Devices -> Seq(Pushes(L))]
  /\ publishing \subseteq InHand(L)

\* One socket changes.
Resock(L, d, s) == s \in Sockets(L) /\ sock' = [sock EXCEPT ![d] = s]

LEMMA ResockFacts ==
  ASSUME NEW L, sock \in [Devices -> Sockets(L)], NEW d \in Devices, NEW s, Resock(L, d, s)
  PROVE  /\ sock' \in [Devices -> Sockets(L)] /\ sock'[d] = s
         /\ \A e \in Devices : e # d => sock'[e] = sock[e]
BY DEF Resock

LEMMA SocketParts ==
  ASSUME NEW L, sock \in [Devices -> Sockets(L)], NEW d \in Devices
  PROVE  /\ sock[d] \in Sockets(L) /\ sock[d].open \in BOOLEAN /\ sock[d].lagged \in BOOLEAN
         /\ sock[d].up \in Seq(UpFrames(L)) /\ sock[d].bcast \in Seq(RowsFrames(L))
         /\ sock[d].down \in Seq(DownFrames(L))
<1>1. sock[d] \in Sockets(L)  OBVIOUS
<1> QED  BY <1>1 DEF Sockets

LEMMA NoSocketShape ==
  ASSUME NEW L
  PROVE  NoSocket \in Sockets(L)
<1>1. /\ <<>> \in Seq(UpFrames(L)) /\ <<>> \in Seq(RowsFrames(L)) /\ <<>> \in Seq(DownFrames(L))
  OBVIOUS
<1> QED  BY <1>1 DEF NoSocket, Sockets

LEMMA SendBroadcastEffect ==
  ASSUME NEW L, sock \in [Devices -> Sockets(L)], NEW d \in Devices, SendBroadcast(d)
  PROVE  \E s : /\ Resock(L, d, s)
                /\ s.open = sock[d].open /\ s.lagged = sock[d].lagged /\ s.up = sock[d].up
                /\ s.bcast = Tail(sock[d].bcast)
                /\ s.down = Append(sock[d].down, Head(sock[d].bcast))
<1>1. PICK o : o = sock[d]  OBVIOUS
<1>2. /\ o \in Sockets(L) /\ o.bcast \in Seq(RowsFrames(L)) /\ o.down \in Seq(DownFrames(L))
      /\ o.bcast # <<>>
  BY <1>1, SocketParts DEF SendBroadcast
<1>3. PICK b, x : b = Tail(o.bcast) /\ x = Append(o.down, Head(o.bcast))  OBVIOUS
<1>4. b \in Seq(RowsFrames(L)) /\ x \in Seq(DownFrames(L))
  <2>1. Head(o.bcast) \in RowsFrames(L) /\ b \in Seq(RowsFrames(L))  BY <1>2, <1>3
  <2>2. Head(o.bcast) \in DownFrames(L)  BY <2>1 DEF DownFrames
  <2> QED  BY <1>2, <1>3, <2>1, <2>2
<1>5. PICK s : s = [o EXCEPT !.bcast = b, !.down = x]  OBVIOUS
<1>6. /\ s \in Sockets(L) /\ s.open = o.open /\ s.lagged = o.lagged /\ s.up = o.up
      /\ s.bcast = b /\ s.down = x
  BY <1>2, <1>4, <1>5 DEF Sockets
<1>7. sock' = [sock EXCEPT ![d] = s]
  BY <1>1, <1>2, <1>3, <1>5 DEF SendBroadcast, Sockets
<1> QED  BY <1>1, <1>3, <1>6, <1>7 DEF Resock

LEMMA SendLaggedStateEffect ==
  ASSUME NEW L, server \in Tables(L), sock \in [Devices -> Sockets(L)], NEW d \in Devices,
         SendLaggedState(d)
  PROVE  \E s : /\ Resock(L, d, s)
                /\ s.open = sock[d].open /\ s.lagged = FALSE /\ s.up = sock[d].up
                /\ s.bcast = sock[d].bcast
                /\ s.down = Append(sock[d].down, StateFrame(TRUE, 0))
<1>1. PICK o : o = sock[d]  OBVIOUS
<1>2. o \in Sockets(L) /\ o.down \in Seq(DownFrames(L))  BY <1>1, SocketParts
<1>3. PICK f : f = StateFrame(TRUE, 0)  OBVIOUS
<1>4. f \in DownFrames(L)
  <2>1. PICK yes \in BOOLEAN : yes = TRUE  OBVIOUS
  <2>2. StateFrame(yes, 0) \in StateFrames(L)  BY StateFrameFacts
  <2> QED  BY <1>3, <2>1, <2>2 DEF DownFrames
<1>5. PICK x : x = Append(o.down, f)  OBVIOUS
<1>6. x \in Seq(DownFrames(L))  BY <1>2, <1>4, <1>5
<1>7. PICK s : s = [o EXCEPT !.lagged = FALSE, !.down = x]  OBVIOUS
<1>8. /\ s \in Sockets(L) /\ s.open = o.open /\ s.lagged = FALSE /\ s.up = o.up
      /\ s.bcast = o.bcast /\ s.down = x
  BY <1>2, <1>6, <1>7 DEF Sockets
<1>9. sock' = [sock EXCEPT ![d] = s]
  BY <1>1, <1>2, <1>3, <1>5, <1>7 DEF SendLaggedState, Sockets
<1> QED  BY <1>1, <1>3, <1>5, <1>8, <1>9 DEF Resock

LEMMA UpHead ==
  ASSUME NEW L, sock \in [Devices -> Sockets(L)], NEW d \in Devices, NEW t, NextFrame(d, t)
  PROVE  /\ sock[d].up # <<>> /\ Tail(sock[d].up) \in Seq(UpFrames(L))
         /\ sock[d].open = TRUE /\ sock[d].lagged = FALSE /\ sock[d].bcast = <<>> /\ ~ Busy(d)
         /\ t = "hello" => Head(sock[d].up) \in Hellos
         /\ t = "push" => Head(sock[d].up) \in Pushes(L)
         /\ Head(sock[d].up) \in ToSet(sock[d].up)
<1>1. /\ sock[d].up # <<>> /\ sock[d].up \in Seq(UpFrames(L)) /\ Head(sock[d].up).t = t
      /\ sock[d].open = TRUE /\ sock[d].lagged = FALSE /\ sock[d].bcast = <<>> /\ ~ Busy(d)
  BY SocketParts DEF NextFrame
<1>2. PICK u \in Seq(UpFrames(L)) : u = sock[d].up  BY <1>1
<1>3. PICK h : h = Head(u)  OBVIOUS
<1>4. h \in UpFrames(L) /\ Tail(u) \in Seq(UpFrames(L)) /\ h.t = t /\ h \in ToSet(u)
  BY <1>1, <1>2, <1>3, ToSetOfTail
<1>5. (\A x \in Pushes(L) : x.t = "push") /\ (\A x \in Hellos : x.t = "hello")
  BY DEF Pushes, Hellos
<1>6. (t = "hello" => h \in Hellos) /\ (t = "push" => h \in Pushes(L))
  BY <1>4, <1>5 DEF UpFrames
<1> QED  BY <1>1, <1>2, <1>3, <1>4, <1>6

LEMMA HandleHelloEffect ==
  ASSUME NEW L, server \in Tables(L), sock \in [Devices -> Sockets(L)], NEW d \in Devices,
         HandleHello(d)
  PROVE  \E s : \E h \in Hellos :
                /\ Resock(L, d, s) /\ h \in ToSet(sock[d].up)
                /\ s.open = sock[d].open /\ s.lagged = sock[d].lagged /\ s.up = Tail(sock[d].up)
                /\ s.bcast = sock[d].bcast
                /\ s.down = Append(sock[d].down, StateFrame(h.fresh, h.cursor))
<1>1. PICK o : o = sock[d]  OBVIOUS
<1>2. o \in Sockets(L) /\ o.down \in Seq(DownFrames(L))  BY <1>1, SocketParts
<1>3. PICK h : h = Head(o.up)  OBVIOUS
<1>4. NextFrame(d, "hello")  BY DEF HandleHello
<1>5. h \in Hellos /\ h \in ToSet(o.up) /\ Tail(o.up) \in Seq(UpFrames(L))  BY <1>1, <1>3, <1>4, UpHead
<1>6. h.fresh \in BOOLEAN /\ h.cursor \in Nat  BY <1>5 DEF Hellos
<1>7. PICK f : f = StateFrame(h.fresh, h.cursor)  OBVIOUS
<1>8. f \in DownFrames(L)
  <2>1. f \in StateFrames(L)  BY <1>6, <1>7, StateFrameFacts
  <2> QED  BY <2>1 DEF DownFrames
<1>9. PICK x, u : x = Append(o.down, f) /\ u = Tail(o.up)  OBVIOUS
<1>10. x \in Seq(DownFrames(L)) /\ u \in Seq(UpFrames(L))  BY <1>2, <1>5, <1>8, <1>9
<1>11. PICK s : s = [o EXCEPT !.up = u, !.down = x]  OBVIOUS
<1>12. /\ s \in Sockets(L) /\ s.open = o.open /\ s.lagged = o.lagged /\ s.up = u
       /\ s.bcast = o.bcast /\ s.down = x
  BY <1>2, <1>10, <1>11 DEF Sockets
<1>13. sock' = [sock EXCEPT ![d] = s]
  BY <1>1, <1>2, <1>3, <1>7, <1>9, <1>11 DEF HandleHello, Sockets
<1> QED  BY <1>1, <1>5, <1>7, <1>9, <1>12, <1>13 DEF Resock

LEMMA LoseStaleEffect ==
  ASSUME NEW L, stale \in [Devices -> Seq(Pushes(L))], NEW d \in Devices, LoseStale(d)
  PROVE  /\ stale' \in [Devices -> Seq(Pushes(L))]
         /\ \A e \in Devices : ToSet(stale'[e]) \subseteq ToSet(stale[e])
<1>1. stale' = [stale EXCEPT ![d] = <<>>]  BY DEF LoseStale
<1>2. <<>> \in Seq(Pushes(L)) /\ ToSet(<<>>) = {}  BY DEF ToSet
<1> QED  BY <1>1, <1>2

\* A batch merged into the table: the touched rows are replaced.
Merged(L, ops) ==
  /\ server' \in Tables(L) /\ disk' \in Tables(L) /\ disk'.seq <= server'.seq
  /\ server'.seq = server.seq + 1
  /\ \A i \in Ids : server'.rows[i] = IF i \in DOMAIN Touched(ops) THEN Touched(ops)[i]
                                      ELSE server.rows[i]

LEMMA WithBatchFacts ==
  ASSUME NEW L, server \in Tables(L), NEW table \in Tables(L), table.seq <= server.seq,
         NEW ops \in Seq(Ops(L))
  PROVE  /\ WithBatch(table, Touched(ops)) \in Tables(L)
         /\ WithBatch(table, Touched(ops)).seq = server.seq + 1
         /\ \A i \in Ids : WithBatch(table, Touched(ops)).rows[i] =
                             IF i \in DOMAIN Touched(ops) THEN Touched(ops)[i] ELSE table.rows[i]
<1>1. PICK m \in PartRows(L) : m = Touched(ops)  BY TouchedFacts
<1>2. \A i \in DOMAIN m : m[i].seq = server.seq + 1  BY <1>1, TouchedFacts
<1>3. PICK r : r = WithRows(table.rows, m)  OBVIOUS
<1>4. table.rows \in [Ids -> Rows(L)] /\ table.seq \in Nat /\ server.seq \in Nat
      /\ \A i \in Ids : table.rows[i].seq <= table.seq /\ table.rows[i].seq \in Nat
  <2>1. table.rows \in [Ids -> Rows(L)] /\ table.seq \in Nat /\ server.seq \in Nat
        /\ \A i \in Ids : table.rows[i].seq <= table.seq
    BY DEF Tables
  <2> QED  BY <2>1, RowParts
<1>5. r \in [Ids -> Rows(L)] /\ \A i \in Ids : r[i] = IF i \in DOMAIN m THEN m[i] ELSE table.rows[i]
  <2>1. PICK rows \in [Ids -> Rows(L)] : rows = table.rows  BY <1>4
  <2>2. r = WithRows(rows, m)  BY <1>3, <2>1
  <2>3. r \in [Ids -> Rows(L)] /\ \A i \in Ids : r[i] = IF i \in DOMAIN m THEN m[i] ELSE rows[i]
    BY <2>2, WithRowsFacts
  <2> QED  BY <2>1, <2>3
<1>6. PICK w : w = WithBatch(table, m)  OBVIOUS
<1>7. w = [rows |-> r, seq |-> server.seq + 1]  BY <1>3, <1>6 DEF WithBatch
<1>8. \A i \in Ids : w.rows[i].seq <= w.seq
  <2>1. ASSUME NEW i \in Ids PROVE r[i].seq <= server.seq + 1
    BY <1>2, <1>4, <1>5
  <2> QED  BY <1>7, <2>1
<1>9. w \in Tables(L)  BY <1>4, <1>5, <1>7, <1>8 DEF Tables
<1> QED  BY <1>1, <1>5, <1>6, <1>7, <1>9

LEMMA MergeFacts ==
  ASSUME NEW L, server \in Tables(L), disk \in Tables(L), disk.seq <= server.seq,
         NEW ops \in Seq(Ops(L)), NEW stored, Merge(Touched(ops), stored),
         DOMAIN Touched(ops) # {}
  PROVE  Merged(L, ops)
<1>0. server.seq \in Nat /\ disk.seq \in Nat  BY DEF Tables
<1>1. PICK m : m = Touched(ops)  OBVIOUS
<1>2. server' = WithBatch(server, m) /\ disk' = IF stored THEN WithBatch(disk, m) ELSE disk
  BY <1>1 DEF Merge
<1>3. /\ WithBatch(server, m) \in Tables(L) /\ WithBatch(server, m).seq = server.seq + 1
      /\ \A i \in Ids : WithBatch(server, m).rows[i] = IF i \in DOMAIN m THEN m[i] ELSE server.rows[i]
  BY <1>0, <1>1, WithBatchFacts
<1>4. WithBatch(disk, m) \in Tables(L) /\ WithBatch(disk, m).seq = server.seq + 1
  BY <1>1, WithBatchFacts
<1>5. CASE stored  BY <1>0, <1>1, <1>2, <1>3, <1>4, <1>5 DEF Merged
<1>6. CASE ~ stored  BY <1>0, <1>1, <1>2, <1>3, <1>6 DEF Merged
<1> QED  BY <1>5, <1>6

\* What the loop does with the next push of a client.
LEMMA HandlePushEffect ==
  ASSUME NEW L, RoomShapes(L), NEW d \in Devices, NEW stored, HandlePush(d, stored)
  PROVE  \E push \in Pushes(L) : \E s :
           /\ push \in ToSet(sock[d].up) /\ ~ Busy(d) /\ stale' = stale
           /\ Resock(L, d, s) /\ s.open = sock[d].open /\ s.lagged = sock[d].lagged
           /\ s.bcast = sock[d].bcast /\ s.up = Tail(sock[d].up)
           /\ \/ /\ DOMAIN Touched(push.ops) = {}
                 /\ server' = server /\ disk' = disk /\ publishing' = publishing
                 /\ s.down = Append(sock[d].down, Ack(push.batch, server.seq))
              \/ /\ DOMAIN Touched(push.ops) # {}
                 /\ Merged(L, push.ops)
                 /\ s.down = sock[d].down
                 /\ publishing' = publishing \cup
                      {[to |-> d, batch |-> push.batch,
                        frame |-> RowsFrame(server.seq + 1, Touched(push.ops))]}
<1>0. /\ server \in Tables(L) /\ disk \in Tables(L) /\ disk.seq <= server.seq
      /\ sock \in [Devices -> Sockets(L)] /\ server.seq \in Nat
  BY DEF RoomShapes, Tables
<1>1. PICK o : o = sock[d]  OBVIOUS
<1>2. o \in Sockets(L) /\ o.down \in Seq(DownFrames(L))  BY <1>0, <1>1, SocketParts
<1>3. PICK push : push = Head(o.up)  OBVIOUS
<1>4. NextFrame(d, "push")  BY DEF HandlePush
<1>5. push \in Pushes(L) /\ push \in ToSet(o.up) /\ Tail(o.up) \in Seq(UpFrames(L)) /\ ~ Busy(d)
  BY <1>0, <1>1, <1>3, <1>4, UpHead
<1>6. push.batch \in Nat /\ push.ops \in Seq(Ops(L))  BY <1>5 DEF Pushes
<1>7. PICK u : u = Tail(o.up)  OBVIOUS
<1>8. u \in Seq(UpFrames(L))  BY <1>5, <1>7
<1>9. stale' = stale  BY DEF HandlePush
<1>10. CASE DOMAIN Touched(push.ops) = {}
  <2>1. PICK a : a = Ack(push.batch, server.seq)  OBVIOUS
  <2>2. a \in DownFrames(L)  BY <1>0, <1>6, <2>1 DEF Ack, Acks, DownFrames
  <2>3. PICK x : x = Append(o.down, a)  OBVIOUS
  <2>4. x \in Seq(DownFrames(L))  BY <1>2, <2>2, <2>3
  <2>5. PICK s : s = [o EXCEPT !.up = u, !.down = x]  OBVIOUS
  <2>6. /\ s \in Sockets(L) /\ s.open = o.open /\ s.lagged = o.lagged /\ s.up = u
        /\ s.bcast = o.bcast /\ s.down = x
    BY <1>2, <1>8, <2>4, <2>5 DEF Sockets
  <2>7. sock' = [sock EXCEPT ![d] = s]
    BY <1>0, <1>1, <1>2, <1>3, <1>7, <1>10, <2>1, <2>3, <2>5 DEF HandlePush, Sockets
  <2>8. server' = server /\ disk' = disk /\ publishing' = publishing
    BY <1>1, <1>3, <1>10 DEF HandlePush, Merge
  <2> QED  BY <1>1, <1>5, <1>7, <1>9, <1>10, <2>1, <2>3, <2>6, <2>7, <2>8 DEF Resock
<1>11. CASE DOMAIN Touched(push.ops) # {}
  <2>1. PICK s : s = [o EXCEPT !.up = u]  OBVIOUS
  <2>2. /\ s \in Sockets(L) /\ s.open = o.open /\ s.lagged = o.lagged /\ s.up = u
        /\ s.bcast = o.bcast /\ s.down = o.down
    BY <1>2, <1>8, <2>1 DEF Sockets
  <2>3. sock' = [sock EXCEPT ![d] = s]
    BY <1>0, <1>1, <1>2, <1>3, <1>7, <1>11, <2>1 DEF HandlePush, Sockets
  <2>4. Merge(Touched(push.ops), stored)
        /\ publishing' = publishing \cup
             {[to |-> d, batch |-> push.batch, frame |-> RowsFrame(server.seq + 1, Touched(push.ops))]}
    BY <1>1, <1>3, <1>11 DEF HandlePush
  <2>5. Merged(L, push.ops)  BY <1>0, <1>6, <1>11, <2>4, MergeFacts
  <2> QED  BY <1>1, <1>5, <1>7, <1>9, <1>11, <2>2, <2>3, <2>4, <2>5 DEF Resock
<1> QED  BY <1>10, <1>11

LEMMA HandleStalePushEffect ==
  ASSUME NEW L, RoomShapes(L), NEW d \in Devices, NEW stored, HandleStalePush(d, stored)
  PROVE  /\ sock' = sock
         /\ stale' \in [Devices -> Seq(Pushes(L))]
         /\ \A e \in Devices : ToSet(stale'[e]) \subseteq ToSet(stale[e])
         /\ \E push \in Pushes(L) :
              /\ push \in ToSet(stale[d])
              /\ \/ server' = server /\ disk' = disk /\ publishing' = publishing
                 \/ /\ DOMAIN Touched(push.ops) # {}
                    /\ Merged(L, push.ops)
                    /\ publishing' = publishing \cup
                         {[to |-> NoDevice, batch |-> push.batch,
                           frame |-> RowsFrame(server.seq + 1, Touched(push.ops))]}
<1>0. /\ server \in Tables(L) /\ disk \in Tables(L) /\ disk.seq <= server.seq
      /\ stale \in [Devices -> Seq(Pushes(L))]
  BY DEF RoomShapes
<1>1. PICK u \in Seq(Pushes(L)) : u = stale[d]  BY <1>0
<1>2. u # <<>>  BY <1>1 DEF HandleStalePush
<1>3. PICK push : push = Head(u)  OBVIOUS
<1>4. PICK v : v = Tail(u)  OBVIOUS
<1>5. push \in Pushes(L) /\ push \in ToSet(u) /\ v \in Seq(Pushes(L)) /\ ToSet(v) \subseteq ToSet(u)
  BY <1>2, <1>3, <1>4, ToSetOfTail
<1>6. push.ops \in Seq(Ops(L))  BY <1>5 DEF Pushes
<1>7. sock' = sock /\ stale' = [stale EXCEPT ![d] = v]
  BY <1>1, <1>4 DEF HandleStalePush
<1>8. CASE DOMAIN Touched(push.ops) = {}
  <2>1. server' = server /\ disk' = disk /\ publishing' = publishing
    BY <1>1, <1>3, <1>8 DEF HandleStalePush, Merge
  <2> QED  BY <1>0, <1>1, <1>5, <1>7, <2>1
<1>9. CASE DOMAIN Touched(push.ops) # {}
  <2>1. Merge(Touched(push.ops), stored)
        /\ publishing' = publishing \cup
             {[to |-> NoDevice, batch |-> push.batch,
               frame |-> RowsFrame(server.seq + 1, Touched(push.ops))]}
    BY <1>1, <1>3, <1>9 DEF HandleStalePush
  <2>2. Merged(L, push.ops)  BY <1>0, <1>6, <1>9, <2>1, MergeFacts
  <2> QED  BY <1>0, <1>1, <1>5, <1>7, <1>9, <2>1, <2>2
<1> QED  BY <1>8, <1>9

\* A broadcast frame in the channel of a socket.
Queued(L, s, frame, q) ==
  /\ q \in Sockets(L) /\ q.open = s.open /\ q.up = s.up /\ q.down = s.down
  /\ Len(q.bcast) <= BroadcastDepth
  /\ ~ s.open => q = s
  /\ s.open => \/ q.bcast = Append(s.bcast, frame) /\ q.lagged = s.lagged
               \/ s.bcast # <<>> /\ q.bcast = Append(Tail(s.bcast), frame) /\ q.lagged = TRUE

LEMMA QueueFacts ==
  ASSUME NEW L, NEW s \in Sockets(L), Len(s.bcast) <= BroadcastDepth, NEW frame \in RowsFrames(L)
  PROVE  Queued(L, s, frame, Queue(s, frame))
<1>0. BroadcastDepth \in Nat /\ BroadcastDepth # 0  BY RegistryRoomAssumption
<1>1. PICK b \in Seq(RowsFrames(L)) : b = s.bcast  BY DEF Sockets
<1>2. PICK q : q = Queue(s, frame)  OBVIOUS
<1>3. CASE ~ s.open
  <2>1. q = s  BY <1>2, <1>3 DEF Queue
  <2> QED  BY <1>2, <1>3, <2>1 DEF Queued
<1>4. CASE s.open /\ Len(b) < BroadcastDepth
  <2>1. PICK c : c = Append(b, frame)  OBVIOUS
  <2>2. c \in Seq(RowsFrames(L)) /\ Len(c) <= BroadcastDepth  BY <1>0, <1>4, <2>1
  <2>3. q = [s EXCEPT !.bcast = c]  BY <1>1, <1>2, <1>4, <2>1 DEF Queue, Sockets
  <2>4. /\ q \in Sockets(L) /\ q.open = s.open /\ q.up = s.up /\ q.down = s.down
        /\ q.bcast = c /\ q.lagged = s.lagged
    BY <2>2, <2>3 DEF Sockets
  <2> QED  BY <1>1, <1>2, <1>4, <2>1, <2>2, <2>4 DEF Queued
<1>5. CASE s.open /\ ~ (Len(b) < BroadcastDepth)
  <2>0. b # <<>> /\ Len(b) = BroadcastDepth  BY <1>0, <1>1, <1>5
  <2>1. PICK v : v = Tail(b)  OBVIOUS
  <2>2. v \in Seq(RowsFrames(L)) /\ Len(v) = Len(b) - 1  BY <2>0, <2>1, ToSetOfTail
  <2>3. PICK c : c = Append(v, frame)  OBVIOUS
  <2>4. c \in Seq(RowsFrames(L)) /\ Len(c) <= BroadcastDepth  BY <1>0, <2>0, <2>2, <2>3
  <2>5. q = [s EXCEPT !.bcast = c, !.lagged = TRUE]
    BY <1>1, <1>2, <1>5, <2>1, <2>3 DEF Queue, Sockets
  <2>6. /\ q \in Sockets(L) /\ q.open = s.open /\ q.up = s.up /\ q.down = s.down
        /\ q.bcast = c /\ q.lagged = TRUE
    BY <2>4, <2>5 DEF Sockets
  <2> QED  BY <1>1, <1>2, <1>5, <2>0, <2>1, <2>3, <2>4, <2>6 DEF Queued
<1> QED  BY <1>3, <1>4, <1>5

\* The broadcast of a batch on one socket, and the answer to its sender.
Broadcasted(L, p, e) ==
  \E q : /\ Queued(L, sock[e], p.frame, q)
         /\ sock'[e] \in Sockets(L)
         /\ sock'[e].open = q.open /\ sock'[e].up = q.up /\ sock'[e].bcast = q.bcast
         /\ sock'[e].lagged = q.lagged
         /\ sock'[e].down = IF e = p.to THEN Append(q.down, Ack(p.batch, p.frame.seq)) ELSE q.down

LEMMA FinishPushEffect ==
  ASSUME NEW L, RoomShapes(L), \A d \in Devices : Len(sock[d].bcast) <= BroadcastDepth,
         NEW p \in publishing, FinishPush(p)
  PROVE  /\ UNCHANGED <<server, disk, stale>> /\ publishing' = publishing \ {p}
         /\ sock' \in [Devices -> Sockets(L)]
         /\ \A e \in Devices : Broadcasted(L, p, e)
<1>0. sock \in [Devices -> Sockets(L)] /\ p \in InHand(L)  BY DEF RoomShapes
<1>1. p.frame \in RowsFrames(L) /\ p.batch \in Nat  BY <1>0 DEF InHand
<1>2. p.frame.seq \in Nat  BY <1>1 DEF RowsFrames
<1>3. sock' = [d \in Devices |->
                LET s == Queue(sock[d], p.frame)
                IN  IF d = p.to THEN [s EXCEPT !.down = Append(@, Ack(p.batch, p.frame.seq))] ELSE s]
  BY DEF FinishPush
<1>4. ASSUME NEW e \in Devices PROVE Broadcasted(L, p, e)
  <2>1. PICK q : q = Queue(sock[e], p.frame)  OBVIOUS
  <2>2. Queued(L, sock[e], p.frame, q)
    <3>1. PICK s \in Sockets(L) : s = sock[e]  BY <1>0
    <3>2. Len(s.bcast) <= BroadcastDepth  BY <3>1
    <3>3. Queued(L, s, p.frame, Queue(s, p.frame))  BY <1>1, <3>2, QueueFacts
    <3> QED  BY <2>1, <3>1, <3>3
  <2>3. q \in Sockets(L) /\ q.down \in Seq(DownFrames(L))  BY <2>2 DEF Queued, Sockets
  <2>4. PICK a : a = Ack(p.batch, p.frame.seq)  OBVIOUS
  <2>5. a \in DownFrames(L)  BY <1>1, <1>2, <2>4 DEF Ack, Acks, DownFrames
  <2>6. PICK x : x = Append(q.down, a)  OBVIOUS
  <2>7. x \in Seq(DownFrames(L))  BY <2>3, <2>5, <2>6
  <2>8. PICK r : r = [q EXCEPT !.down = x]  OBVIOUS
  <2>9. /\ r \in Sockets(L) /\ r.open = q.open /\ r.up = q.up /\ r.bcast = q.bcast
        /\ r.lagged = q.lagged /\ r.down = x
    BY <2>3, <2>7, <2>8 DEF Sockets
  <2>10. sock'[e] = IF e = p.to THEN r ELSE q
    BY <1>3, <2>1, <2>3, <2>4, <2>6, <2>8 DEF Sockets
  <2>11. CASE e = p.to
    <3>1. sock'[e] = r  BY <2>10, <2>11
    <3>2. \E z : /\ Queued(L, sock[e], p.frame, z)
                 /\ sock'[e] \in Sockets(L)
                 /\ sock'[e].open = z.open /\ sock'[e].up = z.up /\ sock'[e].bcast = z.bcast
                 /\ sock'[e].lagged = z.lagged
                 /\ sock'[e].down = Append(z.down, Ack(p.batch, p.frame.seq))
      BY <2>2, <2>4, <2>6, <2>9, <3>1
    <3> QED  BY <2>11, <3>2 DEF Broadcasted
  <2>12. CASE e # p.to
    <3>1. sock'[e] = q  BY <2>10, <2>12
    <3>2. \E z : /\ Queued(L, sock[e], p.frame, z)
                 /\ sock'[e] \in Sockets(L)
                 /\ sock'[e].open = z.open /\ sock'[e].up = z.up /\ sock'[e].bcast = z.bcast
                 /\ sock'[e].lagged = z.lagged
                 /\ sock'[e].down = z.down
      BY <2>2, <2>3, <3>1
    <3> QED  BY <2>12, <3>2 DEF Broadcasted
  <2> QED  BY <2>11, <2>12
<1>5. DOMAIN sock' = Devices  BY <1>3
<1>6. \A e \in Devices : sock'[e] \in Sockets(L)  BY <1>4 DEF Broadcasted
<1>7. PICK D : D = Devices  OBVIOUS
<1>8. sock' \in [Devices -> Sockets(L)]
  <2>1. sock' = [e \in Devices |-> sock'[e]]  BY <1>3
  <2> QED  BY <1>6, <2>1
<1>9. UNCHANGED <<server, disk, stale>> /\ publishing' = publishing \ {p}  BY DEF FinishPush
<1> QED  BY <1>4, <1>8, <1>9

LEMMA ConnectEffect ==
  ASSUME NEW L, NEW d \in Devices, NEW hello \in Hellos, Connect(d, hello)
  PROVE  \E s : /\ Resock(L, d, s) /\ s.open = TRUE /\ s.lagged = FALSE /\ s.up = <<hello>>
                /\ s.bcast = <<>> /\ s.down = <<>>
<1>1. PICK u : u = <<hello>>  OBVIOUS
<1>2. u \in Seq(UpFrames(L))
  <2>1. hello \in UpFrames(L)  BY DEF UpFrames
  <2> QED  BY <1>1, <2>1
<1>3. PICK s : s = [NoSocket EXCEPT !.open = TRUE, !.up = u]  OBVIOUS
<1>4. NoSocket \in Sockets(L)  BY NoSocketShape
<1>5. s = [open |-> TRUE, lagged |-> FALSE, up |-> u, bcast |-> <<>>, down |-> <<>>]
  BY <1>3 DEF NoSocket
<1>6. s \in Sockets(L)  BY <1>2, <1>3, <1>4 DEF Sockets
<1>7. sock' = [sock EXCEPT ![d] = s]  BY <1>1, <1>3 DEF Connect
<1>8. Resock(L, d, s)  BY <1>6, <1>7 DEF Resock
<1>9. s.open = TRUE /\ s.lagged = FALSE /\ s.up = <<hello>> /\ s.bcast = <<>> /\ s.down = <<>>
  BY <1>1, <1>5
<1> QED  BY <1>8, <1>9

\* The pushes a client leaves behind, and the batches whose sender is gone.
LEMMA DisconnectEffect ==
  ASSUME NEW L, RoomShapes(L), NEW d \in Devices, Disconnect(d)
  PROVE  /\ server' = server /\ disk' = disk
         /\ Resock(L, d, NoSocket)
         /\ stale' \in [Devices -> Seq(Pushes(L))]
         /\ \A e \in Devices : e # d => stale'[e] = stale[e]
         /\ \A m \in ToSet(stale'[d]) : m \in ToSet(stale[d]) \/ (m \in ToSet(sock[d].up) /\ m.t = "push")
         /\ publishing' \subseteq InHand(L)
         /\ \A p \in publishing' : p.to # d
         /\ \A p \in publishing' : \E q \in publishing :
              p.batch = q.batch /\ p.frame = q.frame /\ (p.to = q.to \/ p.to = NoDevice)
         /\ \A q \in publishing : \E p \in publishing' : p.frame = q.frame
<1>0. /\ sock \in [Devices -> Sockets(L)] /\ stale \in [Devices -> Seq(Pushes(L))]
      /\ publishing \subseteq InHand(L) /\ server' = server /\ disk' = disk
  BY DEF RoomShapes, Disconnect
<1>1. PICK u \in Seq(UpFrames(L)) : u = sock[d].up  BY <1>0, SocketParts
<1>2. PICK I : I = {n \in DOMAIN u : u[n].t = "push"}  OBVIOUS
<1>3. PICK k : k = KeepAt(u, I)  OBVIOUS
<1>4. k \in Seq(UpFrames(L)) /\ ToSet(k) = {u[i] : i \in I \cap 1 .. Len(u)}  BY <1>3, ToSetOfKeepAt
<1>5. DOMAIN u = 1 .. Len(u) /\ ToSet(u) = {u[i] : i \in 1 .. Len(u)}  BY ToSetOfSeq
<1>6. \A m \in ToSet(k) : m \in ToSet(u) /\ m.t = "push"  BY <1>2, <1>4, <1>5
<1>7. k \in Seq(Pushes(L))
  <2>1. ASSUME NEW n \in 1 .. Len(k) PROVE k[n] \in UpFrames(L) /\ k[n].t = "push"
    <3>1. ToSet(k) = {k[i] : i \in 1 .. Len(k)}  BY <1>4, ToSetOfSeq
    <3>2. k[n] \in ToSet(k)  BY <3>1
    <3>3. k[n] \in UpFrames(L)  BY <1>4
    <3> QED  BY <1>6, <3>2, <3>3
  <2>2. \A x \in Hellos : x.t = "hello"  BY DEF Hellos
  <2>3. \A n \in 1 .. Len(k) : k[n] \in Pushes(L)  BY <2>1, <2>2 DEF UpFrames
  <2>4. k \in [1 .. Len(k) -> Pushes(L)] /\ Len(k) \in Nat
    <3>1. k \in Seq(UpFrames(L))  BY <1>4
    <3>2. k = [n \in 1 .. Len(k) |-> k[n]] /\ Len(k) \in Nat  BY <3>1
    <3> QED  BY <2>3, <3>2
  <2> QED  BY <2>4, SeqDef
<1>8. PICK v \in Seq(Pushes(L)) : v = stale[d]  BY <1>0
<1>9. PICK w : w = v \o k  OBVIOUS
<1>10. w \in Seq(Pushes(L)) /\ ToSet(w) = ToSet(v) \cup ToSet(k)  BY <1>7, <1>9, ToSetOfConcat
<1>11. stale' = [stale EXCEPT ![d] = w]
  BY <1>0, <1>1, <1>2, <1>3, <1>8, <1>9 DEF Disconnect
<1>12. /\ stale' \in [Devices -> Seq(Pushes(L))] /\ stale'[d] = w
       /\ \A e \in Devices : e # d => stale'[e] = stale[e]
  BY <1>0, <1>10, <1>11
<1>13. \A m \in ToSet(w) : m \in ToSet(stale[d]) \/ (m \in ToSet(sock[d].up) /\ m.t = "push")
  BY <1>1, <1>6, <1>8, <1>10
<1>14. Resock(L, d, NoSocket)  BY NoSocketShape DEF Resock, Disconnect
<1>15. publishing' = {IF p.to = d THEN [p EXCEPT !.to = NoDevice] ELSE p : p \in publishing}
  BY DEF Disconnect
<1>16. ASSUME NEW q \in publishing
       PROVE  LET p == IF q.to = d THEN [q EXCEPT !.to = NoDevice] ELSE q
              IN  /\ p \in InHand(L) /\ p.to # d /\ p.batch = q.batch /\ p.frame = q.frame
                  /\ p.to = q.to \/ p.to = NoDevice
  <2>1. q \in InHand(L)  BY <1>0
  <2>2. PICK p : p = IF q.to = d THEN [q EXCEPT !.to = NoDevice] ELSE q  OBVIOUS
  <2>3. d # NoDevice  BY RegistryRoomAssumption
  <2>4. CASE q.to = d
    <3>1. p = [q EXCEPT !.to = NoDevice]  BY <2>2, <2>4
    <3>2. p \in InHand(L) /\ p.to = NoDevice /\ p.batch = q.batch /\ p.frame = q.frame
      BY <2>1, <3>1 DEF InHand
    <3> QED  BY <2>2, <2>3, <3>2
  <2>5. CASE q.to # d  BY <2>1, <2>2, <2>5
  <2> QED  BY <2>4, <2>5
<1>17. publishing' \subseteq InHand(L) /\ \A p \in publishing' : p.to # d  BY <1>15, <1>16
<1>18. \A p \in publishing' : \E q \in publishing :
         p.batch = q.batch /\ p.frame = q.frame /\ (p.to = q.to \/ p.to = NoDevice)
  BY <1>15, <1>16
<1>19. \A q \in publishing : \E p \in publishing' : p.frame = q.frame  BY <1>15, <1>16
<1> QED  BY <1>0, <1>12, <1>13, <1>14, <1>17, <1>18, <1>19

-----------------------------------------------------------------------------
(* What the replicas' steps do *)

Redoc(L, d, e) == e \in Docs(d, L) /\ doc' = [doc EXCEPT ![d] = e]

LEMMA RedocFacts ==
  ASSUME NEW L, DOMAIN doc = Devices, NEW d \in Devices, NEW e, Redoc(L, d, e)
  PROVE  DOMAIN doc' = Devices /\ doc'[d] = e /\ \A x \in Devices : x # d => doc'[x] = doc[x]
BY DEF Redoc

Waiting(dc) == {n \in DOMAIN dc.pending : ~ dc.pending[n].flight}

\* Everything that waits is in flight, on a socket that was s.
Pushed(L, d, dc, s) ==
  \E e, r :
    /\ Redoc(L, d, e) /\ MarkedAs(L, d, dc, TRUE, e)
    /\ Resock(L, d, r) /\ r.open = s.open /\ r.lagged = s.lagged
    /\ r.bcast = s.bcast /\ r.down = s.down
    /\ ToSet(r.up) = ToSet(s.up) \cup {Push(dc.pending[n]) : n \in Waiting(dc)}

LEMMA PushAllEffect ==
  ASSUME NEW L, NEW d \in Devices, NEW dc \in Docs(d, L), NEW s \in Sockets(L), PushAll(d, dc, s)
  PROVE  Pushed(L, d, dc, s)
<1>1. PICK p \in Seq(Batches(L)) : p = dc.pending  BY DocParts
<1>2. PICK I : I = Waiting(dc)  OBVIOUS
<1>3. I = {n \in DOMAIN p : ~ p[n].flight} /\ I \subseteq 1 .. Len(p) /\ DOMAIN p = 1 .. Len(p)
  BY <1>1, <1>2 DEF Waiting
<1>4. PICK k : k = KeepAt(p, I)  OBVIOUS
<1>5. k \in Seq(Batches(L)) /\ ToSet(k) = {p[i] : i \in I \cap 1 .. Len(p)}  BY <1>4, ToSetOfKeepAt
<1>6. PICK x : x = [n \in DOMAIN k |-> Push(k[n])]  OBVIOUS
<1>7. DOMAIN k = 1 .. Len(k) /\ Len(k) \in Nat /\ \A n \in DOMAIN k : k[n] \in Batches(L)  BY <1>5
<1>8. ASSUME NEW b \in Batches(L) PROVE Push(b) \in UpFrames(L)
  BY DEF Batches, Push, Pushes, UpFrames
<1>9. x \in Seq(UpFrames(L)) /\ Len(x) = Len(k)
  <2>1. x \in [1 .. Len(k) -> UpFrames(L)]  BY <1>6, <1>7, <1>8
  <2>2. x \in Seq(UpFrames(L))  BY <1>7, <2>1, SeqDef
  <2>3. DOMAIN x = 1 .. Len(k)  BY <2>1
  <2> QED  BY <1>7, <2>2, <2>3
<1>10. ToSet(x) = {Push(p[n]) : n \in I}
  <2>1. ToSet(x) = {x[n] : n \in 1 .. Len(k)}  BY <1>9, ToSetOfSeq
  <2>2. ToSet(k) = {k[n] : n \in 1 .. Len(k)}  BY <1>5, ToSetOfSeq
  <2>3. \A n \in 1 .. Len(k) : x[n] = Push(k[n])  BY <1>6, <1>7
  <2>4. I \cap 1 .. Len(p) = I  BY <1>3
  <2>5. ASSUME NEW m \in ToSet(x) PROVE m \in {Push(p[n]) : n \in I}
    <3>1. PICK n \in 1 .. Len(k) : m = Push(k[n])  BY <2>1, <2>3
    <3>2. k[n] \in ToSet(k)  BY <2>2
    <3>3. PICK i \in I : k[n] = p[i]  BY <1>5, <2>4, <3>2
    <3> QED  BY <3>1, <3>3
  <2>6. ASSUME NEW i \in I PROVE Push(p[i]) \in ToSet(x)
    <3>1. p[i] \in ToSet(k)  BY <1>5, <2>4
    <3>2. PICK n \in 1 .. Len(k) : k[n] = p[i]  BY <2>2, <3>1
    <3> QED  BY <2>1, <2>3, <3>2
  <2>7. \A m \in {Push(p[n]) : n \in I} : m \in ToSet(x)  BY <2>6
  <2> QED  BY <2>5, <2>7
<1>11. PICK u \in Seq(UpFrames(L)) : u = s.up  BY DEF Sockets
<1>12. PICK w : w = u \o x  OBVIOUS
<1>13. w \in Seq(UpFrames(L)) /\ ToSet(w) = ToSet(u) \cup ToSet(x)  BY <1>9, <1>12, ToSetOfConcat
<1>14. PICK r : r = [s EXCEPT !.up = w]  OBVIOUS
<1>15. /\ r \in Sockets(L) /\ r.up = w /\ r.open = s.open /\ r.lagged = s.lagged
       /\ r.bcast = s.bcast /\ r.down = s.down
  BY <1>13, <1>14 DEF Sockets
<1>16. sock' = [sock EXCEPT ![d] = r]
  BY <1>1, <1>3, <1>4, <1>6, <1>11, <1>12, <1>14 DEF PushAll, Sockets
<1>17. PICK yes \in BOOLEAN : yes = TRUE  OBVIOUS
<1>18. PICK e : e = Marked(dc, yes)  OBVIOUS
<1>19. MarkedAs(L, d, dc, yes, e)  BY <1>18, MarkedFacts
<1>20. e \in Docs(d, L)  BY <1>19 DEF MarkedAs
<1>21. doc' = [doc EXCEPT ![d] = e]  BY <1>17, <1>18 DEF PushAll, Marked
<1>22. MarkedAs(L, d, dc, TRUE, e)  BY <1>17, <1>19
<1>23. Redoc(L, d, e) /\ Resock(L, d, r)  BY <1>15, <1>16, <1>20, <1>21 DEF Redoc, Resock
<1>24. ToSet(r.up) = ToSet(s.up) \cup {Push(dc.pending[n]) : n \in Waiting(dc)}
  BY <1>1, <1>2, <1>10, <1>11, <1>13, <1>15
<1> QED  BY <1>15, <1>22, <1>23, <1>24 DEF Pushed

LEMMA RestFacts ==
  ASSUME NEW L, sock \in [Devices -> Sockets(L)], NEW d \in Devices, sock[d].down # <<>>
  PROVE  /\ Rest(d) \in Sockets(L) /\ Rest(d).open = sock[d].open /\ Rest(d).lagged = sock[d].lagged
         /\ Rest(d).up = sock[d].up /\ Rest(d).bcast = sock[d].bcast
         /\ Rest(d).down = Tail(sock[d].down)
         /\ Head(sock[d].down) \in DownFrames(L) /\ Head(sock[d].down) \in ToSet(sock[d].down)
         /\ Tail(sock[d].down) \in Seq(DownFrames(L))
         /\ ToSet(sock[d].down) = {Head(sock[d].down)} \cup ToSet(Tail(sock[d].down))
<1>1. PICK o : o = sock[d]  OBVIOUS
<1>2. PICK x \in Seq(DownFrames(L)) : x = o.down  BY <1>1, SocketParts
<1>3. o \in Sockets(L) /\ x # <<>>  BY <1>1, <1>2, SocketParts
<1>4. PICK y : y = Tail(x)  OBVIOUS
<1>5. y \in Seq(DownFrames(L)) /\ Head(x) \in DownFrames(L) /\ ToSet(x) = {Head(x)} \cup ToSet(y)
  BY <1>3, <1>4, ToSetOfTail
<1>6. PICK r : r = Rest(d)  OBVIOUS
<1>7. r = [o EXCEPT !.down = y]  BY <1>1, <1>2, <1>3, <1>4, <1>6 DEF Rest, Sockets
<1>8. /\ r \in Sockets(L) /\ r.open = o.open /\ r.lagged = o.lagged /\ r.up = o.up
      /\ r.bcast = o.bcast /\ r.down = y
  BY <1>3, <1>5, <1>7 DEF Sockets
<1> QED  BY <1>1, <1>2, <1>4, <1>5, <1>6, <1>8

\* What kind of frame it is says which set it is from.
LEMMA FrameKinds ==
  ASSUME NEW L, NEW f \in DownFrames(L)
  PROVE  /\ f.t \in {"rows", "state", "ack"} /\ f.seq \in Nat
         /\ f.t = "rows" => f \in RowsFrames(L)
         /\ f.t = "state" => f \in StateFrames(L)
         /\ f.t = "ack" => f \in Acks
         /\ f.t # "ack" => f.rows \in PartRows(L)
BY DEF DownFrames, RowsFrames, StateFrames, Acks

\* The operations of a local write are stamped with its clock, and so is every field.
Stamped(L, hlc, ops) ==
  /\ ops \in Seq(Ops(L)) /\ ops # <<>>
  /\ \A o \in ToSet(ops) : o.hlc = hlc /\ \A f \in DOMAIN o.set : o.set[f].clock = hlc

LEMMA WriteOpsFacts ==
  ASSUME NEW L, NEW kind \in {"set", "clear", "update", "remove"}, NEW ids \in (SUBSET Ids) \ {{}},
         NEW F \in (SUBSET Fields) \ {{}}, NEW hlc \in Nat \ {0}, NEW name \in Nat,
         NEW v \in Nat, v = IF kind = "clear" THEN 0 ELSE name, <<hlc, v>> \in L
  PROVE  Stamped(L, hlc, WriteOps(kind, ids, F, hlc, name))
<1>1. IsFiniteSet(ids) /\ ids # {}
  <2>1. ids \subseteq Ids /\ ids # {}  OBVIOUS
  <2> QED  BY <2>1, RegistryRowAssumption, FS_Subset
<1>2. PICK q : q = SetToSeq(ids)  OBVIOUS
<1>3. PICK c \in Nat : c = Cardinality(ids)  BY <1>1, SetToSeqFacts
<1>4. (\A n \in 1 .. c : q[n] \in ids) /\ (\A i \in ids : \E n \in 1 .. c : q[n] = i)
  BY <1>1, <1>2, <1>3, SetToSeqFacts
<1>5. v = IF kind = "clear" THEN 0 ELSE name  OBVIOUS
<1>6. PICK w : w = IF kind = "remove" THEN << >> ELSE [f \in F |-> [clock |-> hlc, value |-> v]]  OBVIOUS
<1>7. PICK t \in {"upsert", "update", "delete"} :
        t = CASE kind \in {"set", "clear"} -> "upsert" [] kind = "update" -> "update"
              [] kind = "remove" -> "delete"
  OBVIOUS
<1>8. /\ w \in UNION {[G -> Write] : G \in SUBSET Fields}
      /\ DOMAIN w \subseteq Fields
      /\ \A f \in DOMAIN w : w[f].clock = hlc /\ <<w[f].clock, w[f].value>> \in L
      /\ t # "delete" => DOMAIN w # {}
  <2>1. CASE kind = "remove"
    <3>1. w = << >> /\ t = "delete"  BY <1>6, <1>7, <2>1
    <3>2. w \in [{} -> Write] /\ DOMAIN w = {}
      <4>1. w = [f \in {} |-> 0]  BY <3>1
      <4> QED  BY <4>1
    <3>3. {} \in SUBSET Fields  OBVIOUS
    <3> QED  BY <3>1, <3>2, <3>3
  <2>2. CASE kind # "remove"
    <3>1. w = [f \in F |-> [clock |-> hlc, value |-> v]]  BY <1>6, <2>2
    <3>2. w \in [F -> Write] /\ DOMAIN w = F /\ F \in SUBSET Fields  BY <3>1 DEF Write, Clock
    <3>3. \A f \in F : w[f].clock = hlc /\ w[f].value = v  BY <3>1
    <3>4. \A f \in DOMAIN w : w[f].clock = hlc /\ <<w[f].clock, w[f].value>> \in L
      <4>1. <<hlc, v>> \in L  OBVIOUS
      <4> QED  BY <3>2, <3>3, <4>1
    <3>5. DOMAIN w # {}  BY <3>2
    <3>6. w \in UNION {[G -> Write] : G \in SUBSET Fields}  BY <3>2
    <3>7. DOMAIN w \subseteq Fields  BY <3>2
    <3> QED  BY <3>4, <3>5, <3>6, <3>7
  <2> QED  BY <2>1, <2>2
<1>9. PICK s : s = WriteOps(kind, ids, F, hlc, name)  OBVIOUS
<1>10. s = [n \in 1 .. c |-> [id |-> q[n], op |-> t, hlc |-> hlc, set |-> w]]
  <2>1. CASE kind = "clear"
    <3>1. w = [f \in F |-> [clock |-> hlc, value |-> 0]]  BY <1>5, <1>6, <2>1
    <3> QED  BY <1>2, <1>3, <1>7, <1>9, <2>1, <3>1 DEF WriteOps
  <2>2. CASE kind = "remove"
    <3>1. w = << >> /\ t = "delete"  BY <1>6, <1>7, <2>2
    <3> QED  BY <1>2, <1>3, <1>9, <2>2, <3>1 DEF WriteOps
  <2>3. CASE kind \in {"set", "update"}
    <3>1. w = [f \in F |-> [clock |-> hlc, value |-> name]]  BY <1>5, <1>6, <2>3
    <3> QED  BY <1>2, <1>3, <1>7, <1>9, <2>3, <3>1 DEF WriteOps
  <2> QED  BY <2>1, <2>2, <2>3
<1>11. ASSUME NEW i \in ids PROVE [id |-> i, op |-> t, hlc |-> hlc, set |-> w] \in Ops(L)
  <2>1. PICK o : o = [id |-> i, op |-> t, hlc |-> hlc, set |-> w]  OBVIOUS
  <2>2. o \in Op  BY <1>8, <2>1 DEF Op, Clock
  <2>3. o.set = w /\ o.hlc = hlc /\ o.op = t  BY <2>1
  <2>4. Issued(o)
    <3>1. hlc <= hlc  OBVIOUS
    <3>2. \A f \in DOMAIN w : w[f].clock <= hlc  BY <1>8, <3>1
    <3> QED  BY <2>2, <2>3, <3>2 DEF Issued
  <2>5. o.op = "upsert" => \E f \in DOMAIN o.set : o.set[f].clock = o.hlc  BY <1>8, <2>3
  <2>6. \A f \in DOMAIN o.set : <<o.set[f].clock, o.set[f].value>> \in L  BY <1>8, <2>3
  <2> QED  BY <2>1, <2>2, <2>4, <2>5, <2>6 DEF Ops
<1>12. s \in Seq(Ops(L)) /\ DOMAIN s = 1 .. c
  <2>1. s \in [1 .. c -> Ops(L)]  BY <1>4, <1>10, <1>11
  <2> QED  BY <2>1, SeqDef
<1>13. s # <<>>
  <2>1. PICK i \in ids : TRUE  BY <1>1
  <2>2. PICK n \in 1 .. c : q[n] = i  BY <1>4, <2>1
  <2> QED  BY <1>12, <2>2
<1>14. \A o \in ToSet(s) : o.hlc = hlc /\ o.set = w
  <2>1. Len(s) = c  BY <1>12
  <2>2. ToSet(s) = {s[n] : n \in 1 .. c}  BY <1>12, <2>1, ToSetOfSeq
  <2>3. \A n \in 1 .. c : s[n].hlc = hlc /\ s[n].set = w  BY <1>10
  <2> QED  BY <2>2, <2>3
<1>15. \A o \in ToSet(s) : o.hlc = hlc /\ \A f \in DOMAIN o.set : o.set[f].clock = hlc
  BY <1>8, <1>14
<1> QED  BY <1>9, <1>12, <1>13, <1>15 DEF Stamped

\* The clock a local write is stamped with, and the value it writes.
StampOf(d, now) == Now(d, Tick(doc[d], now))
NameOf(d) == writes[d] * Ranks + Rank[d] + 1

Written(L, d, now, e, b) ==
  /\ Redoc(L, d, e)
  /\ e.rows = doc[d].rows /\ e.cursor = doc[d].cursor /\ e.epoch = doc[d].epoch
  /\ e.clock.ms >= doc[d].clock.ms /\ Now(d, e) >= StampOf(d, now)
  /\ e.pending = Append(doc[d].pending, b)
  /\ b \in Batches(L) /\ b.batch > Now(d, doc[d]) /\ b.flight = FALSE
  /\ Stamped(L, StampOf(d, now), b.ops) /\ StampOf(d, now) > Now(d, doc[d])
  /\ e.written = doc[d].written \cup {op \in ToSet(b.ops) : op.op # "update"}

LEMMA LocalWriteEffect ==
  ASSUME NEW L, NEW d \in Devices, doc[d] \in Docs(d, L), writes[d] \in Nat,
         NEW now \in Nat, NEW kind \in Kinds, NEW ids \in (SUBSET Ids) \ {{}},
         NEW F \in (SUBSET Fields) \ {{}}, LocalWrite(d, now, kind, ids, F),
         <<StampOf(d, now), IF kind = "clear" THEN 0 ELSE NameOf(d)>> \in L
  PROVE  \E e, b : Written(L, d, now, e, b)
<1>1. PICK dc \in Docs(d, L) : dc = doc[d]  OBVIOUS
<1>2. PICK t : t = Tick(dc, now)  OBVIOUS
<1>3. /\ t \in Docs(d, L) /\ Now(d, t) > Now(d, dc) /\ Now(d, dc) \in Nat /\ Now(d, t) \in Nat
      /\ t.clock.ms >= dc.clock.ms /\ t.pending = dc.pending /\ SameBut(dc, t)
  BY <1>2, TickFacts
<1>4. PICK hlc \in Nat \ {0} : hlc = Now(d, t)  BY <1>3
<1>5. hlc = StampOf(d, now)  BY <1>1, <1>2, <1>4 DEF StampOf
<1>6. PICK name \in Nat : name = NameOf(d)
  <2>1. Rank[d] \in Nat /\ Ranks \in Nat  BY RegistrySyncAssumption, RegistryRowAssumption
  <2>2. writes[d] * Ranks \in Nat  BY <2>1
  <2> QED  BY <2>1, <2>2 DEF NameOf
<1>7. kind \in {"set", "clear", "update", "remove"}  BY RegistrySyncAssumption
<1>8. PICK ops : ops = WriteOps(kind, ids, F, hlc, name)  OBVIOUS
<1>9. Stamped(L, hlc, ops) /\ ops \in Seq(Ops(L)) /\ ops # <<>>
  <2>1. PICK v \in Nat : v = IF kind = "clear" THEN 0 ELSE name  OBVIOUS
  <2>2. <<hlc, v>> \in L  BY <1>5, <1>6, <2>1
  <2>3. kind \in {"set", "clear", "update", "remove"} /\ ids \in (SUBSET Ids) \ {{}}
        /\ F \in (SUBSET Fields) \ {{}}
    BY <1>7
  <2>4. Stamped(L, hlc, WriteOps(kind, ids, F, hlc, name))  BY <2>1, <2>2, <2>3, WriteOpsFacts
  <2> QED  BY <1>8, <2>4 DEF Stamped
<1>10. PICK b : b = NewBatch(d, t, ops, now)  OBVIOUS
<1>11. PICK q : q = EnqueueOps(d, t, ops, now)  OBVIOUS
<1>12. Enqueued(L, d, t, ops, q, b)  BY <1>3, <1>9, <1>10, <1>11, EnqueueOpsFacts
<1>13. /\ q \in Docs(d, L) /\ SameBut(t, q) /\ q.clock.ms >= t.clock.ms /\ Now(d, q) >= Now(d, t)
       /\ q.pending = Append(t.pending, b)
       /\ b \in Batches(L) /\ b.batch > Now(d, t) /\ b.ops = ops /\ b.flight = FALSE
  BY <1>9, <1>12 DEF Enqueued
<1>14. PICK W : W = dc.written \cup {op \in ToSet(ops) : op.op # "update"}  OBVIOUS
<1>15. W \in SUBSET Ops(L)
  <2>1. ToSet(ops) \subseteq Ops(L)  BY <1>9, ToSetOfSeq
  <2>2. dc.written \in SUBSET Ops(L)  BY DocParts
  <2> QED  BY <1>14, <2>1, <2>2
<1>16. PICK e : e = [q EXCEPT !.written = W]  OBVIOUS
<1>17. q \in DocRecords(L) /\ Named(d, q)  BY <1>13, DocParts
<1>18. /\ e \in DocRecords(L) /\ e.rows = q.rows /\ e.cursor = q.cursor /\ e.epoch = q.epoch
       /\ e.clock = q.clock /\ e.pending = q.pending /\ e.written = W
  BY <1>15, <1>16, <1>17 DEF DocRecords
<1>19. Now(d, e) = Now(d, q)  BY <1>18 DEF Now
<1>20. e \in Docs(d, L)  BY <1>17, <1>18, <1>19 DEF Docs, Named
<1>21. q.written = dc.written  BY <1>3, <1>13 DEF SameBut
<1>22. doc' = [doc EXCEPT ![d] = e]
  <2>1. ops = WriteOps(kind, ids, F, Now(d, Tick(doc[d], now)), writes[d] * Ranks + Rank[d] + 1)
    BY <1>1, <1>2, <1>4, <1>6, <1>8 DEF NameOf
  <2>2. q = EnqueueOps(d, Tick(doc[d], now), ops, now)  BY <1>1, <1>2, <1>11
  <2>3. doc' = [doc EXCEPT ![d] = [q EXCEPT !.written = @ \cup {op \in ToSet(ops) : op.op # "update"}]]
    BY <2>1, <2>2 DEF LocalWrite
  <2>4. [q EXCEPT !.written = @ \cup {op \in ToSet(ops) : op.op # "update"}] = e
    BY <1>14, <1>16, <1>17, <1>21 DEF DocRecords
  <2> QED  BY <2>3, <2>4
<1>23. b.batch > Now(d, dc)
  <2>1. b.batch \in Nat  BY <1>13 DEF Batches
  <2> QED  BY <1>3, <1>13, <2>1
<1>24. Now(d, e) >= StampOf(d, now)  BY <1>4, <1>5, <1>13, <1>19
<1>25. e.clock.ms >= dc.clock.ms
  <2>1. t.clock.ms \in Nat /\ q.clock.ms \in Nat /\ dc.clock.ms \in Nat
    <3>1. t.clock \in Clocks /\ q.clock \in Clocks /\ dc.clock \in Clocks  BY <1>3, <1>13, DocParts
    <3> QED  BY <3>1 DEF Clocks
  <2> QED  BY <1>3, <1>13, <1>18, <2>1
<1>26. e.rows = dc.rows /\ e.cursor = dc.cursor /\ e.epoch = dc.epoch /\ e.pending = Append(dc.pending, b)
  BY <1>3, <1>13, <1>18 DEF SameBut
<1>27. Redoc(L, d, e)  BY <1>20, <1>22 DEF Redoc
<1> QED
  BY <1>1, <1>3, <1>4, <1>5, <1>9, <1>13, <1>14, <1>18, <1>23, <1>24, <1>25, <1>26, <1>27 DEF Written

-----------------------------------------------------------------------------
(* The shape of the state *)

SavedDocs(d, L) == {s \in [doc : Docs(d, L), owing : BOOLEAN] : Landing(s.doc)}

DocShapes(L) ==
  /\ DOMAIN doc = Devices /\ \A d \in Devices : doc[d] \in Docs(d, L)
  /\ DOMAIN saved = Devices /\ \A d \in Devices : saved[d] \in SavedDocs(d, L)

ClockShapes ==
  wall \in [Devices -> Nat] /\ writes \in [Devices -> Nat] /\ epoch \in Nat

LinkOf(d) ==
  /\ link[d] \in {"closed", "hello", "ready"}
  /\ link[d] # "ready" => Landing(doc[d])
  /\ link[d] # "closed" <=> sock[d].open
  /\ ~ sock[d].open => sock[d] = NoSocket
  /\ Len(sock[d].bcast) <= BroadcastDepth

Links == DOMAIN link = Devices /\ \A d \in Devices : LinkOf(d)

\* A batch in hand is of a connection that still is.
Senders == \A p \in publishing : p.to \in Devices => sock[p.to].open

Shapes(L) == RoomShapes(L) /\ DocShapes(L) /\ ClockShapes /\ Links /\ Senders

\* A link whose socket, session and flights stay as they are, or stay in line.
LEMMA LinkKept ==
  ASSUME NEW d \in Devices, LinkOf(d), UNCHANGED <<doc[d], link[d], sock[d]>>
  PROVE  LinkOf(d)'
BY DEF LinkOf, Landing

\* Frames come and go on an open socket; the queue keeps its flights.
LEMMA LinkOnSocket ==
  ASSUME NEW L, NEW d \in Devices, Links, NEW s, Resock(L, d, s), sock \in [Devices -> Sockets(L)],
         link' = link, doc' = doc, s.open = sock[d].open, sock[d].open,
         Len(s.bcast) <= BroadcastDepth
  PROVE  Links'
<1>1. /\ sock'[d] = s /\ \A e \in Devices : e # d => sock'[e] = sock[e]
  BY ResockFacts
<1>2. ASSUME NEW e \in Devices PROVE LinkOf(e)'
  <2>1. LinkOf(e)  BY DEF Links
  <2>2. CASE e # d
    <3>1. UNCHANGED <<doc[e], link[e], sock[e]>>  BY <1>1, <2>2
    <3> QED  BY <2>1, <3>1, LinkKept
  <2>3. CASE e = d
    <3>1. link'[d] = link[d] /\ doc'[d] = doc[d] /\ sock'[d].open = sock[d].open
          /\ Len(sock'[d].bcast) <= BroadcastDepth
      BY <1>1
    <3> QED  BY <2>1, <2>3, <3>1 DEF LinkOf, Landing
  <2> QED  BY <2>2, <2>3
<1> QED  BY <1>2 DEF Links

LEMMA ShapesStart ==
  ASSUME NEW L, Init
  PROVE  Shapes(L)
<1>1. EmptyTable \in Tables(L) /\ EmptyTable.seq = 0
  <2>1. [i \in Ids |-> Missing] \in [Ids -> Rows(L)]  BY MissingIsARow
  <2>2. Missing.seq = 0  BY DEF Missing
  <2> QED  BY <2>1, <2>2 DEF EmptyTable, Tables
<1>2. RoomShapes(L)
  <2>1. NoSocket \in Sockets(L) /\ <<>> \in Seq(Pushes(L))  BY NoSocketShape
  <2>2. server = EmptyTable /\ disk = EmptyTable /\ sock = [d \in Devices |-> NoSocket]
        /\ stale = [d \in Devices |-> <<>>] /\ publishing = {}
    BY DEF Init, RoomInit
  <2>3. 0 <= 0  OBVIOUS
  <2> QED  BY <1>1, <2>1, <2>2, <2>3 DEF RoomShapes
<1>3. ASSUME NEW d \in Devices PROVE NewDoc \in Docs(d, L) /\ Landing(NewDoc)
  <2>1. PICK r : r = [i \in Ids |-> Missing]  OBVIOUS
  <2>2. r \in [Ids -> Rows(L)]  BY <2>1, MissingIsARow
  <2>3. PICK c \in Clocks : c = [ms |-> 0, counter |-> 0]
    <3>1. 0 \in 0 .. Counters - 1  BY RegistryRowAssumption
    <3>2. [ms |-> 0, counter |-> 0] \in Clocks  BY <3>1 DEF Clocks
    <3> QED  BY <3>2
  <2>4. PICK q \in Seq(Batches(L)) : q = <<>>
    <3>1. <<>> \in Seq(Batches(L))  OBVIOUS
    <3> QED  BY <3>1
  <2>5. NewDoc = [rows |-> r, cursor |-> 0, pending |-> q, clock |-> c, touched |-> FALSE,
                  written |-> {}, epoch |-> 0]
    BY <2>1, <2>3, <2>4 DEF NewDoc
  <2>6. NewDoc \in DocRecords(L) /\ NewDoc.pending = <<>>  BY <2>2, <2>4, <2>5 DEF DocRecords
  <2> QED  BY <2>6 DEF Docs, Named, Landing
<1>4. DocShapes(L)
  <2>1. doc = [d \in Devices |-> NewDoc] /\ saved = [d \in Devices |-> [doc |-> NewDoc, owing |-> FALSE]]
    BY DEF Init
  <2>2. \A d \in Devices : saved[d] \in SavedDocs(d, L)  BY <1>3, <2>1 DEF SavedDocs
  <2> QED  BY <1>3, <2>1, <2>2 DEF DocShapes
<1>5. ClockShapes  BY DEF Init, ClockShapes
<1>6. Links
  <2>1. ASSUME NEW d \in Devices PROVE LinkOf(d)
    <3>1. doc[d] = NewDoc /\ link[d] = "closed" /\ sock[d] = NoSocket  BY DEF Init, RoomInit
    <3>2. NoSocket.open = FALSE /\ Len(NoSocket.bcast) = 0  BY DEF NoSocket
    <3>3. BroadcastDepth \in Nat  BY RegistryRoomAssumption
    <3> QED  BY <1>3, <3>1, <3>2, <3>3 DEF LinkOf
  <2>2. DOMAIN link = Devices  BY DEF Init
  <2> QED  BY <2>1, <2>2 DEF Links
<1>7. Senders  BY DEF Init, RoomInit, Senders
<1> QED  BY <1>2, <1>4, <1>5, <1>6, <1>7 DEF Shapes

LEMMA RoomResocked ==
  ASSUME NEW L, RoomShapes(L), NEW d \in Devices, NEW s, Resock(L, d, s),
         UNCHANGED <<server, disk, stale, publishing>>
  PROVE  RoomShapes(L)'
<1>1. sock' \in [Devices -> Sockets(L)]  BY ResockFacts DEF RoomShapes
<1> QED  BY <1>1 DEF RoomShapes

LEMMA DocsUnchanged ==
  ASSUME NEW L, DocShapes(L), UNCHANGED <<doc, saved>>
  PROVE  DocShapes(L)'
BY DEF DocShapes

LEMMA ClocksUnchanged ==
  ASSUME ClockShapes, UNCHANGED <<wall, writes, epoch>>
  PROVE  ClockShapes'
BY DEF ClockShapes

LEMMA DocRedone ==
  ASSUME NEW L, DocShapes(L), NEW d \in Devices, NEW e, Redoc(L, d, e), saved' = saved
  PROVE  DocShapes(L)'
<1>1. DOMAIN doc' = Devices /\ doc'[d] = e /\ \A x \in Devices : x # d => doc'[x] = doc[x]
  BY RedocFacts DEF DocShapes
<1>2. e \in Docs(d, L)  BY DEF Redoc
<1>3. \A x \in Devices : doc'[x] \in Docs(x, L)  BY <1>1, <1>2 DEF DocShapes
<1> QED  BY <1>1, <1>3 DEF DocShapes

\* The sequence a batch gets, and the frame of its rows.
LEMMA MergedFrame ==
  ASSUME NEW L, server \in Tables(L), NEW push \in Pushes(L), NEW to \in Devices \cup {NoDevice}
  PROVE  [to |-> to, batch |-> push.batch,
          frame |-> RowsFrame(server.seq + 1, Touched(push.ops))] \in InHand(L)
<1>1. push.batch \in Nat /\ push.ops \in Seq(Ops(L)) /\ server.seq + 1 \in Nat
  BY DEF Pushes, Tables
<1>2. PICK m \in PartRows(L) : m = Touched(push.ops)  BY <1>1, TouchedFacts
<1>3. RowsFrame(server.seq + 1, m) \in RowsFrames(L)  BY <1>1 DEF RowsFrame, RowsFrames
<1> QED  BY <1>1, <1>2, <1>3 DEF InHand

LEMMA ServeKeepsShapes ==
  ASSUME NEW L, Shapes(L), NEW d \in Devices, Serve(d)
  PROVE  Shapes(L)'
<1>0. /\ RoomShapes(L) /\ DocShapes(L) /\ ClockShapes /\ Links /\ Senders
      /\ server \in Tables(L) /\ sock \in [Devices -> Sockets(L)]
      /\ LinkOf(d) /\ Len(sock[d].bcast) <= BroadcastDepth
      /\ sock[d].bcast \in Seq(RowsFrames(L)) /\ BroadcastDepth \in Nat
  BY SocketParts, RegistryRoomAssumption DEF Shapes, RoomShapes, Links, LinkOf
<1>1. UNCHANGED <<docVars, wall, writes, epoch>>  BY DEF Serve, historyVars
<1>2. link' = link /\ doc' = doc /\ saved' = saved  BY <1>1 DEF docVars
<1>3. DocShapes(L)' /\ ClockShapes'  BY <1>0, <1>1, <1>2, DocsUnchanged, ClocksUnchanged
<1>4. ASSUME NEW s, Resock(L, d, s), sock[d].open, s.open = sock[d].open,
             Len(s.bcast) <= BroadcastDepth, UNCHANGED <<server, disk, stale, publishing>>
      PROVE  Shapes(L)'
  <2>1. RoomShapes(L)'  BY <1>0, <1>4, RoomResocked
  <2>2. Links'  BY <1>0, <1>2, <1>4, LinkOnSocket
  <2>3. Senders'
    <3>1. sock'[d] = s /\ \A e \in Devices : e # d => sock'[e] = sock[e]  BY <1>0, <1>4, ResockFacts
    <3> QED  BY <1>0, <1>4, <3>1 DEF Senders
  <2> QED  BY <1>3, <2>1, <2>2, <2>3 DEF Shapes
<1>5. CASE SendBroadcast(d)
  <2>1. PICK s : /\ Resock(L, d, s) /\ s.open = sock[d].open /\ s.bcast = Tail(sock[d].bcast)
    BY <1>0, <1>5, SendBroadcastEffect
  <2>2. sock[d].open /\ sock[d].bcast # <<>> /\ UNCHANGED <<server, disk, stale, publishing>>
    BY <1>5 DEF SendBroadcast
  <2>3. Len(Tail(sock[d].bcast)) = Len(sock[d].bcast) - 1 /\ Len(sock[d].bcast) \in Nat
    BY <1>0, <2>2, ToSetOfTail
  <2>4. Len(s.bcast) <= BroadcastDepth  BY <1>0, <2>1, <2>3
  <2> QED  BY <1>4, <2>1, <2>2, <2>4
<1>6. CASE SendLaggedState(d)
  <2>1. PICK s : Resock(L, d, s) /\ s.open = sock[d].open /\ s.bcast = sock[d].bcast
    BY <1>0, <1>6, SendLaggedStateEffect
  <2>2. sock[d].open /\ UNCHANGED <<server, disk, stale, publishing>>  BY <1>6 DEF SendLaggedState
  <2> QED  BY <1>0, <1>4, <2>1, <2>2
<1>7. CASE HandleHello(d)
  <2>1. PICK s : Resock(L, d, s) /\ s.open = sock[d].open /\ s.bcast = sock[d].bcast
    BY <1>0, <1>7, HandleHelloEffect
  <2>2. sock[d].open /\ UNCHANGED <<server, disk, stale, publishing>>
    BY <1>7 DEF HandleHello, NextFrame
  <2> QED  BY <1>0, <1>4, <2>1, <2>2
<1>8. CASE LoseStale(d)
  <2>1. stale' \in [Devices -> Seq(Pushes(L))]  BY <1>0, <1>8, LoseStaleEffect DEF RoomShapes
  <2>2. UNCHANGED <<server, disk, sock, publishing>>  BY <1>8 DEF LoseStale
  <2>3. RoomShapes(L)'  BY <1>0, <2>1, <2>2 DEF RoomShapes
  <2>4. Links'
    <3>1. \A e \in Devices : LinkOf(e)'  BY <1>0, <1>2, <2>2, LinkKept DEF Links
    <3> QED  BY <1>0, <1>2, <3>1 DEF Links
  <2>5. Senders'  BY <1>0, <2>2 DEF Senders
  <2> QED  BY <1>3, <2>3, <2>4, <2>5 DEF Shapes
<1>9. ASSUME NEW stored \in BOOLEAN, HandlePush(d, stored) PROVE Shapes(L)'
  <2>1. PICK push \in Pushes(L) : \E s :
           /\ stale' = stale
           /\ Resock(L, d, s) /\ s.open = sock[d].open /\ s.bcast = sock[d].bcast
           /\ \/ server' = server /\ disk' = disk /\ publishing' = publishing
              \/ /\ Merged(L, push.ops)
                 /\ publishing' = publishing \cup
                      {[to |-> d, batch |-> push.batch,
                        frame |-> RowsFrame(server.seq + 1, Touched(push.ops))]}
    BY <1>0, <1>9, HandlePushEffect
  <2>2. sock[d].open  BY <1>9 DEF HandlePush, NextFrame
  <2>6. PICK s : Resock(L, d, s) /\ s.open = sock[d].open /\ s.bcast = sock[d].bcast  BY <2>1
  <2>3. Links'  BY <1>0, <1>2, <2>2, <2>6, LinkOnSocket
  <2>4. /\ sock' \in [Devices -> Sockets(L)] /\ sock'[d] = s
        /\ \A e \in Devices : e # d => sock'[e] = sock[e]
    BY <1>0, <2>6, ResockFacts
  <2>5. RoomShapes(L)'
    <3>1. CASE server' = server /\ disk' = disk /\ publishing' = publishing
      BY <1>0, <2>1, <2>4, <3>1 DEF RoomShapes
    <3>2. CASE /\ Merged(L, push.ops)
               /\ publishing' = publishing \cup
                    {[to |-> d, batch |-> push.batch,
                      frame |-> RowsFrame(server.seq + 1, Touched(push.ops))]}
      <4>1. publishing' \subseteq InHand(L)  BY <1>0, <3>2, MergedFrame DEF RoomShapes
      <4> QED  BY <1>0, <2>1, <2>4, <3>2, <4>1 DEF RoomShapes, Merged
    <3> QED  BY <2>1, <3>1, <3>2
  <2>7. Senders'
    <3>1. \A p \in publishing' : p \in publishing \/ p.to = d  BY <2>1
    <3> QED  BY <1>0, <2>2, <2>4, <2>6, <3>1 DEF Senders
  <2> QED  BY <1>3, <2>3, <2>5, <2>7 DEF Shapes
<1>10. ASSUME NEW stored \in BOOLEAN, HandleStalePush(d, stored) PROVE Shapes(L)'
  <2>1. sock' = sock /\ stale' \in [Devices -> Seq(Pushes(L))]
    BY <1>0, <1>10, HandleStalePushEffect
  <2>2. PICK push \in Pushes(L) :
           \/ server' = server /\ disk' = disk /\ publishing' = publishing
           \/ /\ Merged(L, push.ops)
              /\ publishing' = publishing \cup
                   {[to |-> NoDevice, batch |-> push.batch,
                     frame |-> RowsFrame(server.seq + 1, Touched(push.ops))]}
    BY <1>0, <1>10, HandleStalePushEffect
  <2>3. Links'
    <3>1. \A e \in Devices : LinkOf(e)'  BY <1>0, <1>2, <2>1, LinkKept DEF Links
    <3> QED  BY <1>0, <1>2, <3>1 DEF Links
  <2>4. RoomShapes(L)'
    <3>1. CASE server' = server /\ disk' = disk /\ publishing' = publishing
      BY <1>0, <2>1, <3>1 DEF RoomShapes
    <3>2. CASE /\ Merged(L, push.ops)
               /\ publishing' = publishing \cup
                    {[to |-> NoDevice, batch |-> push.batch,
                      frame |-> RowsFrame(server.seq + 1, Touched(push.ops))]}
      <4>1. publishing' \subseteq InHand(L)  BY <1>0, <3>2, MergedFrame DEF RoomShapes
      <4> QED  BY <1>0, <2>1, <3>2, <4>1 DEF RoomShapes, Merged
    <3> QED  BY <2>2, <3>1, <3>2
  <2>5. Senders'
    <3>1. \A p \in publishing' : p \in publishing \/ p.to = NoDevice  BY <2>2
    <3>2. NoDevice \notin Devices  BY RegistryRoomAssumption
    <3> QED  BY <1>0, <2>1, <3>1, <3>2 DEF Senders
  <2> QED  BY <1>3, <2>3, <2>4, <2>5 DEF Shapes
<1> QED  BY <1>5, <1>6, <1>7, <1>8, <1>9, <1>10 DEF Serve

LEMMA PublishKeepsShapes ==
  ASSUME NEW L, Shapes(L), NEW p \in publishing, Publish(p)
  PROVE  Shapes(L)'
<1>0. RoomShapes(L) /\ DocShapes(L) /\ ClockShapes /\ Links /\ Senders /\ FinishPush(p)
      /\ \A d \in Devices : Len(sock[d].bcast) <= BroadcastDepth
  BY DEF Shapes, Links, LinkOf, Publish
<1>1. /\ UNCHANGED <<server, disk, stale>> /\ publishing' = publishing \ {p}
      /\ sock' \in [Devices -> Sockets(L)]
      /\ \A e \in Devices : Broadcasted(L, p, e)
  BY <1>0, FinishPushEffect
<1>2. link' = link /\ doc' = doc /\ saved' = saved /\ UNCHANGED <<wall, writes, epoch>>
  BY DEF Publish, docVars
<1>3. DocShapes(L)' /\ ClockShapes'  BY <1>0, <1>2, DocsUnchanged, ClocksUnchanged
<1>4. RoomShapes(L)'  BY <1>0, <1>1 DEF RoomShapes
<1>5. ASSUME NEW e \in Devices PROVE LinkOf(e)'
  <2>1. LinkOf(e)  BY <1>0 DEF Links
  <2>2. PICK q : /\ Queued(L, sock[e], p.frame, q)
                 /\ sock'[e].open = q.open /\ sock'[e].up = q.up /\ sock'[e].bcast = q.bcast
                 /\ sock'[e].lagged = q.lagged
                 /\ sock'[e].down = IF e = p.to THEN Append(q.down, Ack(p.batch, p.frame.seq)) ELSE q.down
    BY <1>1 DEF Broadcasted
  <2>3. q.open = sock[e].open /\ Len(q.bcast) <= BroadcastDepth /\ (~ sock[e].open => q = sock[e])
    BY <2>2 DEF Queued
  <2>4. ASSUME ~ sock[e].open PROVE sock'[e] = sock[e]
    <3>1. e # p.to  BY <1>0, <2>4 DEF Senders
    <3>2. sock'[e].down = q.down  BY <2>2, <3>1
    <3>3. sock'[e] \in Sockets(L) /\ sock[e] \in Sockets(L)  BY <1>0, <1>1 DEF RoomShapes
    <3> QED  BY <2>2, <2>3, <2>4, <3>2, <3>3 DEF Sockets
  <2>5. sock'[e].open = sock[e].open /\ Len(sock'[e].bcast) <= BroadcastDepth  BY <2>2, <2>3
  <2> QED  BY <1>2, <2>1, <2>4, <2>5 DEF LinkOf, Landing
<1>6. Senders'
  <2>1. \A e \in Devices : sock'[e].open = sock[e].open
    BY <1>1 DEF Broadcasted, Queued
  <2> QED  BY <1>0, <1>1, <2>1 DEF Senders
<1>7. Links'  BY <1>0, <1>2, <1>5 DEF Links
<1> QED  BY <1>3, <1>4, <1>6, <1>7 DEF Shapes

\* The state a session waits for: applied, and everything pending is pushed.
StateTaken(L, d, f, a, e, r) ==
  /\ f = Head(sock[d].down) /\ f \in StateFrames(L)
  /\ StateApplied(L, d, doc[d], f, a)
  /\ Redoc(L, d, e)
  /\ e.rows = a.rows /\ e.cursor = a.cursor /\ e.written = a.written /\ e.epoch = epoch
  /\ e.clock = a.clock /\ Now(d, e) = Now(d, a)
  /\ DOMAIN e.pending = DOMAIN a.pending
  /\ \A n \in DOMAIN a.pending :
       /\ e.pending[n].batch = a.pending[n].batch
       /\ e.pending[n].ops = a.pending[n].ops
       /\ e.pending[n].flight
  /\ OpsOf(e.pending) = OpsOf(a.pending)
  /\ Resock(L, d, r) /\ r.open = sock[d].open /\ r.lagged = sock[d].lagged
  /\ r.bcast = sock[d].bcast /\ r.down = Tail(sock[d].down)
  /\ ToSet(r.up) = ToSet(sock[d].up) \cup {Push(a.pending[n]) : n \in Waiting(a)}

LEMMA ReceiveStateEffect ==
  ASSUME NEW L, L \subseteq Pairs, RoomShapes(L), DocShapes(L), ClockShapes, NEW d \in Devices,
         NEW now \in Nat, ReceiveState(d, now)
  PROVE  \E f, a, e, r : StateTaken(L, d, f, a, e, r)
<1>0. /\ sock \in [Devices -> Sockets(L)] /\ doc[d] \in Docs(d, L) /\ epoch \in Nat
      /\ sock[d].down # <<>>
  BY DEF RoomShapes, DocShapes, ClockShapes, ReceiveState, Received
<1>1. PICK f : f = Head(sock[d].down)  OBVIOUS
<1>2. f \in StateFrames(L)
  <2>1. f \in DownFrames(L)  BY <1>0, <1>1, RestFacts
  <2>2. f.t = "state"  BY <1>1 DEF ReceiveState, Received
  <2> QED  BY <2>1, <2>2, FrameKinds
<1>3. PICK a : a = ApplyState(d, doc[d], f, now)  OBVIOUS
<1>4. StateApplied(L, d, doc[d], f, a)
  <2>1. PICK dc \in Docs(d, L) : dc = doc[d]  BY <1>0
  <2>2. StateApplied(L, d, dc, f, ApplyState(d, dc, f, now))  BY <1>2, ApplyStateFacts
  <2> QED  BY <1>3, <2>1, <2>2
<1>5. a \in Docs(d, L)  BY <1>4 DEF StateApplied
<1>6. PICK c : c = [a EXCEPT !.epoch = epoch]  OBVIOUS
<1>7. /\ c \in Docs(d, L) /\ c.rows = a.rows /\ c.cursor = a.cursor /\ c.written = a.written
      /\ c.epoch = epoch /\ c.clock = a.clock /\ c.pending = a.pending /\ Now(d, c) = Now(d, a)
  <2>1. a \in DocRecords(L) /\ Named(d, a)  BY <1>5, DocParts
  <2>2. /\ c \in DocRecords(L) /\ c.rows = a.rows /\ c.cursor = a.cursor /\ c.written = a.written
        /\ c.epoch = epoch /\ c.clock = a.clock /\ c.pending = a.pending
    BY <1>0, <1>6, <2>1 DEF DocRecords
  <2>3. Now(d, c) = Now(d, a)  BY <2>2 DEF Now
  <2> QED  BY <2>1, <2>2, <2>3 DEF Docs, Named
<1>8. PushAll(d, c, Rest(d))
  BY <1>1, <1>3, <1>6 DEF ReceiveState
<1>9. Pushed(L, d, c, Rest(d))
  <2>1. Rest(d) \in Sockets(L)  BY <1>0, RestFacts
  <2> QED  BY <1>7, <1>8, <2>1, PushAllEffect
<1>10. PICK e, r :
        /\ Redoc(L, d, e) /\ MarkedAs(L, d, c, TRUE, e)
        /\ Resock(L, d, r) /\ r.open = Rest(d).open /\ r.lagged = Rest(d).lagged
        /\ r.bcast = Rest(d).bcast /\ r.down = Rest(d).down
        /\ ToSet(r.up) = ToSet(Rest(d).up) \cup {Push(c.pending[n]) : n \in Waiting(c)}
  BY <1>9 DEF Pushed
<1>11. /\ r.open = sock[d].open /\ r.lagged = sock[d].lagged
       /\ r.bcast = sock[d].bcast /\ r.down = Tail(sock[d].down)
       /\ ToSet(r.up) = ToSet(sock[d].up) \cup {Push(a.pending[n]) : n \in Waiting(a)}
  <2>1. Waiting(c) = Waiting(a)  BY <1>7 DEF Waiting
  <2>2. /\ Rest(d).open = sock[d].open /\ Rest(d).lagged = sock[d].lagged
        /\ Rest(d).up = sock[d].up /\ Rest(d).bcast = sock[d].bcast
        /\ Rest(d).down = Tail(sock[d].down)
    BY <1>0, RestFacts
  <2> QED  BY <1>7, <1>10, <2>1, <2>2
<1>12. /\ e.rows = c.rows /\ e.cursor = c.cursor /\ e.written = c.written /\ e.epoch = c.epoch
       /\ e.clock = c.clock /\ Now(d, e) = Now(d, c) /\ DOMAIN e.pending = DOMAIN c.pending
       /\ \A n \in DOMAIN c.pending :
            /\ e.pending[n].batch = c.pending[n].batch
            /\ e.pending[n].ops = c.pending[n].ops
            /\ e.pending[n].flight
       /\ OpsOf(e.pending) = OpsOf(c.pending)
  BY <1>10 DEF MarkedAs, SameBut
<1>13. StateTaken(L, d, f, a, e, r)
  BY <1>1, <1>2, <1>4, <1>7, <1>10, <1>11, <1>12 DEF StateTaken
<1> QED  BY <1>13

\* A frame of a joined session, by its kind.
FrameTaken(L, d, f, e, r) ==
  /\ f = Head(sock[d].down) /\ f \in DownFrames(L)
  /\ Redoc(L, d, e)
  /\ \/ f \in RowsFrames(L) /\ e = ApplyRows(doc[d], f)
     \/ f \in Acks /\ AckApplied(L, d, doc[d], f, e)
     \/ f \in StateFrames(L) /\ StateApplied(L, d, doc[d], f, e)
  /\ Resock(L, d, r) /\ r.open = sock[d].open /\ r.lagged = sock[d].lagged /\ r.up = sock[d].up
  /\ r.bcast = sock[d].bcast /\ r.down = Tail(sock[d].down)

LEMMA ReceiveFrameEffect ==
  ASSUME NEW L, L \subseteq Pairs, RoomShapes(L), DocShapes(L), NEW d \in Devices,
         NEW now \in Nat, ReceiveFrame(d, now)
  PROVE  \E f, e, r : FrameTaken(L, d, f, e, r)
<1>0. /\ sock \in [Devices -> Sockets(L)] /\ DOMAIN doc = Devices /\ sock[d].down # <<>>
  BY DEF RoomShapes, DocShapes, ReceiveFrame
<1>1. PICK f : f = Head(sock[d].down)  OBVIOUS
<1>2. f \in DownFrames(L)  BY <1>0, <1>1, RestFacts
<1>3. PICK dc \in Docs(d, L) : dc = doc[d]  BY DEF DocShapes
<1>4. PICK r : r = Rest(d)  OBVIOUS
<1>5. /\ Resock(L, d, r) /\ r.open = sock[d].open /\ r.lagged = sock[d].lagged /\ r.up = sock[d].up
      /\ r.bcast = sock[d].bcast /\ r.down = Tail(sock[d].down)
  <2>1. sock' = [sock EXCEPT ![d] = r]  BY <1>4 DEF ReceiveFrame
  <2> QED  BY <1>0, <1>4, <2>1, RestFacts DEF Resock
<1>6. doc' = [doc EXCEPT ![d] = CASE f.t = "rows"  -> ApplyRows(dc, f)
                                  [] f.t = "ack"   -> AckBatch(dc, f)
                                  [] f.t = "state" -> ApplyState(d, dc, f, now)]
  BY <1>0, <1>1, <1>3 DEF ReceiveFrame
<1>7. CASE f.t = "rows"
  <2>1. PICK e : e = ApplyRows(dc, f)  OBVIOUS
  <2>2. f \in RowsFrames(L)  BY <1>2, <1>7, FrameKinds
  <2>3. e \in Docs(d, L)  BY <2>1, <2>2, ApplyRowsFacts
  <2>4. doc' = [doc EXCEPT ![d] = e]  BY <1>6, <1>7, <2>1
  <2>5. FrameTaken(L, d, f, e, r)
    BY <1>1, <1>2, <1>3, <1>5, <2>1, <2>2, <2>3, <2>4 DEF FrameTaken, Redoc
  <2> QED  BY <2>5
<1>8. CASE f.t = "ack"
  <2>1. PICK e : e = AckBatch(dc, f)  OBVIOUS
  <2>2. f \in Acks  BY <1>2, <1>8, FrameKinds
  <2>3. AckApplied(L, d, dc, f, e)  BY <2>1, <2>2, AckBatchFacts
  <2>4. doc' = [doc EXCEPT ![d] = e]  BY <1>6, <1>8, <2>1
  <2>5. e \in Docs(d, L)  BY <2>3 DEF AckApplied
  <2>6. FrameTaken(L, d, f, e, r)
    BY <1>1, <1>2, <1>3, <1>5, <2>2, <2>3, <2>4, <2>5 DEF FrameTaken, Redoc
  <2> QED  BY <2>6
<1>9. CASE f.t = "state"
  <2>1. PICK e : e = ApplyState(d, dc, f, now)  OBVIOUS
  <2>2. f \in StateFrames(L)  BY <1>2, <1>9, FrameKinds
  <2>3. StateApplied(L, d, dc, f, e)  BY <2>1, <2>2, ApplyStateFacts
  <2>4. doc' = [doc EXCEPT ![d] = e]  BY <1>6, <1>9, <2>1
  <2>5. e \in Docs(d, L)  BY <2>3 DEF StateApplied
  <2>6. FrameTaken(L, d, f, e, r)
    BY <1>1, <1>2, <1>3, <1>5, <2>2, <2>3, <2>4, <2>5 DEF FrameTaken, Redoc
  <2> QED  BY <2>6
<1> QED  BY <1>2, <1>7, <1>8, <1>9, FrameKinds

\* One device's step: the other links stand as they did.
LEMMA LinksButOne ==
  ASSUME Links, NEW d \in Devices, DOMAIN link' = Devices, LinkOf(d)',
         \A e \in Devices : e # d => UNCHANGED <<doc[e], link[e], sock[e]>>
  PROVE  Links'
<1>1. \A e \in Devices : LinkOf(e)'
  <2>1. ASSUME NEW e \in Devices, e # d PROVE LinkOf(e)'
    <3>1. LinkOf(e) /\ UNCHANGED <<doc[e], link[e], sock[e]>>  BY <2>1 DEF Links
    <3> QED  BY <3>1, LinkKept
  <2> QED  BY <2>1
<1> QED  BY <1>1 DEF Links

\* A session goes on: frames are taken, sent, applied.
LEMMA SessionGoesOn ==
  ASSUME NEW L, Shapes(L), NEW d \in Devices, NEW r, Resock(L, d, r),
         r.open = sock[d].open, sock[d].open, r.bcast = sock[d].bcast,
         UNCHANGED <<server, disk, stale, publishing>>,
         DOMAIN link' = Devices, link'[d] \in {"closed", "hello", "ready"}, link'[d] # "closed",
         \A e \in Devices : e # d => UNCHANGED <<doc[e], link[e]>>,
         link'[d] # "ready" => Landing(doc'[d]),
         DocShapes(L)', UNCHANGED <<wall, writes, epoch>>
  PROVE  Shapes(L)'
<1>0. /\ RoomShapes(L) /\ ClockShapes /\ Links /\ Senders /\ sock \in [Devices -> Sockets(L)]
      /\ LinkOf(d)
  BY DEF Shapes, RoomShapes, Links
<1>1. sock'[d] = r /\ \A e \in Devices : e # d => sock'[e] = sock[e]  BY <1>0, ResockFacts
<1>2. RoomShapes(L)'  BY <1>0, RoomResocked
<1>3. LinkOf(d)'
  <2>1. Len(sock[d].bcast) <= BroadcastDepth  BY <1>0 DEF LinkOf
  <2> QED  BY <1>1, <2>1 DEF LinkOf, Landing
<1>4. Links'  BY <1>0, <1>1, <1>3, LinksButOne
<1>5. Senders'  BY <1>0, <1>1 DEF Senders
<1>6. ClockShapes'  BY <1>0, ClocksUnchanged
<1> QED  BY <1>2, <1>4, <1>5, <1>6 DEF Shapes

\* A connection ends on the client's side.
LEMMA SessionEnds ==
  ASSUME NEW L, Shapes(L), NEW d \in Devices, Disconnect(d), link' = [link EXCEPT ![d] = "closed"],
         \A e \in Devices : e # d => doc'[e] = doc[e], Landing(doc'[d]),
         DocShapes(L)', ClockShapes'
  PROVE  Shapes(L)'
<1>0. /\ RoomShapes(L) /\ Links /\ Senders /\ sock \in [Devices -> Sockets(L)]
      /\ LinkOf(d) /\ DOMAIN link = Devices
  BY DEF Shapes, RoomShapes, Links
<1>1. /\ server' = server /\ disk' = disk /\ Resock(L, d, NoSocket)
      /\ stale' \in [Devices -> Seq(Pushes(L))] /\ publishing' \subseteq InHand(L)
      /\ \A p \in publishing' : p.to # d
      /\ \A p \in publishing' : \E q \in publishing : p.to = q.to \/ p.to = NoDevice
  <2>1. /\ server' = server /\ disk' = disk /\ Resock(L, d, NoSocket)
        /\ stale' \in [Devices -> Seq(Pushes(L))] /\ publishing' \subseteq InHand(L)
        /\ \A p \in publishing' : p.to # d
        /\ \A p \in publishing' : \E q \in publishing :
              p.batch = q.batch /\ p.frame = q.frame /\ (p.to = q.to \/ p.to = NoDevice)
    BY <1>0, DisconnectEffect
  <2> QED  BY <2>1
<1>2. /\ sock' \in [Devices -> Sockets(L)]
      /\ sock'[d] = NoSocket /\ \A e \in Devices : e # d => sock'[e] = sock[e]
  BY <1>0, <1>1, ResockFacts
<1>3. RoomShapes(L)'  BY <1>0, <1>1, <1>2 DEF RoomShapes
<1>4. LinkOf(d)'
  <2>1. NoSocket.open = FALSE /\ Len(NoSocket.bcast) = 0  BY DEF NoSocket
  <2>2. BroadcastDepth \in Nat  BY RegistryRoomAssumption
  <2>3. link'[d] = "closed"  BY <1>0
  <2> QED  BY <1>2, <2>1, <2>2, <2>3 DEF LinkOf, Landing
<1>5. DOMAIN link' = Devices /\ \A e \in Devices : e # d => UNCHANGED <<doc[e], link[e], sock[e]>>
  BY <1>0, <1>2
<1>6. Links'  BY <1>0, <1>4, <1>5, LinksButOne
<1>7. Senders'
  <2>1. NoDevice \notin Devices  BY RegistryRoomAssumption
  <2>2. ASSUME NEW p \in publishing', p.to \in Devices PROVE sock'[p.to].open
    <3>1. PICK q \in publishing : p.to = q.to  BY <1>1, <2>1, <2>2
    <3> QED  BY <1>0, <1>1, <1>2, <2>2, <3>1 DEF Senders
  <2> QED  BY <2>2 DEF Senders
<1> QED  BY <1>3, <1>6, <1>7 DEF Shapes

LEMMA DialKeepsShapes ==
  ASSUME NEW L, Shapes(L), NEW d \in Devices, Dial(d)
  PROVE  Shapes(L)'
<1>0. /\ RoomShapes(L) /\ DocShapes(L) /\ ClockShapes /\ Links /\ Senders
      /\ sock \in [Devices -> Sockets(L)] /\ LinkOf(d) /\ DOMAIN link = Devices
      /\ doc[d] \in Docs(d, L)
  BY DEF Shapes, RoomShapes, DocShapes, Links
<1>1. PICK fresh \in BOOLEAN :
        fresh = (doc[d].cursor = 0 /\ doc[d].pending = <<>> /\ ~ doc[d].touched)
  OBVIOUS
<1>2. PICK h : h = Hello(fresh, doc[d].cursor)  OBVIOUS
<1>3. h \in Hellos
  <2>1. doc[d].cursor \in Nat  BY <1>0, DocParts
  <2> QED  BY <1>2, <2>1 DEF Hello, Hellos
<1>4. Connect(d, h)  BY <1>1, <1>2 DEF Dial
<1>5. PICK s : Resock(L, d, s) /\ s.open = TRUE /\ s.bcast = <<>>  BY <1>3, <1>4, ConnectEffect
<1>6. UNCHANGED <<server, disk, stale, publishing>>  BY <1>4 DEF Connect
<1>7. /\ sock'[d] = s /\ \A e \in Devices : e # d => sock'[e] = sock[e]
  BY <1>0, <1>5, ResockFacts
<1>8. link' = [link EXCEPT ![d] = "hello"] /\ link[d] = "closed"
      /\ UNCHANGED <<doc, saved>> /\ UNCHANGED <<wall, writes, epoch>>
  BY DEF Dial, historyVars
<1>9. RoomShapes(L)' /\ DocShapes(L)' /\ ClockShapes'
  BY <1>0, <1>5, <1>6, <1>8, RoomResocked, DocsUnchanged, ClocksUnchanged
<1>10. LinkOf(d)'
  <2>1. Len(<<>>) <= BroadcastDepth  BY RegistryRoomAssumption
  <2>2. link'[d] = "hello" /\ doc'[d] = doc[d] /\ Landing(doc[d])  BY <1>0, <1>8 DEF LinkOf
  <2> QED  BY <1>5, <1>7, <2>1, <2>2 DEF LinkOf, Landing
<1>11. Links'
  <2>1. DOMAIN link' = Devices /\ \A e \in Devices : e # d => UNCHANGED <<doc[e], link[e], sock[e]>>
    BY <1>0, <1>7, <1>8
  <2> QED  BY <1>0, <1>10, <2>1, LinksButOne
<1>12. Senders'  BY <1>0, <1>5, <1>6, <1>7 DEF Senders
<1> QED  BY <1>9, <1>11, <1>12 DEF Shapes

LEMMA SkipFrameKeepsShapes ==
  ASSUME NEW L, Shapes(L), NEW d \in Devices, SkipFrame(d)
  PROVE  Shapes(L)'
<1>0. /\ RoomShapes(L) /\ DocShapes(L) /\ sock \in [Devices -> Sockets(L)] /\ LinkOf(d)
      /\ DOMAIN link = Devices
  BY DEF Shapes, RoomShapes, Links
<1>1. /\ link[d] = "hello" /\ sock[d].down # <<>> /\ sock' = [sock EXCEPT ![d] = Rest(d)]
      /\ UNCHANGED <<server, disk, stale, publishing>> /\ UNCHANGED <<doc, saved, link>>
      /\ UNCHANGED <<wall, writes, epoch>>
  BY DEF SkipFrame, docVars, historyVars
<1>2. PICK r : r = Rest(d)  OBVIOUS
<1>3. Resock(L, d, r) /\ r.open = sock[d].open /\ r.bcast = sock[d].bcast
  BY <1>0, <1>1, <1>2, RestFacts DEF Resock
<1>4. sock[d].open /\ Landing(doc[d])  BY <1>0, <1>1 DEF LinkOf
<1>5. DocShapes(L)'  BY <1>0, <1>1, DocsUnchanged
<1>6. link'[d] = "hello" /\ doc'[d] = doc[d] /\ Landing(doc'[d])  BY <1>1, <1>4
<1> QED  BY <1>0, <1>1, <1>3, <1>4, <1>5, <1>6, SessionGoesOn

LEMMA PushPendingKeepsShapes ==
  ASSUME NEW L, Shapes(L), NEW d \in Devices, PushPending(d)
  PROVE  Shapes(L)'
<1>0. /\ RoomShapes(L) /\ DocShapes(L) /\ sock \in [Devices -> Sockets(L)] /\ LinkOf(d)
      /\ DOMAIN link = Devices /\ DOMAIN doc = Devices /\ doc[d] \in Docs(d, L) /\ sock[d] \in Sockets(L)
  BY DEF Shapes, RoomShapes, DocShapes, Links
<1>1. PushAll(d, doc[d], sock[d])  BY DEF PushPending
<1>2. Pushed(L, d, doc[d], sock[d])  BY <1>0, <1>1, PushAllEffect
<1>3. PICK e, r : /\ Redoc(L, d, e)
                  /\ Resock(L, d, r) /\ r.open = sock[d].open /\ r.bcast = sock[d].bcast
  BY <1>2 DEF Pushed
<1>4. /\ link[d] = "ready" /\ UNCHANGED <<server, disk, stale, publishing>>
      /\ UNCHANGED <<saved, link>> /\ UNCHANGED <<wall, writes, epoch>>
  BY DEF PushPending, historyVars
<1>5. sock[d].open  BY <1>0, <1>4 DEF LinkOf
<1>6. \A x \in Devices : x # d => doc'[x] = doc[x]  BY <1>0, <1>3, RedocFacts
<1>7. DocShapes(L)'  BY <1>0, <1>3, <1>4, DocRedone
<1> QED  BY <1>0, <1>3, <1>4, <1>5, <1>6, <1>7, SessionGoesOn

LEMMA ReceiveStateKeepsShapes ==
  ASSUME NEW L, L \subseteq Pairs, Shapes(L), NEW d \in Devices, NEW now \in Nat, ReceiveState(d, now)
  PROVE  Shapes(L)'
<1>0. /\ RoomShapes(L) /\ DocShapes(L) /\ ClockShapes /\ sock \in [Devices -> Sockets(L)] /\ LinkOf(d)
      /\ DOMAIN link = Devices /\ DOMAIN doc = Devices
  BY DEF Shapes, RoomShapes, DocShapes, Links
<1>1. PICK f, a, e, r : StateTaken(L, d, f, a, e, r)  BY <1>0, ReceiveStateEffect
<1>2. /\ Redoc(L, d, e)
      /\ Resock(L, d, r) /\ r.open = sock[d].open /\ r.bcast = sock[d].bcast
  BY <1>1 DEF StateTaken
<1>3. /\ link[d] = "hello" /\ link' = [link EXCEPT ![d] = "ready"] /\ saved' = saved
      /\ UNCHANGED <<server, disk, stale, publishing>> /\ UNCHANGED <<wall, writes, epoch>>
  BY DEF ReceiveState
<1>4. sock[d].open  BY <1>0, <1>3 DEF LinkOf
<1>5. \A x \in Devices : x # d => UNCHANGED <<doc[x], link[x]>>  BY <1>0, <1>2, <1>3, RedocFacts
<1>6. DocShapes(L)'  BY <1>0, <1>2, <1>3, DocRedone
<1>7. DOMAIN link' = Devices /\ link'[d] = "ready"  BY <1>0, <1>3
<1> QED  BY <1>2, <1>3, <1>4, <1>5, <1>6, <1>7, SessionGoesOn

LEMMA ReceiveFrameKeepsShapes ==
  ASSUME NEW L, L \subseteq Pairs, Shapes(L), NEW d \in Devices, NEW now \in Nat, ReceiveFrame(d, now)
  PROVE  Shapes(L)'
<1>0. /\ RoomShapes(L) /\ DocShapes(L) /\ sock \in [Devices -> Sockets(L)] /\ LinkOf(d)
      /\ DOMAIN link = Devices /\ DOMAIN doc = Devices
  BY DEF Shapes, RoomShapes, DocShapes, Links
<1>1. PICK f, e, r : FrameTaken(L, d, f, e, r)  BY <1>0, ReceiveFrameEffect
<1>2. /\ Redoc(L, d, e)
      /\ Resock(L, d, r) /\ r.open = sock[d].open /\ r.bcast = sock[d].bcast
  BY <1>1 DEF FrameTaken
<1>3. /\ link[d] = "ready" /\ UNCHANGED <<saved, link>>
      /\ UNCHANGED <<server, disk, stale, publishing>> /\ UNCHANGED <<wall, writes, epoch>>
  BY DEF ReceiveFrame, historyVars
<1>4. sock[d].open  BY <1>0, <1>3 DEF LinkOf
<1>5. \A x \in Devices : x # d => UNCHANGED <<doc[x], link[x]>>  BY <1>0, <1>2, <1>3, RedocFacts
<1>6. DocShapes(L)'  BY <1>0, <1>2, <1>3, DocRedone
<1> QED  BY <1>0, <1>2, <1>3, <1>4, <1>5, <1>6, SessionGoesOn

LEMMA ReadingsAreNat ==
  ASSUME ClockShapes, NEW d \in Devices, NEW now \in Readings(d)
  PROVE  now \in Nat /\ now >= wall[d]
<1>1. wall[d] \in Nat /\ MaxMs \in Nat  BY RegistrySyncAssumption DEF ClockShapes
<1>2. Greater(wall[d], MaxMs) \in Nat  BY <1>1 DEF Greater
<1> QED  BY <1>1, <1>2 DEF Readings

\* What a session leaves of its replica.
LEMMA EndSessionFacts ==
  ASSUME NEW L, DocShapes(L), NEW d \in Devices, EndSession(d)
  PROVE  /\ link' = [link EXCEPT ![d] = "closed"]
         /\ Redoc(L, d, Landed(doc[d])) /\ Landing(Landed(doc[d]))
<1>1. doc[d] \in Docs(d, L)  BY DEF DocShapes
<1>2. Landed(doc[d]) \in Docs(d, L) /\ Landing(Landed(doc[d]))  BY <1>1, LandedFacts
<1>3. doc' = [doc EXCEPT ![d] = Landed(doc[d])]
  <2>1. doc' = [doc EXCEPT ![d] = Landed(@)]  BY DEF EndSession
  <2> QED  BY <2>1 DEF DocShapes
<1> QED  BY <1>2, <1>3 DEF EndSession, Redoc

LEMMA CutKeepsShapes ==
  ASSUME NEW L, Shapes(L), NEW d \in Devices, Cut(d)
  PROVE  Shapes(L)'
<1>0. DocShapes(L) /\ ClockShapes /\ DOMAIN doc = Devices  BY DEF Shapes, DocShapes
<1>1. EndSession(d) /\ Disconnect(d) /\ saved' = saved /\ UNCHANGED <<wall, writes, epoch>>
  BY DEF Cut
<1>2. PICK e : e = Landed(doc[d])  OBVIOUS
<1>3. link' = [link EXCEPT ![d] = "closed"] /\ Redoc(L, d, e) /\ Landing(e)
  BY <1>0, <1>1, <1>2, EndSessionFacts
<1>4. doc'[d] = e /\ \A x \in Devices : x # d => doc'[x] = doc[x]  BY <1>0, <1>3, RedocFacts
<1>5. DocShapes(L)'  BY <1>0, <1>1, <1>3, DocRedone
<1>6. ClockShapes'  BY <1>0, <1>1, ClocksUnchanged
<1> QED  BY <1>1, <1>3, <1>4, <1>5, <1>6, SessionEnds

\* The snapshot that is taken: the queue is compacted first.
Snapshot(L, d, c, k) ==
  /\ CompactedTo(L, d, doc[d], c) /\ Redoc(L, d, c)
  /\ k = Kept(c) /\ k \in Docs(d, L) /\ Landing(k) /\ SameBut(c, k)
  /\ k.clock = c.clock /\ k.pending = Landed(c).pending
  /\ saved' = [saved EXCEPT ![d] = [doc |-> k, owing |-> Owing(d) \/ d \in torn]]

LEMMA SaveSnapshotEffect ==
  ASSUME NEW L, L \subseteq Pairs, DocShapes(L), NEW d \in Devices, NEW now \in Nat, SaveSnapshot(d, now)
  PROVE  \E c, k : Snapshot(L, d, c, k)
<1>1. PICK dc \in Docs(d, L) : dc = doc[d]  BY DEF DocShapes
<1>2. PICK c : c = Compacted(d, dc, now)  OBVIOUS
<1>3. CompactedTo(L, d, dc, c)  BY <1>2, CompactedFacts
<1>4. c \in Docs(d, L)  BY <1>3 DEF CompactedTo
<1>5. PICK k : k = Kept(c)  OBVIOUS
<1>6. /\ k \in Docs(d, L) /\ Landing(k) /\ SameBut(c, k) /\ k.clock = c.clock
      /\ k.pending = Landed(c).pending
  BY <1>4, <1>5, LandedFacts
<1>7. doc' = [doc EXCEPT ![d] = c]
      /\ saved' = [saved EXCEPT ![d] = [doc |-> k, owing |-> Owing(d) \/ d \in torn]]
  BY <1>1, <1>2, <1>5 DEF SaveSnapshot
<1>8. Snapshot(L, d, c, k)  BY <1>1, <1>3, <1>4, <1>5, <1>6, <1>7 DEF Snapshot, Redoc
<1> QED  BY <1>8

LEMMA SaveSnapshotKeepsShapes ==
  ASSUME NEW L, L \subseteq Pairs, Shapes(L), NEW d \in Devices, NEW now \in Nat, SaveSnapshot(d, now)
  PROVE  Shapes(L)'
<1>0. /\ RoomShapes(L) /\ DocShapes(L) /\ ClockShapes /\ Links /\ Senders /\ LinkOf(d)
      /\ DOMAIN doc = Devices /\ DOMAIN link = Devices
  BY DEF Shapes, DocShapes, Links
<1>1. PICK c, k : Snapshot(L, d, c, k)  BY <1>0, SaveSnapshotEffect
<1>2. /\ CompactedTo(L, d, doc[d], c) /\ Redoc(L, d, c) /\ k \in Docs(d, L) /\ Landing(k)
      /\ saved' = [saved EXCEPT ![d] = [doc |-> k, owing |-> Owing(d) \/ d \in torn]]
  BY <1>1 DEF Snapshot
<1>3. UNCHANGED <<roomVars, link, historyVars>>  BY DEF SaveSnapshot
<1>4. UNCHANGED <<server, disk, sock, stale, publishing, link, wall, writes, epoch>>
  BY <1>3 DEF roomVars, historyVars
<1>5. /\ DOMAIN doc' = Devices /\ doc'[d] = c /\ \A x \in Devices : x # d => doc'[x] = doc[x]
  BY <1>0, <1>2, RedocFacts
<1>6. c \in Docs(d, L) /\ (Landing(doc[d]) => Landing(c))  BY <1>2 DEF CompactedTo
<1>7. DocShapes(L)'
  <2>1. PICK o \in BOOLEAN : o = (Owing(d) \/ d \in torn)  BY DEF Owing
  <2>2. saved' = [saved EXCEPT ![d] = [doc |-> k, owing |-> o]]  BY <1>2, <2>1
  <2>3. [doc |-> k, owing |-> o] \in SavedDocs(d, L)  BY <1>2 DEF SavedDocs
  <2>4. DOMAIN saved' = Devices /\ \A x \in Devices : saved'[x] \in SavedDocs(x, L)
    BY <1>0, <2>2, <2>3 DEF DocShapes
  <2>5. \A x \in Devices : doc'[x] \in Docs(x, L)  BY <1>0, <1>5, <1>6 DEF DocShapes
  <2> QED  BY <1>5, <2>4, <2>5 DEF DocShapes
<1>8. Links'
  <2>1. LinkOf(d)'  BY <1>0, <1>4, <1>5, <1>6 DEF LinkOf
  <2>2. DOMAIN link' = Devices /\ \A x \in Devices : x # d => UNCHANGED <<doc[x], link[x], sock[x]>>
    BY <1>0, <1>4, <1>5
  <2> QED  BY <1>0, <2>1, <2>2, LinksButOne
<1>9. RoomShapes(L)' /\ ClockShapes' /\ Senders'
  BY <1>0, <1>4 DEF RoomShapes, ClockShapes, Senders
<1> QED  BY <1>7, <1>8, <1>9 DEF Shapes

\* The replica that a process starts with.
Restored(L, d, c, k) ==
  /\ CompactedTo(L, d, saved[d].doc, c) /\ Redoc(L, d, c)
  /\ k = Kept(c) /\ k \in Docs(d, L) /\ Landing(k) /\ SameBut(c, k)
  /\ k.clock = c.clock /\ k.pending = Landed(c).pending
  /\ saved' = [saved EXCEPT ![d].doc = k]
  /\ Landing(c)

LEMMA CrashEffect ==
  ASSUME NEW L, L \subseteq Pairs, DocShapes(L), NEW d \in Devices, NEW now \in Nat, Crash(d, now)
  PROVE  \E c, k : Restored(L, d, c, k)
<1>1. saved[d] \in SavedDocs(d, L)  BY DEF DocShapes
<1>2. PICK dc \in Docs(d, L) : dc = saved[d].doc /\ Landing(dc)  BY <1>1 DEF SavedDocs
<1>3. PICK c : c = Compacted(d, dc, now)  OBVIOUS
<1>4. CompactedTo(L, d, dc, c)  BY <1>3, CompactedFacts
<1>5. c \in Docs(d, L) /\ Landing(c)  BY <1>2, <1>4 DEF CompactedTo
<1>6. PICK k : k = Kept(c)  OBVIOUS
<1>7. /\ k \in Docs(d, L) /\ Landing(k) /\ SameBut(c, k) /\ k.clock = c.clock
      /\ k.pending = Landed(c).pending
  BY <1>5, <1>6, LandedFacts
<1>8. doc' = [doc EXCEPT ![d] = c] /\ saved' = [saved EXCEPT ![d].doc = k]
  BY <1>2, <1>3, <1>6 DEF Crash
<1>9. Restored(L, d, c, k)  BY <1>2, <1>4, <1>5, <1>6, <1>7, <1>8 DEF Restored, Redoc
<1> QED  BY <1>9

LEMMA CrashKeepsShapes ==
  ASSUME NEW L, L \subseteq Pairs, Shapes(L), NEW d \in Devices, NEW now \in Nat, Crash(d, now)
  PROVE  Shapes(L)'
<1>0. DocShapes(L) /\ ClockShapes /\ DOMAIN doc = Devices /\ DOMAIN saved = Devices
      /\ doc[d] \in Docs(d, L)
  BY DEF Shapes, DocShapes
<1>1. PICK c, k : Restored(L, d, c, k)  BY <1>0, CrashEffect
<1>2. /\ Redoc(L, d, c) /\ Landing(c) /\ k \in Docs(d, L) /\ Landing(k)
      /\ saved' = [saved EXCEPT ![d].doc = k]
  BY <1>1 DEF Restored
<1>3. /\ DOMAIN doc' = Devices /\ doc'[d] = c /\ \A x \in Devices : x # d => doc'[x] = doc[x]
  BY <1>0, <1>2, RedocFacts
<1>4. DocShapes(L)'
  <2>1. saved[d] \in [doc : Docs(d, L), owing : BOOLEAN]  BY <1>0 DEF DocShapes, SavedDocs
  <2>2. [saved[d] EXCEPT !.doc = k] \in SavedDocs(d, L)  BY <1>2, <2>1 DEF SavedDocs
  <2>3. \A x \in Devices : saved'[x] = IF x = d THEN [saved[d] EXCEPT !.doc = k] ELSE saved[x]
    BY <1>0, <1>2
  <2>4. DOMAIN saved' = Devices  BY <1>0, <1>2
  <2>5. \A x \in Devices : saved'[x] \in SavedDocs(x, L)  BY <1>0, <2>2, <2>3 DEF DocShapes
  <2>6. \A x \in Devices : doc'[x] \in Docs(x, L)  BY <1>0, <1>2, <1>3 DEF DocShapes, Redoc
  <2> QED  BY <1>3, <2>4, <2>5, <2>6 DEF DocShapes
<1>5. ClockShapes'
  <2>1. doc[d].clock.ms \in Nat  BY <1>0, DocParts DEF Clocks
  <2>2. wall[d] \in Nat /\ wall \in [Devices -> Nat]  BY <1>0 DEF ClockShapes
  <2>3. PICK w \in Nat :
          w = IF "regress" \in FaultKinds THEN wall[d] ELSE Greater(wall[d], doc[d].clock.ms + 1)
    BY <2>1, <2>2 DEF Greater
  <2>4. wall' = [wall EXCEPT ![d] = w]  BY <2>2, <2>3 DEF Crash
  <2>5. UNCHANGED <<writes, epoch>>  BY DEF Crash
  <2> QED  BY <1>0, <2>2, <2>4, <2>5 DEF ClockShapes
<1>6. Disconnect(d) /\ link' = [link EXCEPT ![d] = "closed"]  BY DEF Crash
<1> QED  BY <1>2, <1>3, <1>4, <1>5, <1>6, SessionEnds

LEMMA RestartKeepsShapes ==
  ASSUME NEW L, Shapes(L), NEW kind, Restart(kind)
  PROVE  Shapes(L)'
<1>0. RoomShapes(L) /\ DocShapes(L) /\ ClockShapes  BY DEF Shapes
<1>1. PICK table : table = IF kind = "wipe" THEN EmptyTable ELSE disk  OBVIOUS
<1>2. table \in Tables(L)
  <2>1. EmptyTable \in Tables(L)
    <3>1. [i \in Ids |-> Missing] \in [Ids -> Rows(L)]  BY MissingIsARow
    <3>2. Missing.seq = 0  BY DEF Missing
    <3> QED  BY <3>1, <3>2 DEF EmptyTable, Tables
  <2> QED  BY <1>0, <1>1, <2>1 DEF RoomShapes
<1>3. /\ server' = table /\ disk' = table /\ sock' = [d \in Devices |-> NoSocket]
      /\ stale' = [d \in Devices |-> <<>>] /\ publishing' = {}
  BY <1>1 DEF Restart, Reload
<1>4. /\ link' = [d \in Devices |-> "closed"] /\ doc' = [d \in Devices |-> Landed(doc[d])]
      /\ UNCHANGED <<saved, wall, writes>> /\ (epoch' = epoch \/ epoch' = epoch + 1)
  BY DEF Restart
<1>5. RoomShapes(L)'
  <2>1. NoSocket \in Sockets(L) /\ <<>> \in Seq(Pushes(L))  BY NoSocketShape
  <2>2. table.seq <= table.seq  BY <1>2 DEF Tables
  <2> QED  BY <1>2, <1>3, <2>1, <2>2 DEF RoomShapes
<1>6. \A d \in Devices : doc'[d] \in Docs(d, L) /\ Landing(doc'[d])
  <2>1. ASSUME NEW d \in Devices PROVE Landed(doc[d]) \in Docs(d, L) /\ Landing(Landed(doc[d]))
    <3>1. doc[d] \in Docs(d, L)  BY <1>0 DEF DocShapes
    <3> QED  BY <3>1, LandedFacts
  <2> QED  BY <1>4, <2>1
<1>7. DocShapes(L)'  BY <1>0, <1>4, <1>6 DEF DocShapes
<1>8. ClockShapes'  BY <1>0, <1>4 DEF ClockShapes
<1>9. Links'
  <2>1. NoSocket.open = FALSE /\ Len(NoSocket.bcast) = 0  BY DEF NoSocket
  <2>2. BroadcastDepth \in Nat  BY RegistryRoomAssumption
  <2>3. \A d \in Devices : link'[d] = "closed" /\ sock'[d] = NoSocket  BY <1>3, <1>4
  <2>4. \A d \in Devices : LinkOf(d)'  BY <1>6, <2>1, <2>2, <2>3 DEF LinkOf
  <2>5. DOMAIN link' = Devices  BY <1>4
  <2> QED  BY <2>4, <2>5 DEF Links
<1>10. Senders'  BY <1>3 DEF Senders
<1> QED  BY <1>5, <1>7, <1>8, <1>9, <1>10 DEF Shapes

\* The pair a local write adds.
PairOf(d, now, kind) == <<StampOf(d, now), IF kind = "clear" THEN 0 ELSE NameOf(d)>>

LEMMA LocalWriteKeepsShapes ==
  ASSUME NEW L, L \subseteq Pairs, Shapes(L), NEW d \in Devices, NEW now \in Nat, NEW kind \in Kinds,
         NEW ids \in (SUBSET Ids) \ {{}}, NEW F \in (SUBSET Fields) \ {{}},
         LocalWrite(d, now, kind, ids, F), PairOf(d, now, kind) \in L
  PROVE  Shapes(L)'
<1>0. /\ RoomShapes(L) /\ DocShapes(L) /\ ClockShapes /\ Links /\ Senders /\ LinkOf(d)
      /\ doc[d] \in Docs(d, L) /\ DOMAIN doc = Devices /\ DOMAIN link = Devices /\ writes[d] \in Nat
  BY DEF Shapes, DocShapes, Links, ClockShapes
<1>1. PICK e, b : Written(L, d, now, e, b)  BY <1>0, LocalWriteEffect DEF PairOf
<1>2. /\ Redoc(L, d, e) /\ e.pending = Append(doc[d].pending, b)
      /\ b \in Batches(L) /\ b.flight = FALSE
  BY <1>1 DEF Written
<1>3. UNCHANGED <<roomVars, saved, link, wall, epoch>> /\ writes' = [writes EXCEPT ![d] = @ + 1]
  BY DEF LocalWrite
<1>4. UNCHANGED <<server, disk, sock, stale, publishing>>  BY <1>3 DEF roomVars
<1>5. doc'[d] = e /\ \A x \in Devices : x # d => doc'[x] = doc[x]  BY <1>0, <1>2, RedocFacts
<1>6. DocShapes(L)'  BY <1>0, <1>2, <1>3, DocRedone
<1>7. ClockShapes'  BY <1>0, <1>3 DEF ClockShapes
<1>8. RoomShapes(L)' /\ Senders'  BY <1>0, <1>4 DEF RoomShapes, Senders
<1>9. Landing(doc[d]) => Landing(e)
  <2>1. PICK p \in Seq(Batches(L)) : p = doc[d].pending  BY <1>0, DocParts
  <2>2. PICK q : q = e.pending  OBVIOUS
  <2>3. /\ DOMAIN q = 1 .. Len(p) + 1 /\ DOMAIN p = 1 .. Len(p) /\ Len(p) \in Nat
        /\ q[Len(p) + 1] = b /\ \A n \in 1 .. Len(p) : q[n] = p[n]
    BY <1>2, <2>1, <2>2
  <2> QED  BY <1>2, <2>1, <2>2, <2>3 DEF Landing
<1>10. LinkOf(d)'  BY <1>0, <1>3, <1>4, <1>5, <1>9 DEF LinkOf
<1>11. Links'
  <2>1. DOMAIN link' = Devices /\ \A x \in Devices : x # d => UNCHANGED <<doc[x], link[x], sock[x]>>
    BY <1>0, <1>3, <1>4, <1>5
  <2> QED  BY <1>0, <1>10, <2>1, LinksButOne
<1> QED  BY <1>6, <1>7, <1>8, <1>11 DEF Shapes

\* What a step is, with the reading of the clock it may need.
Writing ==
  \E d \in Devices : \E now \in Readings(d) : \E kind \in Kinds :
    \E ids \in (SUBSET Ids) \ {{}}, F \in (SUBSET Fields) \ {{}} : LocalWrite(d, now, kind, ids, F)

\* Nothing an invariant speaks of changes, as when a host fills its slot.
AtRest ==
  UNCHANGED <<server, disk, sock, stale, publishing, doc, saved, link, wall, writes, torn, overtaken, epoch>>

Resting == UNCHANGED vars \/ \E d \in Devices : FillSlot(d)

LEMMA RestingIsRest ==
  ASSUME Resting
  PROVE  AtRest
<1>1. CASE UNCHANGED vars  BY <1>1 DEF AtRest, vars, roomVars, docVars, historyVars
<1>2. ASSUME NEW d \in Devices, FillSlot(d) PROVE AtRest
  <2>1. UNCHANGED <<roomVars, doc, saved, link, historyVars>>  BY <1>2 DEF FillSlot
  <2> QED  BY <2>1 DEF AtRest, roomVars, historyVars
<1> QED  BY <1>1, <1>2 DEF Resting

LEMMA RestKeepsShapes ==
  ASSUME NEW L, Shapes(L), AtRest
  PROVE  Shapes(L)'
BY DEF Shapes, RoomShapes, DocShapes, ClockShapes, Links, LinkOf, Senders, AtRest

LEMMA QuietStepKeepsShapes ==
  ASSUME NEW L, L \subseteq Pairs, Shapes(L), Next, ~ Writing
  PROVE  Shapes(L)'
<1>0. ClockShapes  BY DEF Shapes
<1>1. ASSUME NEW d \in Devices, Serve(d) \/ Dial(d) \/ SkipFrame(d) \/ PushPending(d) \/ Cut(d)
      PROVE  Shapes(L)'
  BY <1>1, ServeKeepsShapes, DialKeepsShapes, SkipFrameKeepsShapes, PushPendingKeepsShapes, CutKeepsShapes
<1>2. ASSUME NEW p \in publishing, Publish(p) PROVE Shapes(L)'  BY <1>2, PublishKeepsShapes
<1>3. ASSUME NEW d \in Devices, NEW now \in Readings(d),
             \/ ReceiveState(d, now) \/ ReceiveFrame(d, now)
             \/ SaveSnapshot(d, now) \/ Crash(d, now)
      PROVE  Shapes(L)'
  <2>1. now \in Nat  BY <1>0, ReadingsAreNat
  <2> QED
    BY <1>3, <2>1, ReceiveStateKeepsShapes, ReceiveFrameKeepsShapes, SaveSnapshotKeepsShapes, CrashKeepsShapes
<1>4. ASSUME NEW kind \in {"restart", "wipe"}, Restart(kind) PROVE Shapes(L)'
  BY <1>4, RestartKeepsShapes
<1>5. ASSUME NEW d \in Devices, FillSlot(d) PROVE Shapes(L)'
  BY <1>5, RestingIsRest, RestKeepsShapes DEF Resting
<1> QED  BY <1>1, <1>2, <1>3, <1>4, <1>5 DEF Next, Writing

LEMMA StampIsAClock ==
  ASSUME NEW L, DocShapes(L), ClockShapes, NEW d \in Devices, NEW now \in Nat, NEW kind
  PROVE  PairOf(d, now, kind) \in Pairs
<1>1. doc[d] \in Docs(d, L) /\ writes[d] \in Nat  BY DEF DocShapes, ClockShapes
<1>2. StampOf(d, now) \in Nat \ {0}
  <2>1. Now(d, Tick(doc[d], now)) > Now(d, doc[d]) /\ Now(d, doc[d]) \in Nat
        /\ Now(d, Tick(doc[d], now)) \in Nat
    BY <1>1, TickFacts
  <2> QED  BY <2>1 DEF StampOf
<1>3. NameOf(d) \in Nat
  <2>1. Rank[d] \in Nat /\ Ranks \in Nat  BY RegistrySyncAssumption, RegistryRowAssumption
  <2>2. writes[d] * Ranks \in Nat  BY <1>1, <2>1
  <2> QED  BY <2>1, <2>2 DEF NameOf
<1>4. (IF kind = "clear" THEN 0 ELSE NameOf(d)) \in Nat  BY <1>3
<1> QED  BY <1>2, <1>4 DEF PairOf, Pairs

LEMMA TableOfTables ==
  ASSUME NEW L, NEW t \in Tables(L)
  PROVE  Table(t)
<1>1. t.rows \in [Ids -> Rows(L)] /\ t.seq \in Nat /\ \A i \in Ids : t.rows[i].seq <= t.seq
  BY DEF Tables
<1>2. \A row \in Rows(L) : row \in Row  BY DEF Rows
<1> QED  BY <1>1, <1>2 DEF Table

LEMMA ShapesHaveTypes ==
  ASSUME NEW L, Shapes(L)
  PROVE  TypeOK
<1>1. Table(server) /\ Table(disk)  BY TableOfTables DEF Shapes, RoomShapes
<1>2. ASSUME NEW d \in Devices
      PROVE  /\ doc[d].rows \in [Ids -> Row]
             /\ doc[d].cursor \in Nat
             /\ \A m, n \in DOMAIN doc[d].pending :
                  doc[d].pending[m].batch = doc[d].pending[n].batch => m = n
             /\ (\E n \in DOMAIN doc[d].pending : doc[d].pending[n].flight) => link[d] = "ready"
             /\ link[d] # "closed" <=> sock[d].open
             /\ Len(sock[d].bcast) <= BroadcastDepth
  <2>1. doc[d] \in Docs(d, L) /\ LinkOf(d)  BY DEF Shapes, DocShapes, Links
  <2>2. doc[d].rows \in [Ids -> Rows(L)] /\ doc[d].cursor \in Nat /\ Named(d, doc[d])
    BY <2>1, DocParts
  <2>3. \A row \in Rows(L) : row \in Row  BY DEF Rows
  <2>4. doc[d].rows \in [Ids -> Row]  BY <2>2, <2>3
  <2>5. (\E n \in DOMAIN doc[d].pending : doc[d].pending[n].flight) => link[d] = "ready"
    BY <2>1 DEF LinkOf, Landing
  <2>6. \A m, n \in DOMAIN doc[d].pending :
          doc[d].pending[m].batch = doc[d].pending[n].batch => m = n
    BY <2>2 DEF Named
  <2> QED  BY <2>1, <2>2, <2>4, <2>5, <2>6 DEF LinkOf
<1> QED  BY <1>1, <1>2 DEF TypeOK

LEMMA ShapesAlways ==
  Spec => []Shapes(Pairs)
<1>1. Init => Shapes(Pairs)  BY ShapesStart
<1>2. Shapes(Pairs) /\ [Next]_vars => Shapes(Pairs)'
  <2> SUFFICES ASSUME Shapes(Pairs), [Next]_vars PROVE Shapes(Pairs)'  OBVIOUS
  <2>1. CASE UNCHANGED vars  BY <2>1, RestingIsRest, RestKeepsShapes DEF Resting
  <2>2. CASE Next /\ ~ Writing  BY <2>2, QuietStepKeepsShapes
  <2>3. CASE Writing
    <3>1. PICK d \in Devices : \E now \in Readings(d) : \E kind \in Kinds :
            \E ids \in (SUBSET Ids) \ {{}} : \E F \in (SUBSET Fields) \ {{}} :
              LocalWrite(d, now, kind, ids, F)
      BY <2>3 DEF Writing
    <3>2. PICK now \in Readings(d) : \E kind \in Kinds :
            \E ids \in (SUBSET Ids) \ {{}} : \E F \in (SUBSET Fields) \ {{}} :
              LocalWrite(d, now, kind, ids, F)
      BY <3>1
    <3>3. DocShapes(Pairs) /\ ClockShapes  BY DEF Shapes
    <3>4. now \in Nat  BY <3>3, ReadingsAreNat
    <3>5. \A kind : PairOf(d, now, kind) \in Pairs  BY <3>3, <3>4, StampIsAClock
    <3> QED  BY <3>2, <3>4, <3>5, LocalWriteKeepsShapes
  <2> QED  BY <2>1, <2>2, <2>3
<1> QED  BY <1>1, <1>2, PTL DEF Spec

\* The parts of the state are what they should be: the tables hold rows stamped no later
\* than the table, a replica's batches have names of their own, a batch is in flight only
\* on a joined connection, a session has a socket, and a channel holds no more frames
\* than its depth.
THEOREM TypeCorrect == Spec => []TypeOK
<1>1. Shapes(Pairs) => TypeOK  BY ShapesHaveTypes
<1> QED  BY <1>1, ShapesAlways, PTL

-----------------------------------------------------------------------------
(* The copies of the server's rows *)

\* A row as old as the server's, or older.
Older(row, own) ==
  /\ row.seq <= own.seq
  /\ row.seq = own.seq => row = own
  /\ row.del <= own.del

OlderRow(i, row) == Older(row, server.rows[i])

SocketFrames(s) == ToSet(s.down) \cup ToSet(s.bcast)

Frames == (UNION {SocketFrames(sock[d]) : d \in Devices}) \cup {p.frame : p \in publishing}

OlderFrame(f) == f.t # "ack" => \A i \in DOMAIN f.rows : OlderRow(i, f.rows[i])

\* A row that was never written has no stamp, and no other row has none.
AbsentIsMissing ==
  \A i \in Ids : server.rows[i].seq = 0 \/ server.rows[i].state = "missing" => server.rows[i] = Missing

\* Every copy of a row, wherever it is, is a row the server has or had, and no frame and no
\* cursor is ahead of the table.
CopiesAreOlder ==
  epoch = 0 =>
    /\ AbsentIsMissing
    /\ \A d \in Devices, i \in Ids : OlderRow(i, doc[d].rows[i]) /\ OlderRow(i, saved[d].doc.rows[i])
    /\ \A d \in Devices : doc[d].cursor <= server.seq /\ saved[d].doc.cursor <= server.seq
    /\ \A f \in Frames : OlderFrame(f) /\ f.seq <= server.seq

\* What a step puts on the wire is an answer without rows, or has the server's rows.
FreshFrame(f) ==
  /\ f.seq <= server'.seq \/ \E g \in Frames : f.seq = g.seq
  /\ f.t = "ack" \/ \A i \in DOMAIN f.rows : i \in Ids /\ f.rows[i] = server'.rows[i]

FramesCome == \A f \in Frames' : f \in Frames \/ FreshFrame(f)

\* What a step makes a replica hold it held before, or had in a frame.
RowComes(d, i, row) ==
  \/ row \in {doc[d].rows[i], saved[d].doc.rows[i], Missing}
  \/ \E f \in Frames : f.t # "ack" /\ i \in DOMAIN f.rows /\ f.rows[i] = row

CursorComes(d, cursor) ==
  cursor \in {doc[d].cursor, saved[d].doc.cursor} \/ \E f \in Frames : f.seq = cursor

RowsCome ==
  \A d \in Devices :
    /\ CursorComes(d, doc'[d].cursor) /\ CursorComes(d, saved'[d].doc.cursor)
    /\ \A i \in Ids : RowComes(d, i, doc'[d].rows[i]) /\ RowComes(d, i, saved'[d].doc.rows[i])

\* What a step does to the table.
TableMoves(L) ==
  \/ server' = server
  \/ \E ops \in Seq(Ops(L)) : Merged(L, ops)
  \/ epoch' # 0

LEMMA FramesOnResock ==
  ASSUME NEW L, sock \in [Devices -> Sockets(L)], NEW d \in Devices, NEW s, Resock(L, d, s),
         \A p \in publishing' : p.frame \in Frames \/ FreshFrame(p.frame),
         \A f \in SocketFrames(s) : f \in Frames \/ FreshFrame(f)
  PROVE  FramesCome
<1>1. sock'[d] = s /\ \A e \in Devices : e # d => sock'[e] = sock[e]  BY ResockFacts
<1>2. ASSUME NEW f \in Frames' PROVE f \in Frames \/ FreshFrame(f)
  <2>1. CASE \E p \in publishing' : f = p.frame  BY <2>1
  <2>2. CASE \E e \in Devices : f \in SocketFrames(sock'[e])
    <3>1. PICK e \in Devices : f \in SocketFrames(sock'[e])  BY <2>2
    <3>2. CASE e = d  BY <1>1, <3>1, <3>2
    <3>3. CASE e # d
      <4>1. f \in SocketFrames(sock[e])  BY <1>1, <3>1, <3>3
      <4> QED  BY <4>1 DEF Frames
    <3> QED  BY <3>2, <3>3
  <2> QED  BY <1>2, <2>1, <2>2 DEF Frames, SocketFrames
<1> QED  BY <1>2 DEF FramesCome

LEMMA FramesOfASocket ==
  ASSUME NEW d \in Devices, NEW f, f \in ToSet(sock[d].down) \/ f \in ToSet(sock[d].bcast)
  PROVE  f \in Frames
BY DEF Frames, SocketFrames

LEMMA FramesInHand ==
  ASSUME NEW p \in publishing
  PROVE  p.frame \in Frames
BY DEF Frames

\* The rows of a batch, and of a whole table, are the server's.
LEMMA MergedFrameIsFresh ==
  ASSUME NEW L, server \in Tables(L), NEW ops \in Seq(Ops(L)), Merged(L, ops)
  PROVE  FreshFrame(RowsFrame(server.seq + 1, Touched(ops)))
<1>1. PICK m \in PartRows(L) : m = Touched(ops)  BY TouchedFacts
<1>2. \A i \in DOMAIN m : i \in Ids /\ server'.rows[i] = m[i]  BY <1>1, PartParts DEF Merged
<1>3. PICK x : x = RowsFrame(server.seq + 1, m)  OBVIOUS
<1>4. x.rows = m /\ x.seq = server.seq + 1  BY <1>3 DEF RowsFrame
<1>5. x.seq <= server'.seq  BY <1>4 DEF Merged, Tables
<1> QED  BY <1>1, <1>2, <1>3, <1>4, <1>5 DEF FreshFrame

LEMMA StateFrameIsFresh ==
  ASSUME NEW L, server \in Tables(L), server' = server, NEW fresh \in BOOLEAN, NEW cursor \in Nat
  PROVE  FreshFrame(StateFrame(fresh, cursor))
<1>1. \A i \in DOMAIN StateFrame(fresh, cursor).rows :
        i \in Ids /\ StateFrame(fresh, cursor).rows[i] = server.rows[i]
  BY StateFrameFacts
<1>2. StateFrame(fresh, cursor).seq = server.seq /\ server.seq \in Nat  BY StateFrameFacts DEF Tables
<1> QED  BY <1>1, <1>2 DEF FreshFrame

LEMMA AckIsFresh ==
  ASSUME NEW batch, NEW seq, seq <= server'.seq \/ \E g \in Frames : seq = g.seq
  PROVE  FreshFrame(Ack(batch, seq))
BY DEF FreshFrame, Ack

LEMMA ServeBringsFrames ==
  ASSUME NEW L, Shapes(L), NEW d \in Devices, Serve(d)
  PROVE  FramesCome /\ TableMoves(L) /\ UNCHANGED <<doc, saved, epoch>>
<1>0. /\ RoomShapes(L) /\ server \in Tables(L) /\ sock \in [Devices -> Sockets(L)]
      /\ sock[d].bcast \in Seq(RowsFrames(L)) /\ sock[d].down \in Seq(DownFrames(L))
  BY SocketParts DEF Shapes, RoomShapes
<1>1. UNCHANGED <<doc, saved, epoch>>  BY DEF Serve, historyVars, docVars
<1>2. \A p \in publishing : p.frame \in Frames  BY FramesInHand
<1>3. ASSUME NEW s, Resock(L, d, s), UNCHANGED <<server, publishing>>, NEW x,
             s.bcast = sock[d].bcast, s.down = Append(sock[d].down, x),
             x \in DownFrames(L), FreshFrame(x)
      PROVE  FramesCome /\ TableMoves(L)
  <2>1. ToSet(s.down) = ToSet(sock[d].down) \cup {x}  BY <1>0, <1>3, ToSetOfAppend
  <2>2. \A f \in SocketFrames(s) : f \in Frames \/ FreshFrame(f)
    BY <1>3, <2>1, FramesOfASocket DEF SocketFrames
  <2>3. \A p \in publishing' : p.frame \in Frames \/ FreshFrame(p.frame)  BY <1>2, <1>3
  <2> QED  BY <1>0, <1>3, <2>2, <2>3, FramesOnResock DEF TableMoves
<1>5. CASE SendBroadcast(d)
  <2>1. PICK s : /\ Resock(L, d, s) /\ s.bcast = Tail(sock[d].bcast)
                 /\ s.down = Append(sock[d].down, Head(sock[d].bcast))
    BY <1>0, <1>5, SendBroadcastEffect
  <2>2. sock[d].bcast # <<>> /\ UNCHANGED <<server, publishing>>  BY <1>5 DEF SendBroadcast
  <2>3. PICK b \in Seq(RowsFrames(L)) : b = sock[d].bcast /\ b # <<>>  BY <1>0, <2>2
  <2>4. PICK h : h = Head(b)  OBVIOUS
  <2>5. h \in RowsFrames(L) /\ ToSet(b) = {h} \cup ToSet(Tail(b))  BY <2>3, <2>4, ToSetOfTail
  <2>6. h \in DownFrames(L)  BY <2>5 DEF DownFrames
  <2>7. ToSet(s.down) = ToSet(sock[d].down) \cup {h}  BY <1>0, <2>1, <2>3, <2>4, <2>6, ToSetOfAppend
  <2>8. \A f \in SocketFrames(s) : f \in ToSet(sock[d].down) \/ f \in ToSet(sock[d].bcast)
    BY <2>1, <2>3, <2>5, <2>7 DEF SocketFrames
  <2>9. \A f \in SocketFrames(s) : f \in Frames  BY <2>8, FramesOfASocket
  <2>10. FramesCome  BY <1>0, <1>2, <2>1, <2>2, <2>9, FramesOnResock
  <2> QED  BY <1>1, <2>2, <2>10 DEF TableMoves
<1>6. CASE SendLaggedState(d)
  <2>1. PICK s : Resock(L, d, s) /\ s.bcast = sock[d].bcast
                 /\ s.down = Append(sock[d].down, StateFrame(TRUE, 0))
    BY <1>0, <1>6, SendLaggedStateEffect
  <2>2. UNCHANGED <<server, publishing>> /\ server' = server  BY <1>6 DEF SendLaggedState
  <2>3. PICK yes \in BOOLEAN : yes = TRUE  OBVIOUS
  <2>4. PICK x : x = StateFrame(yes, 0)  OBVIOUS
  <2>5. x \in StateFrames(L) /\ FreshFrame(x)  BY <1>0, <2>2, <2>4, StateFrameFacts, StateFrameIsFresh
  <2>6. x \in DownFrames(L)  BY <2>5 DEF DownFrames
  <2>7. s.down = Append(sock[d].down, x)  BY <2>1, <2>3, <2>4
  <2> QED  BY <1>1, <1>3, <2>1, <2>2, <2>5, <2>6, <2>7
<1>7. CASE HandleHello(d)
  <2>1. PICK s : \E h \in Hellos : Resock(L, d, s) /\ s.bcast = sock[d].bcast
                 /\ s.down = Append(sock[d].down, StateFrame(h.fresh, h.cursor))
    BY <1>0, <1>7, HandleHelloEffect
  <2>2. PICK h \in Hellos : Resock(L, d, s) /\ s.bcast = sock[d].bcast
                 /\ s.down = Append(sock[d].down, StateFrame(h.fresh, h.cursor))
    BY <2>1
  <2>3. UNCHANGED <<server, publishing>> /\ server' = server  BY <1>7 DEF HandleHello
  <2>4. h.fresh \in BOOLEAN /\ h.cursor \in Nat  BY DEF Hellos
  <2>5. PICK x : x = StateFrame(h.fresh, h.cursor)  OBVIOUS
  <2>6. x \in StateFrames(L) /\ FreshFrame(x)  BY <1>0, <2>3, <2>4, <2>5, StateFrameFacts, StateFrameIsFresh
  <2>7. x \in DownFrames(L)  BY <2>6 DEF DownFrames
  <2> QED  BY <1>1, <1>3, <2>2, <2>3, <2>5, <2>6, <2>7
<1>8. CASE LoseStale(d)
  <2>1. UNCHANGED <<server, disk, sock, publishing>>  BY <1>8 DEF LoseStale
  <2>2. FramesCome  BY <2>1 DEF FramesCome, Frames, SocketFrames
  <2> QED  BY <1>1, <2>1, <2>2 DEF TableMoves
<1>9. ASSUME NEW stored \in BOOLEAN, HandlePush(d, stored) PROVE FramesCome /\ TableMoves(L)
  <2>1. PICK push \in Pushes(L) : \E s :
           /\ Resock(L, d, s) /\ s.bcast = sock[d].bcast
           /\ \/ /\ server' = server /\ disk' = disk /\ publishing' = publishing
                 /\ s.down = Append(sock[d].down, Ack(push.batch, server.seq))
              \/ /\ Merged(L, push.ops)
                 /\ s.down = sock[d].down
                 /\ publishing' = publishing \cup
                      {[to |-> d, batch |-> push.batch,
                        frame |-> RowsFrame(server.seq + 1, Touched(push.ops))]}
    BY <1>0, <1>9, HandlePushEffect
  <2>2. PICK s :
           /\ Resock(L, d, s) /\ s.bcast = sock[d].bcast
           /\ \/ /\ server' = server /\ disk' = disk /\ publishing' = publishing
                 /\ s.down = Append(sock[d].down, Ack(push.batch, server.seq))
              \/ /\ Merged(L, push.ops)
                 /\ s.down = sock[d].down
                 /\ publishing' = publishing \cup
                      {[to |-> d, batch |-> push.batch,
                        frame |-> RowsFrame(server.seq + 1, Touched(push.ops))]}
    BY <2>1
  <2>3. push.batch \in Nat /\ push.ops \in Seq(Ops(L)) /\ server.seq \in Nat
    BY <1>0 DEF Pushes, Tables
  <2>4. CASE /\ server' = server /\ disk' = disk /\ publishing' = publishing
             /\ s.down = Append(sock[d].down, Ack(push.batch, server.seq))
    <3>1. Ack(push.batch, server.seq) \in DownFrames(L)  BY <2>3 DEF Ack, Acks, DownFrames
    <3>2. server.seq <= server'.seq  BY <2>3, <2>4
    <3> QED  BY <1>3, <2>2, <2>4, <3>1, <3>2, AckIsFresh
  <2>5. CASE /\ Merged(L, push.ops)
             /\ s.down = sock[d].down
             /\ publishing' = publishing \cup
                  {[to |-> d, batch |-> push.batch,
                    frame |-> RowsFrame(server.seq + 1, Touched(push.ops))]}
    <3>1. FreshFrame(RowsFrame(server.seq + 1, Touched(push.ops)))
      BY <1>0, <2>3, <2>5, MergedFrameIsFresh
    <3>2. \A p \in publishing' : p.frame \in Frames \/ FreshFrame(p.frame)  BY <1>2, <2>5, <3>1
    <3>3. \A f \in SocketFrames(s) : f \in Frames  BY <2>2, <2>5, FramesOfASocket DEF SocketFrames
    <3>4. FramesCome  BY <1>0, <2>2, <3>2, <3>3, FramesOnResock
    <3> QED  BY <2>3, <2>5, <3>4 DEF TableMoves
  <2> QED  BY <2>2, <2>4, <2>5
<1>10. ASSUME NEW stored \in BOOLEAN, HandleStalePush(d, stored) PROVE FramesCome /\ TableMoves(L)
  <2>1. sock' = sock  BY <1>0, <1>10, HandleStalePushEffect
  <2>2. PICK push \in Pushes(L) :
           \/ server' = server /\ disk' = disk /\ publishing' = publishing
           \/ /\ Merged(L, push.ops)
              /\ publishing' = publishing \cup
                   {[to |-> NoDevice, batch |-> push.batch,
                     frame |-> RowsFrame(server.seq + 1, Touched(push.ops))]}
    BY <1>0, <1>10, HandleStalePushEffect
  <2>3. push.batch \in Nat /\ push.ops \in Seq(Ops(L))  BY DEF Pushes
  <2>4. CASE server' = server /\ publishing' = publishing
    <3>1. FramesCome  BY <2>1, <2>4 DEF FramesCome, Frames, SocketFrames
    <3> QED  BY <2>4, <3>1 DEF TableMoves
  <2>5. CASE /\ Merged(L, push.ops)
             /\ publishing' = publishing \cup
                  {[to |-> NoDevice, batch |-> push.batch,
                    frame |-> RowsFrame(server.seq + 1, Touched(push.ops))]}
    <3>1. FreshFrame(RowsFrame(server.seq + 1, Touched(push.ops)))
      BY <1>0, <2>3, <2>5, MergedFrameIsFresh
    <3>2. \A p \in publishing' : p.frame \in Frames \/ FreshFrame(p.frame)  BY <1>2, <2>5, <3>1
    <3>3. \A e \in Devices : \A f \in SocketFrames(sock[e]) : f \in Frames
      BY FramesOfASocket DEF SocketFrames
    <3>4. FramesCome  BY <2>1, <3>2, <3>3 DEF FramesCome, Frames, SocketFrames
    <3> QED  BY <2>3, <2>5, <3>4 DEF TableMoves
  <2> QED  BY <2>2, <2>4, <2>5
<1> QED  BY <1>1, <1>5, <1>6, <1>7, <1>8, <1>9, <1>10 DEF Serve

\* No step but those of the room puts rows on the wire.
LEMMA NoNewFrames ==
  ASSUME NEW L, sock \in [Devices -> Sockets(L)], NEW d \in Devices, NEW s, Resock(L, d, s),
         publishing' = publishing, SocketFrames(s) \subseteq SocketFrames(sock[d])
  PROVE  FramesCome
<1>1. \A f \in SocketFrames(s) : f \in Frames  BY FramesOfASocket DEF SocketFrames
<1>2. \A p \in publishing' : p.frame \in Frames  BY FramesInHand
<1> QED  BY <1>1, <1>2, FramesOnResock

\* A replica's rows are changed by the frames it takes.
LEMMA RowsStay ==
  ASSUME UNCHANGED <<doc, saved>>
  PROVE  RowsCome
BY DEF RowsCome, RowComes, CursorComes

LEMMA RowsOfOne ==
  ASSUME NEW L, DocShapes(L), NEW d \in Devices, NEW e, Redoc(L, d, e), saved' = saved,
         CursorComes(d, e.cursor), \A i \in Ids : RowComes(d, i, e.rows[i])
  PROVE  RowsCome
<1>1. doc'[d] = e /\ \A x \in Devices : x # d => doc'[x] = doc[x]  BY RedocFacts DEF DocShapes
<1> QED  BY <1>1 DEF RowsCome, RowComes, CursorComes

\* The frame at the head of a connection, applied.
LEMMA RowsOfState ==
  ASSUME NEW L, NEW d \in Devices, NEW f \in StateFrames(L), f \in Frames, NEW e,
         StateApplied(L, d, doc[d], f, e)
  PROVE  CursorComes(d, e.cursor) /\ \A i \in Ids : RowComes(d, i, e.rows[i])
<1>1. f.t # "ack"  BY DEF StateFrames
<1>2. ASSUME NEW i \in Ids PROVE RowComes(d, i, e.rows[i])
  <2>1. e.rows[i] = NewRow(doc[d], f, i)  BY DEF StateApplied
  <2> QED  BY <1>1, <2>1 DEF NewRow, RowComes
<1>3. CursorComes(d, e.cursor)  BY DEF StateApplied, CursorComes
<1> QED  BY <1>2, <1>3

LEMMA OthersBringFrames ==
  ASSUME NEW L, L \subseteq Pairs, Shapes(L), NEW d \in Devices,
         \/ Dial(d) \/ SkipFrame(d) \/ PushPending(d) \/ Cut(d)
         \/ \E now \in Readings(d) : \/ ReceiveState(d, now) \/ ReceiveFrame(d, now)
                                     \/ SaveSnapshot(d, now) \/ Crash(d, now)
  PROVE  FramesCome /\ RowsCome /\ server' = server /\ epoch' = epoch
<1>0. /\ RoomShapes(L) /\ DocShapes(L) /\ ClockShapes /\ sock \in [Devices -> Sockets(L)]
      /\ doc[d] \in Docs(d, L) /\ sock[d] \in Sockets(L) /\ DOMAIN doc = Devices /\ DOMAIN saved = Devices
  BY DEF Shapes, RoomShapes, DocShapes
<1>1. CASE Dial(d)
  <2>1. PICK fresh \in BOOLEAN :
          fresh = (doc[d].cursor = 0 /\ doc[d].pending = <<>> /\ ~ doc[d].touched)
    OBVIOUS
  <2>2. PICK h : h = Hello(fresh, doc[d].cursor)  OBVIOUS
  <2>3. h \in Hellos
    <3>1. doc[d].cursor \in Nat  BY <1>0, DocParts
    <3> QED  BY <2>2, <3>1 DEF Hello, Hellos
  <2>4. Connect(d, h) /\ UNCHANGED <<doc, saved, epoch>>  BY <1>1, <2>1, <2>2 DEF Dial, historyVars
  <2>5. PICK s : Resock(L, d, s) /\ s.bcast = <<>> /\ s.down = <<>>  BY <2>3, <2>4, ConnectEffect
  <2>6. SocketFrames(s) = {}  BY <2>5 DEF SocketFrames, ToSet
  <2>7. server' = server /\ publishing' = publishing  BY <2>4 DEF Connect
  <2>8. SocketFrames(s) \subseteq SocketFrames(sock[d])  BY <2>6
  <2>9. FramesCome  BY <1>0, <2>5, <2>7, <2>8, NoNewFrames
  <2> QED  BY <2>4, <2>7, <2>9, RowsStay
<1>2. CASE SkipFrame(d)
  <2>1. /\ sock[d].down # <<>> /\ sock' = [sock EXCEPT ![d] = Rest(d)]
        /\ UNCHANGED <<server, publishing, doc, saved, epoch>>
    BY <1>2 DEF SkipFrame, docVars, historyVars
  <2>2. PICK r : r = Rest(d)  OBVIOUS
  <2>3. Resock(L, d, r) /\ r.bcast = sock[d].bcast /\ ToSet(r.down) \subseteq ToSet(sock[d].down)
    BY <1>0, <2>1, <2>2, RestFacts DEF Resock
  <2>4. SocketFrames(r) \subseteq SocketFrames(sock[d])  BY <2>3 DEF SocketFrames
  <2>5. FramesCome  BY <1>0, <2>1, <2>3, <2>4, NoNewFrames
  <2> QED  BY <2>1, <2>5, RowsStay
<1>3. CASE PushPending(d)
  <2>1. PushAll(d, doc[d], sock[d]) /\ UNCHANGED <<server, publishing, saved, epoch>>
    BY <1>3 DEF PushPending, historyVars
  <2>2. Pushed(L, d, doc[d], sock[d])  BY <1>0, <2>1, PushAllEffect
  <2>3. PICK e, r : /\ Redoc(L, d, e) /\ MarkedAs(L, d, doc[d], TRUE, e)
                    /\ Resock(L, d, r) /\ r.bcast = sock[d].bcast /\ r.down = sock[d].down
    BY <2>2 DEF Pushed
  <2>4. SocketFrames(r) \subseteq SocketFrames(sock[d])  BY <2>3 DEF SocketFrames
  <2>5. e.rows = doc[d].rows /\ e.cursor = doc[d].cursor  BY <2>3 DEF MarkedAs, SameBut
  <2>6. CursorComes(d, e.cursor) /\ \A i \in Ids : RowComes(d, i, e.rows[i])
    BY <2>5 DEF RowComes, CursorComes
  <2>7. FramesCome  BY <1>0, <2>1, <2>3, <2>4, NoNewFrames
  <2>8. RowsCome  BY <1>0, <2>1, <2>3, <2>6, RowsOfOne
  <2> QED  BY <2>1, <2>7, <2>8
<1>4. ASSUME Disconnect(d) PROVE FramesCome /\ server' = server
  <2>1. server' = server /\ Resock(L, d, NoSocket)
        /\ \A p \in publishing' : \E q \in publishing :
              p.batch = q.batch /\ p.frame = q.frame /\ (p.to = q.to \/ p.to = NoDevice)
    BY <1>0, <1>4, DisconnectEffect
  <2>2. SocketFrames(NoSocket) = {}  BY DEF SocketFrames, NoSocket, ToSet
  <2>3. \A p \in publishing' : p.frame \in Frames  BY <2>1, FramesInHand
  <2>4. FramesCome  BY <1>0, <2>1, <2>2, <2>3, FramesOnResock
  <2> QED  BY <2>1, <2>4
<1>5. CASE Cut(d)
  <2>1. EndSession(d) /\ Disconnect(d) /\ saved' = saved /\ epoch' = epoch  BY <1>5 DEF Cut
  <2>2. PICK e : e = Landed(doc[d])  OBVIOUS
  <2>3. Redoc(L, d, e)  BY <1>0, <2>1, <2>2, EndSessionFacts
  <2>4. e.rows = doc[d].rows /\ e.cursor = doc[d].cursor
    <3>1. PICK no \in BOOLEAN : no = FALSE  OBVIOUS
    <3>2. e = Marked(doc[d], no)  BY <1>0, <2>2, <3>1, LandedFacts
    <3>3. MarkedAs(L, d, doc[d], no, e)  BY <1>0, <3>2, MarkedFacts
    <3> QED  BY <3>3 DEF MarkedAs, SameBut
  <2>5. CursorComes(d, e.cursor) /\ \A i \in Ids : RowComes(d, i, e.rows[i])
    BY <2>4 DEF RowComes, CursorComes
  <2>6. RowsCome  BY <1>0, <2>1, <2>3, <2>5, RowsOfOne
  <2> QED  BY <1>4, <2>1, <2>6
<1>6. ASSUME sock[d].down # <<>>
      PROVE  Head(sock[d].down) \in Frames
  <2>1. Head(sock[d].down) \in ToSet(sock[d].down)  BY <1>0, <1>6, RestFacts
  <2> QED  BY <2>1, FramesOfASocket
<1>7. ASSUME NEW r, Resock(L, d, r), r.bcast = sock[d].bcast, r.down = Tail(sock[d].down),
             sock[d].down # <<>>, publishing' = publishing
      PROVE  FramesCome
  <2>1. ToSet(r.down) \subseteq ToSet(sock[d].down)  BY <1>0, <1>7, RestFacts
  <2>2. SocketFrames(r) \subseteq SocketFrames(sock[d])  BY <1>7, <2>1 DEF SocketFrames
  <2> QED  BY <1>0, <1>7, <2>2, NoNewFrames
<1>8. ASSUME NEW now \in Readings(d), ReceiveState(d, now)
      PROVE  FramesCome /\ RowsCome /\ server' = server /\ epoch' = epoch
  <2>1. now \in Nat  BY <1>0, ReadingsAreNat
  <2>2. PICK f, a, e, r : StateTaken(L, d, f, a, e, r)  BY <1>0, <1>8, <2>1, ReceiveStateEffect
  <2>3. /\ sock[d].down # <<>> /\ UNCHANGED <<server, publishing, saved, epoch>>
    BY <1>8 DEF ReceiveState, Received
  <2>4. /\ f = Head(sock[d].down) /\ f \in StateFrames(L) /\ StateApplied(L, d, doc[d], f, a)
        /\ Redoc(L, d, e) /\ e.rows = a.rows /\ e.cursor = a.cursor
        /\ Resock(L, d, r) /\ r.bcast = sock[d].bcast /\ r.down = Tail(sock[d].down)
    BY <2>2 DEF StateTaken
  <2>5. FramesCome  BY <1>7, <2>3, <2>4
  <2>6. CursorComes(d, a.cursor) /\ \A i \in Ids : RowComes(d, i, a.rows[i])
    BY <1>6, <2>3, <2>4, RowsOfState
  <2>7. CursorComes(d, e.cursor) /\ \A i \in Ids : RowComes(d, i, e.rows[i])  BY <2>4, <2>6
  <2>8. RowsCome  BY <1>0, <2>3, <2>4, <2>7, RowsOfOne
  <2> QED  BY <2>3, <2>5, <2>8
<1>9. ASSUME NEW now \in Readings(d), ReceiveFrame(d, now)
      PROVE  FramesCome /\ RowsCome /\ server' = server /\ epoch' = epoch
  <2>1. now \in Nat  BY <1>0, ReadingsAreNat
  <2>2. PICK f, e, r : FrameTaken(L, d, f, e, r)  BY <1>0, <1>9, <2>1, ReceiveFrameEffect
  <2>3. /\ sock[d].down # <<>> /\ UNCHANGED <<server, publishing, saved, epoch>>
    BY <1>9 DEF ReceiveFrame, historyVars
  <2>4. /\ f = Head(sock[d].down) /\ f \in DownFrames(L) /\ Redoc(L, d, e)
        /\ \/ f \in RowsFrames(L) /\ e = ApplyRows(doc[d], f)
           \/ f \in Acks /\ AckApplied(L, d, doc[d], f, e)
           \/ f \in StateFrames(L) /\ StateApplied(L, d, doc[d], f, e)
        /\ Resock(L, d, r) /\ r.bcast = sock[d].bcast /\ r.down = Tail(sock[d].down)
    BY <2>2 DEF FrameTaken
  <2>5. FramesCome  BY <1>7, <2>3, <2>4
  <2>6. f \in Frames  BY <1>6, <2>3, <2>4
  <2>7. ASSUME NEW i \in Ids PROVE RowComes(d, i, e.rows[i])
    <3>1. CASE f \in RowsFrames(L) /\ e = ApplyRows(doc[d], f)
      <4>1. e.rows[i] = IF i \in DOMAIN f.rows THEN f.rows[i] ELSE doc[d].rows[i]
        BY <1>0, <3>1, ApplyRowsFacts
      <4>2. f.t # "ack"  BY <3>1 DEF RowsFrames
      <4> QED  BY <2>6, <4>1, <4>2 DEF RowComes
    <3>2. CASE f \in Acks /\ AckApplied(L, d, doc[d], f, e)
      BY <3>2 DEF AckApplied, RowComes
    <3>3. CASE f \in StateFrames(L) /\ StateApplied(L, d, doc[d], f, e)
      BY <2>6, <3>3, RowsOfState
    <3> QED  BY <2>4, <3>1, <3>2, <3>3
  <2>8. CursorComes(d, e.cursor)
    <3>1. e.cursor \in {doc[d].cursor, f.seq}
      <4>1. CASE f \in RowsFrames(L) /\ e = ApplyRows(doc[d], f)  BY <1>0, <4>1, ApplyRowsFacts
      <4>2. CASE f \in Acks /\ AckApplied(L, d, doc[d], f, e)  BY <4>2 DEF AckApplied
      <4>3. CASE f \in StateFrames(L) /\ StateApplied(L, d, doc[d], f, e)  BY <4>3 DEF StateApplied
      <4> QED  BY <2>4, <4>1, <4>2, <4>3
    <3> QED  BY <2>6, <3>1 DEF CursorComes
  <2>9. RowsCome  BY <1>0, <2>3, <2>4, <2>7, <2>8, RowsOfOne
  <2> QED  BY <2>3, <2>5, <2>9
<1>10. ASSUME NEW now \in Readings(d), SaveSnapshot(d, now)
       PROVE  FramesCome /\ RowsCome /\ server' = server /\ epoch' = epoch
  <2>1. now \in Nat  BY <1>0, ReadingsAreNat
  <2>2. PICK c, k : Snapshot(L, d, c, k)  BY <1>0, <1>10, <2>1, SaveSnapshotEffect
  <2>3. UNCHANGED <<roomVars, historyVars>>  BY <1>10 DEF SaveSnapshot
  <2>4. UNCHANGED <<server, sock, publishing, epoch>>  BY <2>3 DEF roomVars, historyVars
  <2>5. FramesCome  BY <2>4 DEF FramesCome, Frames, SocketFrames
  <2>6. /\ Redoc(L, d, c) /\ k.rows = c.rows /\ c.rows = doc[d].rows
        /\ k.cursor = c.cursor /\ c.cursor = doc[d].cursor
        /\ saved' = [saved EXCEPT ![d] = [doc |-> k, owing |-> Owing(d) \/ d \in torn]]
    BY <2>2 DEF Snapshot, CompactedTo, SameBut
  <2>7. doc'[d] = c /\ \A x \in Devices : x # d => doc'[x] = doc[x]  BY <1>0, <2>6, RedocFacts
  <2>8. saved'[d].doc = k /\ \A x \in Devices : x # d => saved'[x] = saved[x]  BY <1>0, <2>6
  <2>9. RowsCome  BY <2>6, <2>7, <2>8 DEF RowsCome, RowComes, CursorComes
  <2> QED  BY <2>4, <2>5, <2>9
<1>11. ASSUME NEW now \in Readings(d), Crash(d, now)
       PROVE  FramesCome /\ RowsCome /\ server' = server /\ epoch' = epoch
  <2>1. now \in Nat  BY <1>0, ReadingsAreNat
  <2>2. PICK c, k : Restored(L, d, c, k)  BY <1>0, <1>11, <2>1, CrashEffect
  <2>3. Disconnect(d) /\ epoch' = epoch  BY <1>11 DEF Crash
  <2>4. /\ Redoc(L, d, c) /\ k.rows = c.rows /\ c.rows = saved[d].doc.rows
        /\ k.cursor = c.cursor /\ c.cursor = saved[d].doc.cursor
        /\ saved' = [saved EXCEPT ![d].doc = k]
    BY <2>2 DEF Restored, CompactedTo, SameBut
  <2>5. doc'[d] = c /\ \A x \in Devices : x # d => doc'[x] = doc[x]  BY <1>0, <2>4, RedocFacts
  <2>6. saved'[d].doc = k /\ \A x \in Devices : x # d => saved'[x] = saved[x]
    <3>1. saved[d] \in [doc : Docs(d, L), owing : BOOLEAN]  BY <1>0 DEF DocShapes, SavedDocs
    <3> QED  BY <1>0, <2>4, <3>1
  <2>7. RowsCome  BY <2>4, <2>5, <2>6 DEF RowsCome, RowComes, CursorComes
  <2> QED  BY <1>4, <2>3, <2>7
<1> QED  BY <1>1, <1>2, <1>3, <1>5, <1>8, <1>9, <1>10, <1>11

LEMMA LocalWriteBringsNoRows ==
  ASSUME Shapes(Pairs), NEW d \in Devices, NEW now \in Nat, NEW kind \in Kinds,
         NEW ids \in (SUBSET Ids) \ {{}}, NEW F \in (SUBSET Fields) \ {{}},
         LocalWrite(d, now, kind, ids, F)
  PROVE  FramesCome /\ RowsCome /\ server' = server /\ epoch' = epoch
<1>0. DocShapes(Pairs) /\ ClockShapes /\ writes[d] \in Nat /\ doc[d] \in Docs(d, Pairs)
  BY DEF Shapes, DocShapes, ClockShapes
<1>1. UNCHANGED <<roomVars, saved, epoch>>  BY DEF LocalWrite
<1>2. UNCHANGED <<server, sock, publishing, saved, epoch>>  BY <1>1 DEF roomVars
<1>3. FramesCome  BY <1>2 DEF FramesCome, Frames, SocketFrames
<1>4. PairOf(d, now, kind) \in Pairs  BY <1>0, StampIsAClock
<1>5. PICK e, b : Written(Pairs, d, now, e, b)  BY <1>0, <1>4, LocalWriteEffect DEF PairOf
<1>6. Redoc(Pairs, d, e) /\ e.rows = doc[d].rows /\ e.cursor = doc[d].cursor  BY <1>5 DEF Written
<1>7. CursorComes(d, e.cursor) /\ \A i \in Ids : RowComes(d, i, e.rows[i])
  BY <1>6 DEF RowComes, CursorComes
<1>8. RowsCome  BY <1>0, <1>2, <1>6, <1>7, RowsOfOne
<1> QED  BY <1>2, <1>3, <1>8

LEMMA PublishBringsFrames ==
  ASSUME NEW L, Shapes(L), NEW p \in publishing, Publish(p)
  PROVE  FramesCome /\ RowsCome /\ server' = server /\ epoch' = epoch
<1>0. /\ RoomShapes(L) /\ Links /\ sock \in [Devices -> Sockets(L)] /\ p \in InHand(L)
      /\ \A d \in Devices : Len(sock[d].bcast) <= BroadcastDepth
  BY DEF Shapes, RoomShapes, Links, LinkOf
<1>1. UNCHANGED <<doc, saved, epoch>> /\ FinishPush(p)  BY DEF Publish, docVars
<1>2. /\ server' = server /\ publishing' = publishing \ {p}
      /\ \A e \in Devices : Broadcasted(L, p, e)
  BY <1>0, <1>1, FinishPushEffect
<1>3. p.frame \in RowsFrames(L) /\ p.batch \in Nat  BY <1>0 DEF InHand
<1>4. PICK a : a = Ack(p.batch, p.frame.seq)  OBVIOUS
<1>5. a \in DownFrames(L) /\ FreshFrame(a)
  <2>1. p.frame.seq \in Nat  BY <1>3 DEF RowsFrames
  <2>2. p.frame \in Frames  BY FramesInHand
  <2> QED  BY <1>3, <1>4, <2>1, <2>2, AckIsFresh DEF Ack, Acks, DownFrames
<1>6. p.frame \in Frames  BY FramesInHand
<1>7. ASSUME NEW d \in Devices
      PROVE  \A f \in SocketFrames(sock'[d]) : f \in Frames \/ FreshFrame(f)
  <2>1. sock[d].bcast \in Seq(RowsFrames(L)) /\ sock[d].down \in Seq(DownFrames(L))
    BY <1>0, SocketParts
  <2>2. Broadcasted(L, p, d)  BY <1>2
  <2>3. PICK q : /\ Queued(L, sock[d], p.frame, q) /\ sock'[d].bcast = q.bcast
                 /\ sock'[d].down = IF d = p.to THEN Append(q.down, a) ELSE q.down
    BY <1>4, <2>2 DEF Broadcasted
  <2>4. q.down = sock[d].down  BY <2>3 DEF Queued
  <2>5. ToSet(sock'[d].down) \subseteq ToSet(sock[d].down) \cup {a}
    BY <1>5, <2>1, <2>3, <2>4, ToSetOfAppend
  <2>6. ToSet(q.bcast) \subseteq ToSet(sock[d].bcast) \cup {p.frame}
    <3>1. CASE q = sock[d]  BY <3>1
    <3>2. CASE q.bcast = Append(sock[d].bcast, p.frame)  BY <1>3, <2>1, <3>2, ToSetOfAppend
    <3>3. CASE sock[d].bcast # <<>> /\ q.bcast = Append(Tail(sock[d].bcast), p.frame)
      <4>1. PICK t : t = Tail(sock[d].bcast)  OBVIOUS
      <4>2. t \in Seq(RowsFrames(L)) /\ ToSet(t) \subseteq ToSet(sock[d].bcast)
        BY <2>1, <3>3, <4>1, ToSetOfTail
      <4>3. ToSet(Append(t, p.frame)) = ToSet(t) \cup {p.frame}  BY <1>3, <4>2, ToSetOfAppend
      <4> QED  BY <3>3, <4>1, <4>2, <4>3
    <3> QED  BY <2>3, <3>1, <3>2, <3>3 DEF Queued
  <2>7. \A f \in SocketFrames(sock'[d]) :
          f \in ToSet(sock[d].down) \/ f \in ToSet(sock[d].bcast) \/ f = a \/ f = p.frame
    BY <2>3, <2>5, <2>6 DEF SocketFrames
  <2> QED  BY <1>5, <1>6, <2>7, FramesOfASocket
<1>8. FramesCome
  <2>1. \A q \in publishing' : q.frame \in Frames  BY <1>2, FramesInHand
  <2>2. ASSUME NEW f \in Frames' PROVE f \in Frames \/ FreshFrame(f)
    <3>1. CASE \E q \in publishing' : f = q.frame  BY <2>1, <3>1
    <3>2. CASE \E d \in Devices : f \in SocketFrames(sock'[d])  BY <1>7, <3>2
    <3> QED  BY <2>2, <3>1, <3>2 DEF Frames, SocketFrames
  <2> QED  BY <2>2 DEF FramesCome
<1> QED  BY <1>1, <1>2, <1>8, RowsStay

LEMMA RestartBringsNoRows ==
  ASSUME NEW L, Shapes(L), NEW kind, Restart(kind)
  PROVE  FramesCome /\ RowsCome /\ ((server' = server /\ epoch' = epoch) \/ epoch' # 0)
<1>0. DocShapes(L) /\ epoch \in Nat  BY DEF Shapes, ClockShapes
<1>1. /\ sock' = [d \in Devices |-> NoSocket] /\ publishing' = {} /\ saved' = saved
      /\ doc' = [d \in Devices |-> Landed(doc[d])]
      /\ epoch' = IF server' = server THEN epoch ELSE epoch + 1
  BY DEF Restart, Reload
<1>2. FramesCome
  <2>1. \A d \in Devices : SocketFrames(sock'[d]) = {}  BY <1>1 DEF SocketFrames, NoSocket, ToSet
  <2>2. Frames' = {}  BY <1>1, <2>1 DEF Frames, SocketFrames
  <2> QED  BY <2>2 DEF FramesCome
<1>3. ASSUME NEW d \in Devices PROVE doc'[d].rows = doc[d].rows /\ doc'[d].cursor = doc[d].cursor
  <2>1. doc[d] \in Docs(d, L)  BY <1>0 DEF DocShapes
  <2>2. PICK no \in BOOLEAN : no = FALSE  OBVIOUS
  <2>3. Landed(doc[d]) = Marked(doc[d], no)  BY <2>1, <2>2, LandedFacts
  <2>4. MarkedAs(L, d, doc[d], no, Landed(doc[d]))  BY <2>1, <2>3, MarkedFacts
  <2> QED  BY <1>1, <2>4 DEF MarkedAs, SameBut
<1>4. RowsCome  BY <1>1, <1>3 DEF RowsCome, RowComes, CursorComes
<1> QED  BY <1>0, <1>1, <1>2, <1>4

\* Operations never take back a deletion.
LEMMA DeletionsStay ==
  ASSUME NEW L, NEW row \in Rows(L), NEW ops \in Seq(Ops(L))
  PROVE  ApplyOps(row, ops).del >= row.del
<1>0. Len(ops) \in Nat /\ (\A n \in 1 .. Len(ops) : ops[n] \in Ops(L)) /\ row.del \in Nat
  BY RowParts
<1>1. PICK after : /\ after[0] = row
                   /\ \A n \in 1 .. Len(ops) : after[n] = ApplyOp(after[n - 1], ops[n])
                   /\ ApplyOps(row, ops) = after[Len(ops)]
  BY <1>0, ApplyOpsRun
<1> DEFINE S == {n \in Nat : n <= Len(ops) => after[n] \in Rows(L) /\ after[n].del >= row.del}
<1>2. 0 \in S  BY <1>0, <1>1
<1>3. ASSUME NEW n \in Nat, n \in S PROVE n + 1 \in S
  <2>1. SUFFICES ASSUME n + 1 <= Len(ops)
                 PROVE  after[n + 1] \in Rows(L) /\ after[n + 1].del >= row.del
    OBVIOUS
  <2>2. n + 1 \in 1 .. Len(ops) /\ n + 1 - 1 = n  BY <1>0, <2>1
  <2>3. after[n] \in Rows(L) /\ after[n].del >= row.del  BY <1>0, <1>3, <2>1
  <2>4. after[n + 1] = ApplyOp(after[n], ops[n + 1])  BY <1>1, <2>2
  <2>5. ops[n + 1] \in Ops(L)  BY <1>0, <2>2
  <2>6. PICK r, op : r = after[n] /\ op = ops[n + 1]  OBVIOUS
  <2>7. ApplyOp(r, op) \in Rows(L)  BY <2>3, <2>5, <2>6, ApplyMakesARow
  <2>8. Shaped(r) /\ op \in Op /\ r.del \in Nat  BY <2>3, <2>5, <2>6, RowParts, OpParts
  <2>9. ApplyOp(r, op).del >= r.del  BY <2>8, ApplyMovesForward
  <2>10. ApplyOp(r, op).del \in Nat  BY <2>7, RowParts
  <2> QED  BY <1>0, <2>3, <2>4, <2>6, <2>7, <2>8, <2>9, <2>10
<1> HIDE DEF S
<1>4. \A n \in Nat : n \in S  BY <1>2, <1>3, InductionOnNat
<1>5. Len(ops) \in S  BY <1>0, <1>4
<1> QED  BY <1>0, <1>1, <1>5 DEF S

\* Operations that leave a row missing have not changed it.
LEMMA MissingIsUntouched ==
  ASSUME NEW L, NEW row \in Rows(L), NEW ops \in Seq(Ops(L)), ApplyOps(row, ops).state = "missing"
  PROVE  ApplyOps(row, ops) = row
<1>0. Len(ops) \in Nat /\ \A n \in 1 .. Len(ops) : ops[n] \in Ops(L)  OBVIOUS
<1>1. PICK after : /\ after[0] = row
                   /\ \A n \in 1 .. Len(ops) : after[n] = ApplyOp(after[n - 1], ops[n])
                   /\ ApplyOps(row, ops) = after[Len(ops)]
  BY <1>0, ApplyOpsRun
<1> DEFINE S == {n \in Nat : n <= Len(ops) => /\ after[n] \in Rows(L)
                                              /\ after[n].state = "missing" => after[n] = row}
<1>2. 0 \in S  BY <1>1
<1>3. ASSUME NEW n \in Nat, n \in S PROVE n + 1 \in S
  <2>1. SUFFICES ASSUME n + 1 <= Len(ops)
                 PROVE  /\ after[n + 1] \in Rows(L)
                        /\ after[n + 1].state = "missing" => after[n + 1] = row
    OBVIOUS
  <2>2. n + 1 \in 1 .. Len(ops) /\ n + 1 - 1 = n  BY <1>0, <2>1
  <2>3. after[n] \in Rows(L) /\ (after[n].state = "missing" => after[n] = row)
    BY <1>0, <1>3, <2>1
  <2>4. after[n + 1] = ApplyOp(after[n], ops[n + 1]) /\ ops[n + 1] \in Ops(L)  BY <1>0, <1>1, <2>2
  <2>5. PICK r, op : r = after[n] /\ op = ops[n + 1]  OBVIOUS
  <2>6. ApplyOp(r, op) \in Rows(L)  BY <2>3, <2>4, <2>5, ApplyMakesARow
  <2>7. Shaped(r) /\ op \in Op  BY <2>3, <2>4, <2>5, RowParts, OpParts
  <2>8. ApplyOp(r, op).state = "missing" => ApplyOp(r, op) = r
    <3>1. CASE ~ Changes(r, op)  BY <3>1 DEF ApplyOp
    <3>2. CASE Changes(r, op) /\ op.op = "delete"  BY <2>7, <3>2, AfterDelete
    <3>3. CASE Changes(r, op) /\ op.op # "delete"  BY <2>7, <3>3, AfterFields
    <3> QED  BY <3>1, <3>2, <3>3
  <2> QED  BY <2>3, <2>4, <2>5, <2>6, <2>8
<1> HIDE DEF S
<1>4. \A n \in Nat : n \in S  BY <1>2, <1>3, InductionOnNat
<1>5. Len(ops) \in S  BY <1>0, <1>4
<1> QED  BY <1>0, <1>1, <1>5 DEF S

\* What a step does to a row of the table: nothing, or it gets a stamp newer than any.
LEMMA RowsGetNewStamps ==
  ASSUME NEW L, server \in Tables(L), TableMoves(L), epoch' = 0, NEW i \in Ids
  PROVE  \/ server'.rows[i] = server.rows[i]
         \/ /\ server'.rows[i].seq > server.rows[i].seq /\ server'.rows[i].seq > server.seq
            /\ server'.rows[i].del >= server.rows[i].del
            /\ server'.rows[i].state # "missing"
<1>1. CASE server' = server  BY <1>1
<1>2. CASE \E ops \in Seq(Ops(L)) : Merged(L, ops)
  <2>1. PICK ops \in Seq(Ops(L)) : Merged(L, ops)  BY <1>2
  <2>2. CASE i \notin DOMAIN Touched(ops)  BY <2>1, <2>2 DEF Merged
  <2>3. CASE i \in DOMAIN Touched(ops)
    <3>1. server'.rows[i] = Touched(ops)[i]  BY <2>1, <2>3 DEF Merged
    <3>2. Touched(ops)[i].seq = server.seq + 1 /\ Touched(ops)[i].del = After(ops, i).del
      BY <2>3, TouchedFacts
    <3>3. PICK row \in Rows(L) : row = server.rows[i]  BY DEF Tables
    <3>4. row.seq \in Nat /\ server.seq \in Nat /\ row.seq <= server.seq
      BY <3>3, RowParts DEF Tables
    <3>5. PICK own \in Seq(Ops(L)) : own = OpsOn(ops, i)  BY OpsOnFacts
    <3>6. After(ops, i).del >= row.del  BY <3>3, <3>5, DeletionsStay DEF After
    <3>7. Touched(ops)[i].state # "missing"
      <4>1. After(ops, i) # server.rows[i] /\ Touched(ops)[i].state = After(ops, i).state
        BY <2>3, TouchedFacts
      <4> QED  BY <3>3, <3>5, <4>1, MissingIsUntouched DEF After
    <3> QED  BY <3>1, <3>2, <3>3, <3>4, <3>6, <3>7
  <2> QED  BY <2>2, <2>3
<1> QED  BY <1>1, <1>2 DEF TableMoves

LEMMA TableGrows ==
  ASSUME NEW L, server \in Tables(L), TableMoves(L), epoch' = 0
  PROVE  server'.seq >= server.seq
BY DEF TableMoves, Merged, Tables

LEMMA OlderStays ==
  ASSUME NEW row, row.seq \in Nat, row.del \in Nat, NEW own, own.seq \in Nat, own.del \in Nat,
         NEW new, new.seq \in Nat, new.del \in Nat, Older(row, own),
         new = own \/ (new.seq > own.seq /\ new.del >= own.del)
  PROVE  Older(row, new)
BY DEF Older

LEMMA FramesHoldRows ==
  ASSUME NEW L, RoomShapes(L), NEW f \in Frames, f.t # "ack", NEW i \in DOMAIN f.rows
  PROVE  i \in Ids /\ f.rows[i] \in Rows(L)
<1>1. \A x \in RowsFrames(L) \cup StateFrames(L) : x.rows \in PartRows(L)  BY DEF RowsFrames, StateFrames
<1>2. \A x \in Acks : x.t = "ack"  BY DEF Acks
<1>3. CASE \E p \in publishing : f = p.frame
  <2>1. f \in RowsFrames(L)  BY <1>3 DEF RoomShapes, InHand
  <2> QED  BY <1>1, <2>1, PartParts
<1>4. CASE \E d \in Devices : f \in SocketFrames(sock[d])
  <2>1. PICK d \in Devices : f \in SocketFrames(sock[d])  BY <1>4
  <2>2. sock[d].bcast \in Seq(RowsFrames(L)) /\ sock[d].down \in Seq(DownFrames(L))
    BY SocketParts DEF RoomShapes
  <2>3. f \in RowsFrames(L) \/ f \in DownFrames(L)  BY <2>1, <2>2, ToSetOfSeq DEF SocketFrames
  <2>4. f \in RowsFrames(L) \cup StateFrames(L)  BY <1>2, <2>3 DEF DownFrames
  <2> QED  BY <1>1, <2>4, PartParts
<1> QED  BY <1>3, <1>4 DEF Frames, SocketFrames

LEMMA FramesAreStamped ==
  ASSUME NEW L, RoomShapes(L), NEW f \in Frames
  PROVE  f.seq \in Nat
<1>1. \A x \in DownFrames(L) \cup RowsFrames(L) : x.seq \in Nat
  BY DEF DownFrames, RowsFrames, StateFrames, Acks
<1>2. CASE \E p \in publishing : f = p.frame  BY <1>1, <1>2 DEF RoomShapes, InHand
<1>3. CASE \E d \in Devices : f \in SocketFrames(sock[d])
  <2>1. PICK d \in Devices : f \in SocketFrames(sock[d])  BY <1>3
  <2>2. sock[d].bcast \in Seq(RowsFrames(L)) /\ sock[d].down \in Seq(DownFrames(L))
    BY SocketParts DEF RoomShapes
  <2>3. f \in RowsFrames(L) \/ f \in DownFrames(L)  BY <2>1, <2>2, ToSetOfSeq DEF SocketFrames
  <2> QED  BY <1>1, <2>3
<1> QED  BY <1>2, <1>3 DEF Frames, SocketFrames

\* Copies made of older ones and of the server's rows are older rows still.
LEMMA CopiesStayOlder ==
  ASSUME NEW L, Shapes(L), Shapes(L)', CopiesAreOlder, FramesCome, RowsCome, TableMoves(L),
         epoch' = epoch \/ epoch' # 0
  PROVE  CopiesAreOlder'
<1>0. SUFFICES ASSUME epoch' = 0
               PROVE  /\ AbsentIsMissing'
                      /\ \A d \in Devices, i \in Ids : OlderRow(i, doc[d].rows[i])'
                                                       /\ OlderRow(i, saved[d].doc.rows[i])'
                      /\ \A d \in Devices : /\ doc'[d].cursor <= server'.seq
                                             /\ saved'[d].doc.cursor <= server'.seq
                      /\ \A f \in Frames' : OlderFrame(f)' /\ f.seq <= server'.seq
  BY DEF CopiesAreOlder
<1>1. /\ RoomShapes(L) /\ DocShapes(L) /\ server \in Tables(L) /\ server' \in Tables(L)
      /\ AbsentIsMissing
      /\ \A d \in Devices, i \in Ids : OlderRow(i, doc[d].rows[i]) /\ OlderRow(i, saved[d].doc.rows[i])
      /\ \A d \in Devices : doc[d].cursor <= server.seq /\ saved[d].doc.cursor <= server.seq
      /\ \A f \in Frames : OlderFrame(f) /\ f.seq <= server.seq
  BY <1>0 DEF Shapes, RoomShapes, CopiesAreOlder
<1>2. \A i \in Ids : /\ server.rows[i] \in Rows(L) /\ server.rows[i].seq \in Nat /\ server.rows[i].del \in Nat
                     /\ server'.rows[i] \in Rows(L) /\ server'.rows[i].seq \in Nat /\ server'.rows[i].del \in Nat
  <2>1. \A i \in Ids : server.rows[i] \in Rows(L) /\ server'.rows[i] \in Rows(L)  BY <1>1 DEF Tables
  <2> QED  BY <2>1, RowParts
<1>3. \A i \in Ids : \/ server'.rows[i] = server.rows[i]
                     \/ /\ server'.rows[i].seq > server.rows[i].seq
                        /\ server'.rows[i].del >= server.rows[i].del
                        /\ server'.rows[i].state # "missing"
  BY <1>0, <1>1, RowsGetNewStamps
<1>4. AbsentIsMissing'  BY <1>1, <1>2, <1>3 DEF AbsentIsMissing
<1>5. ASSUME NEW i \in Ids, NEW row \in Rows(L), Older(row, server.rows[i])
      PROVE  Older(row, server'.rows[i])
  <2>1. PICK own, new : own = server.rows[i] /\ new = server'.rows[i]  OBVIOUS
  <2>2. /\ row.seq \in Nat /\ row.del \in Nat /\ own.seq \in Nat /\ own.del \in Nat
        /\ new.seq \in Nat /\ new.del \in Nat
        /\ (new = own \/ (new.seq > own.seq /\ new.del >= own.del))
    BY <1>2, <1>3, <2>1, RowParts
  <2>3. Older(row, new)  BY <1>5, <2>1, <2>2, OlderStays
  <2> QED  BY <2>1, <2>3
<1>6. \A i \in Ids : Older(server'.rows[i], server'.rows[i])  BY <1>2 DEF Older
<1>7. ASSUME NEW f \in Frames PROVE f.t # "ack" => \A i \in DOMAIN f.rows : Older(f.rows[i], server'.rows[i])
  <2>1. SUFFICES ASSUME f.t # "ack", NEW i \in DOMAIN f.rows PROVE Older(f.rows[i], server'.rows[i])
    OBVIOUS
  <2>2. PICK row : row = f.rows[i]  OBVIOUS
  <2>3. i \in Ids /\ row \in Rows(L)  BY <1>1, <2>1, <2>2, FramesHoldRows
  <2>4. Older(row, server.rows[i])  BY <1>1, <2>1, <2>2 DEF OlderFrame, OlderRow
  <2> QED  BY <1>5, <2>2, <2>3, <2>4
<1>8. ASSUME NEW f \in Frames' PROVE OlderFrame(f)' /\ f.seq <= server'.seq
  <2>1. f \in Frames \/ f.t = "ack" \/ \A i \in DOMAIN f.rows : i \in Ids /\ f.rows[i] = server'.rows[i]
    BY <1>8 DEF FramesCome, FreshFrame
  <2>2. f.t # "ack" => \A i \in DOMAIN f.rows : Older(f.rows[i], server'.rows[i])
    BY <1>6, <1>7, <2>1
  <2>3. \A g \in Frames : g.seq <= server'.seq
    <3>1. \A g \in Frames : g.seq \in Nat  BY <1>1, FramesAreStamped
    <3> QED  BY <1>0, <1>1, <3>1, TableGrows DEF Tables
  <2>4. f.seq <= server'.seq  BY <1>8, <2>3 DEF FramesCome, FreshFrame
  <2> QED  BY <2>2, <2>4 DEF OlderFrame, OlderRow
<1>9. ASSUME NEW d \in Devices, NEW i \in Ids, NEW row, RowComes(d, i, row)
      PROVE  Older(row, server'.rows[i])
  <2>1. CASE row = doc[d].rows[i]
    <3>1. row \in Rows(L)
      <4>1. doc[d] \in Docs(d, L)  BY <1>1 DEF DocShapes
      <4> QED  BY <2>1, <4>1, DocParts
    <3>2. Older(row, server.rows[i])  BY <1>1, <2>1 DEF OlderRow
    <3> QED  BY <1>5, <3>1, <3>2
  <2>2. CASE row = saved[d].doc.rows[i]
    <3>1. row \in Rows(L)
      <4>1. saved[d].doc \in Docs(d, L)  BY <1>1 DEF DocShapes, SavedDocs
      <4> QED  BY <2>2, <4>1, DocParts
    <3>2. Older(row, server.rows[i])  BY <1>1, <2>2 DEF OlderRow
    <3> QED  BY <1>5, <3>1, <3>2
  <2>3. CASE row = Missing
    <3>1. row.seq = 0 /\ row.del = 0  BY <2>3 DEF Missing
    <3> QED  BY <1>2, <1>4, <2>3, <3>1 DEF Older, AbsentIsMissing
  <2>4. CASE \E f \in Frames : f.t # "ack" /\ i \in DOMAIN f.rows /\ f.rows[i] = row
    BY <1>7, <2>4
  <2> QED  BY <1>9, <2>1, <2>2, <2>3, <2>4 DEF RowComes
<1>10. \A d \in Devices, i \in Ids : OlderRow(i, doc[d].rows[i])' /\ OlderRow(i, saved[d].doc.rows[i])'
  <2>1. ASSUME NEW d \in Devices, NEW i \in Ids
        PROVE  Older(doc'[d].rows[i], server'.rows[i]) /\ Older(saved'[d].doc.rows[i], server'.rows[i])
    <3>1. PICK a, b : a = doc'[d].rows[i] /\ b = saved'[d].doc.rows[i]  OBVIOUS
    <3>2. RowComes(d, i, a) /\ RowComes(d, i, b)  BY <3>1 DEF RowsCome
    <3>3. Older(a, server'.rows[i]) /\ Older(b, server'.rows[i])  BY <1>9, <3>2
    <3> QED  BY <3>1, <3>3
  <2> QED  BY <2>1 DEF OlderRow
<1>11. ASSUME NEW d \in Devices, NEW c, CursorComes(d, c) PROVE c <= server'.seq
  <2>1. \A g \in Frames : g.seq \in Nat  BY <1>1, FramesAreStamped
  <2>2. doc[d].cursor \in Nat /\ saved[d].doc.cursor \in Nat
    <3>1. doc[d] \in Docs(d, L) /\ saved[d].doc \in Docs(d, L)  BY <1>1 DEF DocShapes, SavedDocs
    <3> QED  BY <3>1, DocParts
  <2>3. server.seq \in Nat /\ server'.seq \in Nat /\ server'.seq >= server.seq
    BY <1>0, <1>1, TableGrows DEF Tables
  <2> QED  BY <1>1, <1>11, <2>1, <2>2, <2>3 DEF CursorComes
<1>12. \A d \in Devices : doc'[d].cursor <= server'.seq /\ saved'[d].doc.cursor <= server'.seq
  <2>1. ASSUME NEW d \in Devices PROVE doc'[d].cursor <= server'.seq /\ saved'[d].doc.cursor <= server'.seq
    <3>1. PICK a, b : a = doc'[d].cursor /\ b = saved'[d].doc.cursor  OBVIOUS
    <3>2. CursorComes(d, a) /\ CursorComes(d, b)  BY <3>1 DEF RowsCome
    <3>3. a <= server'.seq /\ b <= server'.seq  BY <1>11, <3>2
    <3> QED  BY <3>1, <3>3
  <2> QED  BY <2>1
<1> QED  BY <1>4, <1>8, <1>10, <1>12

LEMMA CopiesAlwaysOlder ==
  Spec => []CopiesAreOlder
<1>1. Init => CopiesAreOlder
  <2> SUFFICES ASSUME Init PROVE CopiesAreOlder  OBVIOUS
  <2>1. Frames = {}
    <3>1. SocketFrames(NoSocket) = {}  BY DEF SocketFrames, NoSocket, ToSet
    <3> QED  BY <3>1 DEF Init, RoomInit, Frames
  <2>2. \A i \in Ids : server.rows[i] = Missing  BY DEF Init, RoomInit, EmptyTable
  <2>3. \A i \in Ids : OlderRow(i, Missing)  BY <2>2 DEF OlderRow, Older, Missing
  <2>4. \A d \in Devices, i \in Ids : doc[d].rows[i] = Missing /\ saved[d].doc.rows[i] = Missing
    BY DEF Init, NewDoc
  <2>5. AbsentIsMissing  BY <2>2 DEF AbsentIsMissing
  <2>6. server.seq = 0 /\ \A d \in Devices : doc[d].cursor = 0 /\ saved[d].doc.cursor = 0
    BY DEF Init, RoomInit, EmptyTable, NewDoc
  <2> QED  BY <2>1, <2>3, <2>4, <2>5, <2>6 DEF CopiesAreOlder
<1>2. Shapes(Pairs) /\ Shapes(Pairs)' /\ CopiesAreOlder /\ [Next]_vars => CopiesAreOlder'
  <2> SUFFICES ASSUME Shapes(Pairs), Shapes(Pairs)', CopiesAreOlder, [Next]_vars
               PROVE  CopiesAreOlder'
    OBVIOUS
  <2>1. CASE Resting
    <3>1. AtRest  BY <2>1, RestingIsRest
    <3> QED  BY <3>1 DEF CopiesAreOlder, AbsentIsMissing, OlderRow, OlderFrame, Frames, AtRest
  <2>2. ASSUME FramesCome, RowsCome, server' = server, epoch' = epoch PROVE CopiesAreOlder'
    BY <2>2, CopiesStayOlder DEF TableMoves
  <2>3. ASSUME NEW d \in Devices, Serve(d) PROVE CopiesAreOlder'
    <3>1. FramesCome /\ TableMoves(Pairs) /\ UNCHANGED <<doc, saved, epoch>>
      BY <2>3, ServeBringsFrames
    <3> QED  BY <3>1, RowsStay, CopiesStayOlder
  <2>4. ASSUME NEW d \in Devices,
               \/ Dial(d) \/ SkipFrame(d) \/ PushPending(d) \/ Cut(d)
               \/ \E now \in Readings(d) : \/ ReceiveState(d, now) \/ ReceiveFrame(d, now)
                                           \/ SaveSnapshot(d, now) \/ Crash(d, now)
        PROVE  CopiesAreOlder'
    BY <2>2, <2>4, OthersBringFrames
  <2>5. ASSUME NEW p \in publishing, Publish(p) PROVE CopiesAreOlder'
    BY <2>2, <2>5, PublishBringsFrames
  <2>6. ASSUME NEW kind, Restart(kind) PROVE CopiesAreOlder'
    <3>1. FramesCome /\ RowsCome /\ ((server' = server /\ epoch' = epoch) \/ epoch' # 0)
      BY <2>6, RestartBringsNoRows
    <3>2. TableMoves(Pairs) /\ (epoch' = epoch \/ epoch' # 0)  BY <3>1 DEF TableMoves
    <3> QED  BY <3>1, <3>2, CopiesStayOlder
  <2>7. ASSUME NEW d \in Devices, NEW now \in Readings(d), NEW kind \in Kinds,
               NEW ids \in (SUBSET Ids) \ {{}}, NEW F \in (SUBSET Fields) \ {{}},
               LocalWrite(d, now, kind, ids, F)
        PROVE  CopiesAreOlder'
    <3>1. now \in Nat  BY ReadingsAreNat DEF Shapes
    <3> QED  BY <2>2, <2>7, <3>1, LocalWriteBringsNoRows
  <2> QED  BY <2>1, <2>3, <2>4, <2>5, <2>6, <2>7 DEF Next, Resting
<1> QED  BY <1>1, <1>2, ShapesAlways, PTL DEF Spec

\* As long as the server kept its table, no replica holds a row newer than the server's,
\* and a row with the server's stamp is the server's: rows are only ever copied from the
\* table, whatever is lost, delayed or overtaken on the way.
THEOREM RowsAreAlwaysTheServers == Spec => []RowsAreTheServers
<1>1. CopiesAreOlder => RowsAreTheServers
  BY DEF CopiesAreOlder, RowsAreTheServers, OlderRow, Older
<1> QED  BY <1>1, CopiesAlwaysOlder, PTL

-----------------------------------------------------------------------------
(* What is on its way to a replica.  A socket is seen as the sequence of    *)
(* frames it will still bring: those of `down', then those of `bcast', then *)
(* those of the batches in hand, H, in the order of their stamps.           *)

\* The frame brings row r; it brings something else.
Gives(f, i, r) == f.t # "ack" /\ i \in DOMAIN f.rows /\ f.rows[i] = r

Spoils(f, i, r) ==
  /\ f.t # "ack"
  /\ \/ i \in DOMAIN f.rows /\ f.rows[i] # r
     \/ f.t = "state" /\ f.full /\ i \notin DOMAIN f.rows /\ r # Missing

GivenIn(q, n, i, r) == \E m \in DOMAIN q : m > n /\ Gives(q[m], i, r)

Handed(H, i, r) == \E f \in H : Gives(f, i, r)

\* Row r is brought after the n-th frame of `down'.
Later(s, H, n, i, r) ==
  s.lagged \/ GivenIn(s.down, n, i, r) \/ GivenIn(s.bcast, 0, i, r) \/ Handed(H, i, r)

HandInOrder(H, i, r) ==
  \A f \in H : Spoils(f, i, r) => \E g \in H : g.seq > f.seq /\ Gives(g, i, r)

\* Whatever brings another row is followed by what brings r.
InOrder(s, H, i, r) ==
  /\ \A n \in DOMAIN s.bcast : Spoils(s.bcast[n], i, r) => GivenIn(s.bcast, n, i, r) \/ Handed(H, i, r)
  /\ \A n \in DOMAIN s.down : Spoils(s.down[n], i, r) => Later(s, H, n, i, r)

FirstState(s, n) ==
  s.down[n].t = "state" /\ \A m \in DOMAIN s.down : m < n => s.down[m].t # "state"

\* A joined replica holds r or will be brought it; one that waits for its answer will be
\* by the answer or after it.
Answered(s, H, l, row, i, r) ==
  /\ l = "ready" => row = r \/ Later(s, H, 0, i, r)
  /\ l = "hello" => \A n \in DOMAIN s.down : FirstState(s, n) => row = r \/ Later(s, H, n - 1, i, r)

LEMMA PlacesOfTail ==
  ASSUME NEW S, NEW q \in Seq(S), q # <<>>
  PROVE  /\ DOMAIN q = 1 .. Len(q) /\ Len(q) \in Nat /\ Len(q) # 0
         /\ DOMAIN Tail(q) = 1 .. Len(q) - 1 /\ Tail(q) \in Seq(S)
         /\ \A n \in DOMAIN Tail(q) : Tail(q)[n] = q[n + 1]
         /\ Head(q) = q[1] /\ q[1] \in S
OBVIOUS

LEMMA PlacesOfAppend ==
  ASSUME NEW S, NEW q \in Seq(S), NEW x
  PROVE  /\ DOMAIN q = 1 .. Len(q) /\ Len(q) \in Nat
         /\ DOMAIN Append(q, x) = 1 .. Len(q) + 1
         /\ \A n \in DOMAIN q : Append(q, x)[n] = q[n]
         /\ Append(q, x)[Len(q) + 1] = x
OBVIOUS

LEMMA GivenInTail ==
  ASSUME NEW S, NEW q \in Seq(S), q # <<>>, NEW n \in Nat, NEW i, NEW r
  PROVE  GivenIn(q, n + 1, i, r) => GivenIn(Tail(q), n, i, r)
<1>1. SUFFICES ASSUME NEW m \in DOMAIN q, m > n + 1, Gives(q[m], i, r)
               PROVE  GivenIn(Tail(q), n, i, r)
  BY DEF GivenIn
<1>2. PICK t : t = Tail(q)  OBVIOUS
<1>3. /\ DOMAIN q = 1 .. Len(q) /\ Len(q) \in Nat /\ DOMAIN t = 1 .. Len(q) - 1
      /\ \A k \in DOMAIN t : t[k] = q[k + 1]
  BY <1>2, PlacesOfTail
<1>4. m - 1 \in DOMAIN t /\ m - 1 > n /\ t[m - 1] = q[m]  BY <1>1, <1>3
<1> QED  BY <1>1, <1>2, <1>4 DEF GivenIn

LEMMA GivenInAppend ==
  ASSUME NEW S, NEW q \in Seq(S), NEW x, NEW n \in Nat, NEW i, NEW r
  PROVE  /\ GivenIn(q, n, i, r) => GivenIn(Append(q, x), n, i, r)
         /\ Gives(x, i, r) /\ n <= Len(q) => GivenIn(Append(q, x), n, i, r)
<1>1. PICK t : t = Append(q, x)  OBVIOUS
<1>2. /\ DOMAIN q = 1 .. Len(q) /\ Len(q) \in Nat /\ DOMAIN t = 1 .. Len(q) + 1
      /\ \A k \in DOMAIN q : t[k] = q[k]
      /\ t[Len(q) + 1] = x
  BY <1>1, PlacesOfAppend
<1> QED  BY <1>1, <1>2 DEF GivenIn

\* The client takes a frame.
LEMMA StreamTaken ==
  ASSUME NEW L, NEW s \in Sockets(L), s.down # <<>>, NEW t \in Sockets(L),
         t.down = Tail(s.down), t.bcast = s.bcast, t.lagged = s.lagged,
         NEW H, NEW i, NEW r, InOrder(s, H, i, r)
  PROVE  InOrder(t, H, i, r) /\ \A n \in Nat : Later(s, H, n + 1, i, r) => Later(t, H, n, i, r)
<1>1. PICK q \in Seq(DownFrames(L)) : q = s.down  BY DEF Sockets
<1>2. \A n \in Nat : Later(s, H, n + 1, i, r) => Later(t, H, n, i, r)
  BY <1>1, GivenInTail DEF Later
<1>3. \A n \in DOMAIN t.down : n \in Nat /\ n + 1 \in DOMAIN s.down /\ t.down[n] = s.down[n + 1]
  BY <1>1, PlacesOfTail
<1> QED  BY <1>2, <1>3 DEF InOrder

\* A broadcast frame is sent.
LEMMA StreamSent ==
  ASSUME NEW L, NEW s \in Sockets(L), s.bcast # <<>>, NEW t \in Sockets(L),
         t.down = Append(s.down, Head(s.bcast)), t.bcast = Tail(s.bcast), t.lagged = s.lagged,
         NEW H, NEW i, NEW r, InOrder(s, H, i, r)
  PROVE  /\ InOrder(t, H, i, r)
         /\ \A n \in Nat : n <= Len(s.down) /\ Later(s, H, n, i, r) => Later(t, H, n, i, r)
<1>1. PICK q \in Seq(DownFrames(L)) : q = s.down  BY DEF Sockets
<1>2. PICK b \in Seq(RowsFrames(L)) : b = s.bcast /\ b # <<>>  BY DEF Sockets
<1>3. PICK x, c, p : x = Head(b) /\ c = Tail(b) /\ p = Append(q, x)  OBVIOUS
<1>4. /\ DOMAIN b = 1 .. Len(b) /\ Len(b) \in Nat /\ Len(b) # 0 /\ DOMAIN c = 1 .. Len(b) - 1
      /\ (\A n \in DOMAIN c : c[n] = b[n + 1]) /\ x = b[1]
  BY <1>2, <1>3, PlacesOfTail
<1>5. /\ DOMAIN q = 1 .. Len(q) /\ Len(q) \in Nat /\ DOMAIN p = 1 .. Len(q) + 1
      /\ (\A n \in DOMAIN q : p[n] = q[n]) /\ p[Len(q) + 1] = x
  BY <1>3, PlacesOfAppend
<1>6. t.down = p /\ t.bcast = c  BY <1>1, <1>2, <1>3
<1>7. \A n \in Nat : GivenIn(b, n + 1, i, r) => GivenIn(c, n, i, r)  BY <1>2, <1>3, GivenInTail
<1>8. \A n \in Nat : /\ GivenIn(q, n, i, r) => GivenIn(p, n, i, r)
                     /\ Gives(x, i, r) /\ n <= Len(q) => GivenIn(p, n, i, r)
  BY <1>1, <1>3, GivenInAppend
<1>9. GivenIn(b, 0, i, r) => Gives(x, i, r) \/ GivenIn(b, 1, i, r)
  BY <1>4 DEF GivenIn
<1>10. ASSUME NEW n \in Nat, n <= Len(q), Later(s, H, n, i, r) PROVE Later(t, H, n, i, r)
  <2>1. GivenIn(b, 1, i, r) => GivenIn(c, 0, i, r)  BY <1>7
  <2> QED  BY <1>1, <1>2, <1>6, <1>8, <1>9, <1>10, <2>1 DEF Later
<1>11. ASSUME NEW n \in DOMAIN c, Spoils(c[n], i, r) PROVE GivenIn(c, n, i, r) \/ Handed(H, i, r)
  <2>1. n \in Nat /\ n + 1 \in DOMAIN b /\ c[n] = b[n + 1]  BY <1>4
  <2>2. GivenIn(b, n + 1, i, r) \/ Handed(H, i, r)  BY <1>2, <1>11, <2>1 DEF InOrder
  <2> QED  BY <1>7, <2>1, <2>2
<1>12. ASSUME NEW n \in DOMAIN p, Spoils(p[n], i, r) PROVE Later(t, H, n, i, r)
  <2>1. CASE n \in DOMAIN q
    <3>1. p[n] = q[n] /\ n \in Nat /\ n <= Len(q)  BY <1>5, <2>1
    <3>2. Later(s, H, n, i, r)  BY <1>1, <1>12, <2>1, <3>1 DEF InOrder
    <3> QED  BY <1>10, <3>1, <3>2
  <2>2. CASE n \notin DOMAIN q
    <3>1. p[n] = b[1] /\ 1 \in DOMAIN b  BY <1>4, <1>5, <2>2
    <3>2. GivenIn(b, 0 + 1, i, r) \/ Handed(H, i, r)  BY <1>2, <1>12, <3>1 DEF InOrder
    <3>3. GivenIn(c, 0, i, r) \/ Handed(H, i, r)  BY <1>7, <3>2
    <3> QED  BY <1>6, <3>3 DEF Later
  <2> QED  BY <2>1, <2>2
<1> QED  BY <1>1, <1>6, <1>10, <1>11, <1>12 DEF InOrder

\* A reply is sent, which may be the whole table that makes up for what was lost.
LEMMA StreamReplied ==
  ASSUME NEW L, NEW s \in Sockets(L), NEW t \in Sockets(L), NEW x, NEW H, NEW i, NEW r,
         t.down = Append(s.down, x), t.bcast = s.bcast, t.lagged = s.lagged \/ Gives(x, i, r),
         ~ Spoils(x, i, r), InOrder(s, H, i, r)
  PROVE  /\ InOrder(t, H, i, r)
         /\ \A n \in Nat : n <= Len(s.down) /\ Later(s, H, n, i, r) => Later(t, H, n, i, r)
<1>1. PICK q \in Seq(DownFrames(L)) : q = s.down  BY DEF Sockets
<1>2. PICK p : p = Append(q, x)  OBVIOUS
<1>3. /\ DOMAIN q = 1 .. Len(q) /\ Len(q) \in Nat /\ DOMAIN p = 1 .. Len(q) + 1
      /\ (\A n \in DOMAIN q : p[n] = q[n]) /\ p[Len(q) + 1] = x
  BY <1>2, PlacesOfAppend
<1>4. \A n \in Nat : /\ GivenIn(q, n, i, r) => GivenIn(p, n, i, r)
                     /\ Gives(x, i, r) /\ n <= Len(q) => GivenIn(p, n, i, r)
  BY <1>1, <1>2, GivenInAppend
<1>5. t.down = p  BY <1>1, <1>2
<1>6. ASSUME NEW n \in Nat, n <= Len(q), Later(s, H, n, i, r) PROVE Later(t, H, n, i, r)
  <2>1. CASE Gives(x, i, r)  BY <1>4, <1>5, <1>6, <2>1 DEF Later
  <2>2. CASE ~ Gives(x, i, r)
    <3>1. t.lagged = s.lagged  BY <2>2
    <3> QED  BY <1>1, <1>4, <1>5, <1>6, <3>1 DEF Later
  <2> QED  BY <2>1, <2>2
<1>7. ASSUME NEW n \in DOMAIN p, Spoils(p[n], i, r) PROVE Later(t, H, n, i, r)
  <2>1. n \in DOMAIN q  BY <1>3, <1>7
  <2>2. p[n] = q[n] /\ n \in Nat /\ n <= Len(q)  BY <1>3, <2>1
  <2>3. Later(s, H, n, i, r)  BY <1>1, <1>7, <2>1, <2>2 DEF InOrder
  <2> QED  BY <1>6, <2>2, <2>3
<1> QED  BY <1>1, <1>5, <1>6, <1>7 DEF InOrder

\* The frames of a batch in hand are broadcast, in the order of their stamps.
LEMMA StreamBroadcast ==
  ASSUME NEW L, NEW s \in Sockets(L), s.open, NEW f, NEW q, Queued(L, s, f, q), NEW t \in Sockets(L),
         t.down = s.down \/ \E a : a.t = "ack" /\ t.down = Append(s.down, a),
         t.bcast = q.bcast, t.lagged = q.lagged,
         NEW H, NEW G, G \subseteq H, H \subseteq G \cup {f}, NEW i, NEW r,
         Spoils(f, i, r) => Handed(G, i, r), InOrder(s, H, i, r)
  PROVE  /\ InOrder(t, G, i, r)
         /\ \A n \in Nat : Later(s, H, n, i, r) => Later(t, G, n, i, r)
<1>1. PICK d \in Seq(DownFrames(L)) : d = s.down  BY DEF Sockets
<1>2. PICK b \in Seq(RowsFrames(L)) : b = s.bcast  BY DEF Sockets
<1>3. PICK c : c = t.bcast  OBVIOUS
<1>4. \/ c = Append(b, f) /\ t.lagged = s.lagged
      \/ b # <<>> /\ c = Append(Tail(b), f) /\ t.lagged = TRUE
  BY <1>2, <1>3 DEF Queued
<1>5. \A n \in Nat : GivenIn(s.down, n, i, r) => GivenIn(t.down, n, i, r)
  BY <1>1, GivenInAppend
<1>6. Handed(H, i, r) => Handed(G, i, r) \/ Gives(f, i, r)  BY DEF Handed
<1>7. Gives(f, i, r) => GivenIn(c, 0, i, r)
  <2>0. ASSUME NEW u \in Seq(RowsFrames(L)) PROVE Gives(f, i, r) => GivenIn(Append(u, f), 0, i, r)
    <3>1. 0 \in Nat /\ 0 <= Len(u)  OBVIOUS
    <3> QED  BY <3>1, GivenInAppend
  <2>1. CASE c = Append(b, f)  BY <2>0, <2>1
  <2>2. CASE b # <<>> /\ c = Append(Tail(b), f)
    <3>1. Tail(b) \in Seq(RowsFrames(L))  BY <2>2, PlacesOfTail
    <3> QED  BY <2>0, <2>2, <3>1
  <2> QED  BY <1>4, <2>1, <2>2
<1>8. GivenIn(b, 0, i, r) => GivenIn(c, 0, i, r) \/ t.lagged
  BY <1>4, GivenInAppend
<1>9. ASSUME NEW n \in Nat, Later(s, H, n, i, r) PROVE Later(t, G, n, i, r)
  <2>1. s.lagged => t.lagged  BY <1>4
  <2> QED  BY <1>2, <1>3, <1>5, <1>6, <1>7, <1>8, <1>9, <2>1 DEF Later
<1>10. ASSUME NEW n \in DOMAIN t.down, Spoils(t.down[n], i, r) PROVE Later(t, G, n, i, r)
  <2>1. n \in DOMAIN d /\ t.down[n] = d[n] /\ n \in Nat
    <3>1. CASE t.down = s.down  BY <1>1, <3>1
    <3>2. CASE \E a : a.t = "ack" /\ t.down = Append(s.down, a)
      <4>1. PICK a : a.t = "ack" /\ t.down = Append(d, a)  BY <1>1, <3>2
      <4>2. PICK p : p = Append(d, a)  OBVIOUS
      <4>3. /\ DOMAIN d = 1 .. Len(d) /\ Len(d) \in Nat /\ DOMAIN p = 1 .. Len(d) + 1
            /\ (\A k \in DOMAIN d : p[k] = d[k]) /\ p[Len(d) + 1] = a
        BY <4>2, PlacesOfAppend
      <4>4. ~ Spoils(a, i, r)  BY <4>1 DEF Spoils
      <4> QED  BY <1>10, <4>1, <4>2, <4>3, <4>4
    <3> QED  BY <3>1, <3>2
  <2>2. Later(s, H, n, i, r)  BY <1>1, <1>10, <2>1 DEF InOrder
  <2> QED  BY <1>9, <2>1, <2>2
<1>11. ASSUME NEW n \in DOMAIN c, Spoils(c[n], i, r) PROVE GivenIn(c, n, i, r) \/ Handed(G, i, r)
  <2>1. CASE c = Append(b, f)
    <3>1. /\ DOMAIN b = 1 .. Len(b) /\ Len(b) \in Nat /\ DOMAIN c = 1 .. Len(b) + 1
          /\ (\A k \in DOMAIN b : c[k] = b[k]) /\ c[Len(b) + 1] = f
      BY <2>1, PlacesOfAppend
    <3>2. CASE n \in DOMAIN b
      <4>1. GivenIn(b, n, i, r) \/ Handed(H, i, r)  BY <1>2, <1>11, <3>1, <3>2 DEF InOrder
      <4>2. n \in Nat /\ n <= Len(b)  BY <3>1, <3>2
      <4> QED  BY <1>6, <2>1, <4>1, <4>2, GivenInAppend
    <3>3. CASE n \notin DOMAIN b  BY <1>11, <3>1, <3>3
    <3> QED  BY <3>2, <3>3
  <2>2. CASE b # <<>> /\ c = Append(Tail(b), f)
    <3>0. PICK u \in Seq(RowsFrames(L)) : u = Tail(b)  BY <2>2, PlacesOfTail
    <3>1. /\ DOMAIN u = 1 .. Len(u) /\ Len(u) \in Nat /\ DOMAIN c = 1 .. Len(u) + 1
          /\ (\A k \in DOMAIN u : c[k] = u[k]) /\ c[Len(u) + 1] = f
      BY <2>2, <3>0, PlacesOfAppend
    <3>2. \A k \in DOMAIN u : k + 1 \in DOMAIN b /\ u[k] = b[k + 1]
      BY <2>2, <3>0, <3>1, PlacesOfTail
    <3>3. CASE n \in DOMAIN u
      <4>1. n \in Nat /\ n <= Len(u) /\ c[n] = b[n + 1] /\ n + 1 \in DOMAIN b  BY <3>1, <3>2, <3>3
      <4>2. GivenIn(b, n + 1, i, r) \/ Handed(H, i, r)  BY <1>2, <1>11, <4>1 DEF InOrder
      <4>3. GivenIn(b, n + 1, i, r) => GivenIn(u, n, i, r)  BY <2>2, <3>0, <4>1, GivenInTail
      <4>4. /\ GivenIn(u, n, i, r) => GivenIn(c, n, i, r)
            /\ Gives(f, i, r) => GivenIn(c, n, i, r)
        BY <2>2, <3>0, <4>1, GivenInAppend
      <4> QED  BY <1>6, <4>2, <4>3, <4>4
    <3>4. CASE n \notin DOMAIN u  BY <1>11, <3>1, <3>4
    <3> QED  BY <3>3, <3>4
  <2> QED  BY <1>4, <2>1, <2>2
<1> QED  BY <1>3, <1>9, <1>10, <1>11 DEF InOrder

LEMMA HandInOrderKept ==
  ASSUME NEW L, NEW H, \A h \in H : h.seq \in Nat, NEW f \in H, \A h \in H : ~ (h.seq < f.seq),
         NEW G, G \subseteq H, H \subseteq G \cup {f}, NEW i, NEW r, HandInOrder(H, i, r)
  PROVE  HandInOrder(G, i, r) /\ (Spoils(f, i, r) => Handed(G, i, r))
<1>1. ASSUME NEW h \in G, Spoils(h, i, r) PROVE \E g \in G : g.seq > h.seq /\ Gives(g, i, r)
  <2>1. PICK g \in H : g.seq > h.seq /\ Gives(g, i, r)  BY <1>1 DEF HandInOrder
  <2>2. g # f \/ g \in G  BY <2>1
  <2> QED  BY <1>1, <2>1, <2>2
<1>2. ASSUME Spoils(f, i, r) PROVE Handed(G, i, r)
  <2>1. PICK g \in H : g.seq > f.seq /\ Gives(g, i, r)  BY <1>2 DEF HandInOrder
  <2>2. g # f  BY <2>1
  <2> QED  BY <2>1, <2>2 DEF Handed
<1> QED  BY <1>1, <1>2 DEF HandInOrder

\* What the client makes of the frame it takes.
Makes(f, i, row, new) ==
  \/ f.t # "ack" /\ i \in DOMAIN f.rows /\ new = f.rows[i]
  \/ (f.t # "ack" => i \notin DOMAIN f.rows) /\ new = row
  \/ f.t = "state" /\ f.full /\ i \notin DOMAIN f.rows

LEMMA FrameTakesEffect ==
  ASSUME NEW L, NEW s \in Sockets(L), s.down # <<>>, NEW t \in Sockets(L),
         t.down = Tail(s.down), t.bcast = s.bcast, t.lagged = s.lagged,
         NEW H, NEW i, NEW r, r # Missing, InOrder(s, H, i, r),
         NEW row, row = r \/ Later(s, H, 0, i, r), NEW new, Makes(Head(s.down), i, row, new)
  PROVE  new = r \/ Later(t, H, 0, i, r)
<1>1. PICK q \in Seq(DownFrames(L)) : q = s.down /\ q # <<>>  BY DEF Sockets
<1>2. PICK f : f = Head(q)  OBVIOUS
<1>3. 1 \in DOMAIN q /\ q[1] = f /\ DOMAIN q = 1 .. Len(q) /\ Len(q) \in Nat  BY <1>1, <1>2, PlacesOfTail
<1>4. \A n \in Nat : Later(s, H, n + 1, i, r) => Later(t, H, n, i, r)  BY StreamTaken
<1>5. CASE Spoils(f, i, r)
  <2>1. Later(s, H, 0 + 1, i, r)  BY <1>1, <1>3, <1>5 DEF InOrder
  <2> QED  BY <1>4, <2>1
<1>6. CASE ~ Spoils(f, i, r)
  <2>1. CASE f.t # "ack" /\ i \in DOMAIN f.rows /\ new = f.rows[i]  BY <1>6, <2>1 DEF Spoils
  <2>2. CASE (f.t # "ack" => i \notin DOMAIN f.rows) /\ new = row
    <3>1. ~ Gives(f, i, r)  BY <2>2 DEF Gives
    <3>2. GivenIn(q, 0, i, r) => GivenIn(q, 0 + 1, i, r)  BY <1>3, <3>1 DEF GivenIn
    <3>3. Later(s, H, 0, i, r) => Later(s, H, 0 + 1, i, r)  BY <1>1, <3>2 DEF Later
    <3> QED  BY <1>4, <2>2, <3>3
  <2>3. CASE f.t = "state" /\ f.full /\ i \notin DOMAIN f.rows  BY <1>6, <2>3 DEF Spoils
  <2> QED  BY <1>1, <1>2, <2>1, <2>2, <2>3 DEF Makes
<1> QED  BY <1>5, <1>6

\* Batches come in hand.
LEMMA StreamGrows ==
  ASSUME NEW s, NEW t, t.down = s.down, t.bcast = s.bcast, t.lagged = s.lagged,
         NEW H, NEW G, H \subseteq G, NEW i, NEW r, InOrder(s, H, i, r)
  PROVE  InOrder(t, G, i, r) /\ \A n \in Nat : Later(s, H, n, i, r) => Later(t, G, n, i, r)
<1>1. Handed(H, i, r) => Handed(G, i, r)  BY DEF Handed
<1>2. \A n : Later(s, H, n, i, r) => Later(t, G, n, i, r)  BY <1>1 DEF Later
<1> QED  BY <1>1, <1>2 DEF InOrder

\* An answer that will be right stays so while the stream moves and grows.
LEMMA AnswerStays ==
  ASSUME NEW L, NEW s \in Sockets(L), NEW t \in Sockets(L), NEW H, NEW G, NEW l, NEW row, NEW i, NEW r,
         \A n \in Nat : n <= Len(s.down) /\ Later(s, H, n, i, r) => Later(t, G, n, i, r),
         \A n \in DOMAIN s.down : n \in DOMAIN t.down /\ t.down[n] = s.down[n],
         \A n \in DOMAIN t.down : n \notin DOMAIN s.down /\ l = "hello" /\ FirstState(t, n)
                                    => row = r \/ Later(t, G, n - 1, i, r),
         Answered(s, H, l, row, i, r)
  PROVE  Answered(t, G, l, row, i, r)
<1>1. PICK q \in Seq(DownFrames(L)) : q = s.down  BY DEF Sockets
<1>2. DOMAIN q = 1 .. Len(q) /\ Len(q) \in Nat  BY <1>1
<1>3. CASE l = "ready"
  <2>1. row = r \/ Later(s, H, 0, i, r)  BY <1>3 DEF Answered
  <2>2. 0 \in Nat /\ 0 <= Len(s.down)  BY <1>1, <1>2
  <2> QED  BY <1>3, <2>1, <2>2 DEF Answered
<1>4. CASE l = "hello"
  <2>1. SUFFICES ASSUME NEW n \in DOMAIN t.down, FirstState(t, n)
                 PROVE  row = r \/ Later(t, G, n - 1, i, r)
    BY <1>4 DEF Answered
  <2>2. CASE n \in DOMAIN s.down
    <3>1. FirstState(s, n)  BY <2>1, <2>2 DEF FirstState
    <3>2. row = r \/ Later(s, H, n - 1, i, r)  BY <1>4, <2>2, <3>1 DEF Answered
    <3>3. n - 1 \in Nat /\ n - 1 <= Len(s.down)  BY <1>1, <1>2, <2>2
    <3> QED  BY <3>2, <3>3
  <2>3. CASE n \notin DOMAIN s.down  BY <1>4, <2>1, <2>3
  <2> QED  BY <2>2, <2>3
<1>5. CASE l # "ready" /\ l # "hello"  BY <1>5 DEF Answered
<1> QED  BY <1>3, <1>4, <1>5

-----------------------------------------------------------------------------
(* What the cursors cover *)

Hand == {p.frame : p \in publishing}

Ordered(d, i) == InOrder(sock[d], Hand, i, server.rows[i])

Reached(d, i) ==
  d \notin torn => Answered(sock[d], Hand, link[d], doc[d].rows[i], i, server.rows[i])

\* Without a session, a replica holds what its cursor has passed; so does a snapshot.
Claims(d, i) ==
  d \notin torn /\ link[d] # "ready" /\ server.rows[i].seq <= doc[d].cursor
    => doc[d].rows[i] = server.rows[i]

SavedClaims(d, i) ==
  ~ saved[d].owing /\ server.rows[i].seq <= saved[d].doc.cursor
    => saved[d].doc.rows[i] = server.rows[i]

Flow(d, i) == Ordered(d, i) /\ Reached(d, i) /\ Claims(d, i) /\ SavedClaims(d, i)

RowFlows(i) == HandInOrder(Hand, i, server.rows[i]) /\ \A d \in Devices : Flow(d, i)

Covered ==
  epoch = 0 /\ ~ overtaken => \A i \in Ids : server.rows[i] # Missing => RowFlows(i)

\* The hello of a session that waits for its answer says the replica's cursor.
Asking ==
  \A d \in Devices : link[d] = "hello" =>
    \A h \in ToSet(sock[d].up) : h.t = "hello" => h.cursor = doc[d].cursor

ClientStill(d, i) ==
  /\ link'[d] = link[d] /\ saved'[d] = saved[d] /\ (d \in torn => d \in torn')
  /\ doc'[d].rows[i] = doc[d].rows[i] /\ doc'[d].cursor = doc[d].cursor

LEMMA FlowByStream ==
  ASSUME NEW d \in Devices, NEW i \in Ids, Flow(d, i), ClientStill(d, i),
         server'.rows[i] = server.rows[i],
         InOrder(sock'[d], Hand', i, server.rows[i]),
         d \notin torn =>
           Answered(sock'[d], Hand', link[d], doc[d].rows[i], i, server.rows[i])
  PROVE  Flow(d, i)'
<1>1. Ordered(d, i)'  BY DEF Ordered
<1>2. Reached(d, i)'  BY DEF Reached, ClientStill
<1>3. Claims(d, i)'  BY DEF Flow, Claims, ClientStill
<1>4. SavedClaims(d, i)'  BY DEF Flow, SavedClaims, ClientStill
<1> QED  BY <1>1, <1>2, <1>3, <1>4 DEF Flow

LEMMA FlowOfOthers ==
  ASSUME NEW L, sock \in [Devices -> Sockets(L)], sock' \in [Devices -> Sockets(L)],
         NEW d \in Devices, NEW i \in Ids, Flow(d, i), ClientStill(d, i),
         server'.rows[i] = server.rows[i], Hand \subseteq Hand',
         sock'[d].down = sock[d].down, sock'[d].bcast = sock[d].bcast, sock'[d].lagged = sock[d].lagged
  PROVE  Flow(d, i)'
<1>1. PICK s \in Sockets(L), t \in Sockets(L) : s = sock[d] /\ t = sock'[d]  OBVIOUS
<1>2. PICK H, G, r : H = Hand /\ G = Hand' /\ r = server.rows[i]  OBVIOUS
<1>3. t.down = s.down /\ t.bcast = s.bcast /\ t.lagged = s.lagged /\ H \subseteq G /\ InOrder(s, H, i, r)
  BY <1>1, <1>2 DEF Flow, Ordered
<1>4. InOrder(t, G, i, r) /\ \A n \in Nat : Later(s, H, n, i, r) => Later(t, G, n, i, r)
  BY <1>3, StreamGrows
<1>5. PICK l, row : l = link[d] /\ row = doc[d].rows[i]  OBVIOUS
<1>6. d \notin torn => Answered(s, H, l, row, i, r)  BY <1>1, <1>2, <1>5 DEF Flow, Reached
<1>7. d \notin torn => Answered(t, G, l, row, i, r)  BY <1>3, <1>4, <1>6, AnswerStays
<1> QED  BY <1>1, <1>2, <1>4, <1>5, <1>7, FlowByStream

LEMMA AskingStays ==
  ASSUME Asking,
         \A d \in Devices : link'[d] = "hello" =>
           \A h \in ToSet(sock'[d].up) : h.t = "hello" =>
             \/ link[d] = "hello" /\ h \in ToSet(sock[d].up) /\ doc'[d].cursor = doc[d].cursor
             \/ h.cursor = doc'[d].cursor
  PROVE  Asking'
BY DEF Asking

LEMMA ServeKeepsAsking ==
  ASSUME NEW L, Shapes(L), Asking, NEW d \in Devices, Serve(d)
  PROVE  Asking'
<1>0. RoomShapes(L) /\ server \in Tables(L) /\ sock \in [Devices -> Sockets(L)]
      /\ sock[d].up \in Seq(UpFrames(L))
  BY SocketParts DEF Shapes, RoomShapes
<1>1. UNCHANGED <<doc, link>>  BY DEF Serve, docVars
<1>2. ASSUME NEW s, Resock(L, d, s), ToSet(s.up) \subseteq ToSet(sock[d].up) PROVE Asking'
  <2>1. sock'[d] = s /\ \A e \in Devices : e # d => sock'[e] = sock[e]  BY <1>0, <1>2, ResockFacts
  <2> QED  BY <1>1, <1>2, <2>1, AskingStays
<1>3. ASSUME sock' = sock PROVE Asking'  BY <1>1, <1>3, AskingStays
<1>4. ASSUME NEW t, NextFrame(d, t) PROVE ToSet(Tail(sock[d].up)) \subseteq ToSet(sock[d].up)
  <2>1. PICK u \in Seq(UpFrames(L)) : u = sock[d].up /\ u # <<>>  BY <1>0, <1>4, UpHead
  <2> QED  BY <2>1, ToSetOfTail
<1>5. CASE SendBroadcast(d)
  <2>1. PICK s : Resock(L, d, s) /\ s.up = sock[d].up  BY <1>0, <1>5, SendBroadcastEffect
  <2> QED  BY <1>2, <2>1
<1>6. CASE SendLaggedState(d)
  <2>1. PICK s : Resock(L, d, s) /\ s.up = sock[d].up  BY <1>0, <1>6, SendLaggedStateEffect
  <2> QED  BY <1>2, <2>1
<1>7. CASE HandleHello(d)
  <2>1. PICK s : \E h \in Hellos : Resock(L, d, s) /\ s.up = Tail(sock[d].up)
    BY <1>0, <1>7, HandleHelloEffect
  <2>2. NextFrame(d, "hello")  BY <1>7 DEF HandleHello
  <2> QED  BY <1>2, <1>4, <2>1, <2>2
<1>8. CASE LoseStale(d)  BY <1>3, <1>8 DEF LoseStale
<1>9. ASSUME NEW stored \in BOOLEAN, HandlePush(d, stored) PROVE Asking'
  <2>1. PICK push \in Pushes(L) : \E s : Resock(L, d, s) /\ s.up = Tail(sock[d].up)
    BY <1>0, <1>9, HandlePushEffect
  <2>2. NextFrame(d, "push")  BY <1>9 DEF HandlePush
  <2> QED  BY <1>2, <1>4, <2>1, <2>2
<1>10. ASSUME NEW stored \in BOOLEAN, HandleStalePush(d, stored) PROVE Asking'
  <2>1. sock' = sock  BY <1>10 DEF HandleStalePush
  <2> QED  BY <1>3, <2>1
<1> QED  BY <1>5, <1>6, <1>7, <1>8, <1>9, <1>10 DEF Serve

LEMMA OthersKeepAsking ==
  ASSUME NEW L, L \subseteq Pairs, Shapes(L), Asking, Next, \A d \in Devices : ~ Serve(d), ~ Writing
  PROVE  Asking'
<1>0. /\ RoomShapes(L) /\ DocShapes(L) /\ ClockShapes /\ sock \in [Devices -> Sockets(L)]
      /\ DOMAIN doc = Devices /\ DOMAIN link = Devices
  BY DEF Shapes, RoomShapes, DocShapes, Links
<1>1. ASSUME NEW d \in Devices, \A e \in Devices : e # d => UNCHANGED <<doc[e], link[e], sock[e]>>,
             link'[d] = "hello" =>
               \A h \in ToSet(sock'[d].up) : h.t = "hello" =>
                 \/ link[d] = "hello" /\ h \in ToSet(sock[d].up) /\ doc'[d].cursor = doc[d].cursor
                 \/ h.cursor = doc'[d].cursor
      PROVE  Asking'
  BY <1>1, AskingStays
<1>2. ASSUME NEW d \in Devices, Dial(d) PROVE Asking'
  <2>1. PICK fresh \in BOOLEAN :
          fresh = (doc[d].cursor = 0 /\ doc[d].pending = <<>> /\ ~ doc[d].touched)
    OBVIOUS
  <2>2. PICK h : h = Hello(fresh, doc[d].cursor)  OBVIOUS
  <2>3. h \in Hellos /\ h.cursor = doc[d].cursor
    <3>1. doc[d].cursor \in Nat  BY <1>0, DocParts DEF DocShapes
    <3> QED  BY <2>2, <3>1 DEF Hello, Hellos
  <2>4. Connect(d, h) /\ doc' = doc /\ link' = [link EXCEPT ![d] = "hello"]
    BY <1>2, <2>1, <2>2 DEF Dial
  <2>5. PICK s : Resock(L, d, s) /\ s.up = <<h>>  BY <2>3, <2>4, ConnectEffect
  <2>6. sock'[d] = s /\ \A e \in Devices : e # d => sock'[e] = sock[e]  BY <1>0, <2>5, ResockFacts
  <2>7. \A x \in ToSet(s.up) : x = h  BY <2>5 DEF ToSet
  <2> QED  BY <1>0, <1>1, <2>3, <2>4, <2>6, <2>7
<1>3. ASSUME NEW d \in Devices, SkipFrame(d) PROVE Asking'
  <2>1. sock[d].down # <<>> /\ sock' = [sock EXCEPT ![d] = Rest(d)] /\ UNCHANGED <<doc, link>>
        /\ link[d] = "hello"
    BY <1>3 DEF SkipFrame, docVars
  <2>2. PICK r : r = Rest(d)  OBVIOUS
  <2>3. Resock(L, d, r) /\ r.up = sock[d].up  BY <1>0, <2>1, <2>2, RestFacts DEF Resock
  <2>4. sock'[d] = r /\ \A e \in Devices : e # d => sock'[e] = sock[e]  BY <1>0, <2>3, ResockFacts
  <2> QED  BY <1>1, <2>1, <2>3, <2>4
<1>4. ASSUME NEW d \in Devices, PushPending(d) PROVE Asking'
  <2>1. PushAll(d, doc[d], sock[d]) /\ link' = link /\ link[d] = "ready"  BY <1>4 DEF PushPending
  <2>2. \A e \in Devices : e # d => doc'[e] = doc[e] /\ sock'[e] = sock[e]
    BY <1>0, <2>1 DEF PushAll
  <2> QED  BY <1>1, <2>1, <2>2
<1>5. ASSUME NEW d \in Devices, Cut(d) PROVE Asking'
  <2>1. link' = [link EXCEPT ![d] = "closed"] /\ doc' = [doc EXCEPT ![d] = Landed(@)]
        /\ sock' = [sock EXCEPT ![d] = NoSocket]
    BY <1>5 DEF Cut, EndSession, Disconnect
  <2> QED  BY <1>0, <1>1, <2>1
<1>6. ASSUME NEW p \in publishing, Publish(p) PROVE Asking'
  <2>1. UNCHANGED <<doc, link>> /\ FinishPush(p)  BY <1>6 DEF Publish, docVars
  <2>2. \A d \in Devices : Len(sock[d].bcast) <= BroadcastDepth  BY DEF Shapes, Links, LinkOf
  <2>3. \A e \in Devices : Broadcasted(L, p, e)  BY <1>0, <2>1, <2>2, FinishPushEffect
  <2>4. \A e \in Devices : sock'[e].up = sock[e].up  BY <2>3 DEF Broadcasted, Queued
  <2> QED  BY <2>1, <2>4, AskingStays
<1>7. ASSUME NEW d \in Devices, NEW now \in Readings(d), ReceiveState(d, now) PROVE Asking'
  <2>1. link' = [link EXCEPT ![d] = "ready"]
        /\ PushAll(d, [ApplyState(d, doc[d], Head(sock[d].down), now) EXCEPT !.epoch = epoch], Rest(d))
    BY <1>7 DEF ReceiveState
  <2>2. \A e \in Devices : e # d => doc'[e] = doc[e] /\ sock'[e] = sock[e]
    BY <1>0, <2>1 DEF PushAll
  <2> QED  BY <1>0, <1>1, <2>1, <2>2
<1>8. ASSUME NEW d \in Devices, NEW now \in Readings(d), ReceiveFrame(d, now) PROVE Asking'
  <2>1. link' = link /\ link[d] = "ready"  BY <1>8 DEF ReceiveFrame
  <2>2. \A e \in Devices : e # d => doc'[e] = doc[e] /\ sock'[e] = sock[e]
    BY <1>0, <1>8 DEF ReceiveFrame
  <2> QED  BY <1>1, <2>1, <2>2
<1>9. ASSUME NEW d \in Devices, NEW now \in Readings(d), SaveSnapshot(d, now) PROVE Asking'
  <2>1. now \in Nat  BY <1>0, ReadingsAreNat
  <2>2. PICK c, k : Snapshot(L, d, c, k)  BY <1>0, <1>9, <2>1, SaveSnapshotEffect
  <2>3. Redoc(L, d, c) /\ c.cursor = doc[d].cursor  BY <2>2 DEF Snapshot, CompactedTo, SameBut
  <2>4. sock' = sock /\ link' = link  BY <1>9 DEF SaveSnapshot, roomVars
  <2>5. doc'[d] = c /\ \A x \in Devices : x # d => doc'[x] = doc[x]  BY <1>0, <2>3, RedocFacts
  <2> QED  BY <1>1, <2>3, <2>4, <2>5
<1>10. ASSUME NEW d \in Devices, NEW now \in Readings(d), Crash(d, now) PROVE Asking'
  <2>1. link' = [link EXCEPT ![d] = "closed"] /\ sock' = [sock EXCEPT ![d] = NoSocket]
        /\ \A e \in Devices : e # d => doc'[e] = doc[e]
    BY <1>0, <1>10 DEF Crash, Disconnect
  <2> QED  BY <1>0, <1>1, <2>1
<1>11. ASSUME NEW kind, Restart(kind) PROVE Asking'
  <2>1. link' = [d \in Devices |-> "closed"]  BY <1>11 DEF Restart
  <2> QED  BY <2>1 DEF Asking
<1>12. ASSUME NEW d \in Devices, FillSlot(d) PROVE Asking'
  <2>1. AtRest  BY <1>12, RestingIsRest DEF Resting
  <2> QED  BY <2>1 DEF AtRest, Asking
<1> QED  BY <1>2, <1>3, <1>4, <1>5, <1>6, <1>7, <1>8, <1>9, <1>10, <1>11, <1>12 DEF Next, Writing

LEMMA WritingKeepsAsking ==
  ASSUME Shapes(Pairs), Asking, NEW d \in Devices, NEW now \in Nat, NEW kind \in Kinds,
         NEW ids \in (SUBSET Ids) \ {{}}, NEW F \in (SUBSET Fields) \ {{}},
         LocalWrite(d, now, kind, ids, F)
  PROVE  Asking'
<1>0. DocShapes(Pairs) /\ ClockShapes /\ writes[d] \in Nat /\ doc[d] \in Docs(d, Pairs)
      /\ DOMAIN doc = Devices
  BY DEF Shapes, DocShapes, ClockShapes
<1>1. UNCHANGED <<roomVars, link>>  BY DEF LocalWrite
<1>2. UNCHANGED <<sock, link>>  BY <1>1 DEF roomVars
<1>3. PairOf(d, now, kind) \in Pairs  BY <1>0, StampIsAClock
<1>4. PICK e, b : Written(Pairs, d, now, e, b)  BY <1>0, <1>3, LocalWriteEffect DEF PairOf
<1>5. Redoc(Pairs, d, e) /\ e.cursor = doc[d].cursor  BY <1>4 DEF Written
<1>6. doc'[d] = e /\ \A x \in Devices : x # d => doc'[x] = doc[x]  BY <1>0, <1>5, RedocFacts
<1>7. \A x \in Devices : doc'[x].cursor = doc[x].cursor  BY <1>5, <1>6
<1> QED  BY <1>2, <1>7, AskingStays

LEMMA AlwaysAsking ==
  Spec => []Asking
<1>1. Init => Asking  BY DEF Init, Asking
<1>2. Shapes(Pairs) /\ Asking /\ [Next]_vars => Asking'
  <2> SUFFICES ASSUME Shapes(Pairs), Asking, [Next]_vars PROVE Asking'  OBVIOUS
  <2>1. CASE UNCHANGED vars  BY <2>1 DEF Asking, vars, roomVars, docVars
  <2>2. CASE \E d \in Devices : Serve(d)  BY <2>2, ServeKeepsAsking
  <2>3. CASE Writing
    <3>1. PICK d \in Devices : \E now \in Readings(d) : \E kind \in Kinds :
            \E ids \in (SUBSET Ids) \ {{}}, F \in (SUBSET Fields) \ {{}} : LocalWrite(d, now, kind, ids, F)
      BY <2>3 DEF Writing
    <3>2. ASSUME NEW now \in Readings(d) PROVE now \in Nat  BY ReadingsAreNat DEF Shapes
    <3> QED  BY <3>1, <3>2, WritingKeepsAsking
  <2>4. CASE Next /\ ~ (\E d \in Devices : Serve(d)) /\ ~ Writing
    BY <2>4, OthersKeepAsking
  <2> QED  BY <2>1, <2>2, <2>3, <2>4
<1> QED  BY <1>1, <1>2, ShapesAlways, PTL DEF Spec

\* What is assumed of the state before a step, and of a row that the step does not change.
Standing(L) == Shapes(L) /\ CopiesAreOlder /\ Asking /\ epoch = 0

RowStands(L, i) ==
  /\ Standing(L) /\ server.rows[i] # Missing /\ RowFlows(i) /\ server'.rows[i] = server.rows[i]
  /\ sock' \in [Devices -> Sockets(L)]

\* No stream moves and no replica changes, but batches may come in hand.
LEMMA FlowsUnmoved ==
  ASSUME NEW L, NEW i \in Ids, RowStands(L, i), HandInOrder(Hand', i, server.rows[i]), Hand \subseteq Hand',
         \A d \in Devices : /\ ClientStill(d, i) /\ sock'[d].down = sock[d].down
                            /\ sock'[d].bcast = sock[d].bcast /\ sock'[d].lagged = sock[d].lagged
  PROVE  RowFlows(i)'
<1>1. sock \in [Devices -> Sockets(L)]  BY DEF RowStands, Standing, Shapes, RoomShapes
<1>2. \A d \in Devices : Flow(d, i)'  BY <1>1, FlowOfOthers DEF RowStands, RowFlows
<1> QED  BY <1>2 DEF RowFlows, RowStands

\* One device's stream or replica changes.
LEMMA FlowsOfOne ==
  ASSUME NEW L, NEW i \in Ids, RowStands(L, i), Hand' = Hand, NEW d \in Devices, Flow(d, i)',
         \A e \in Devices : e # d => ClientStill(e, i) /\ sock'[e] = sock[e]
  PROVE  RowFlows(i)'
<1>1. sock \in [Devices -> Sockets(L)]  BY DEF RowStands, Standing, Shapes, RoomShapes
<1>2. \A e \in Devices : Flow(e, i)'  BY <1>1, FlowOfOthers DEF RowStands, RowFlows
<1> QED  BY <1>2 DEF RowFlows, RowStands

\* A reply of the room.
LEMMA ReplyKeepsFlows ==
  ASSUME NEW L, NEW i \in Ids, RowStands(L, i), NEW d \in Devices, NEW s, Resock(L, d, s),
         UNCHANGED <<publishing, doc, saved, link, torn>>, NEW x,
         s.down = Append(sock[d].down, x), s.bcast = sock[d].bcast,
         s.lagged = sock[d].lagged \/ Gives(x, i, server.rows[i]), ~ Spoils(x, i, server.rows[i]),
         x.t = "state" /\ link[d] = "hello" /\ d \notin torn =>
           doc[d].rows[i] = server.rows[i] \/ Gives(x, i, server.rows[i])
  PROVE  RowFlows(i)'
<1>0. sock \in [Devices -> Sockets(L)]  BY DEF RowStands, Standing, Shapes, RoomShapes
<1>1. PICK o \in Sockets(L) : o = sock[d]  BY <1>0
<1>2. sock'[d] = s /\ s \in Sockets(L) /\ \A e \in Devices : e # d => sock'[e] = sock[e]
  BY <1>0, ResockFacts DEF Resock
<1>3. PICK H, r, l, row : H = Hand /\ r = server.rows[i] /\ l = link[d] /\ row = doc[d].rows[i]
  OBVIOUS
<1>4. Flow(d, i) /\ Hand' = Hand  BY DEF RowStands, RowFlows, Hand
<1>5. InOrder(o, H, i, r)  BY <1>1, <1>3, <1>4 DEF Flow, Ordered
<1>6. /\ InOrder(s, H, i, r)
      /\ \A n \in Nat : n <= Len(o.down) /\ Later(o, H, n, i, r) => Later(s, H, n, i, r)
  BY <1>1, <1>2, <1>3, <1>5, StreamReplied
<1>7. PICK q \in Seq(DownFrames(L)) : q = o.down  BY DEF Sockets
<1>8. PICK p : p = Append(q, x)  OBVIOUS
<1>9. /\ DOMAIN q = 1 .. Len(q) /\ Len(q) \in Nat /\ DOMAIN p = 1 .. Len(q) + 1
      /\ (\A n \in DOMAIN q : p[n] = q[n]) /\ p[Len(q) + 1] = x
  BY <1>8, PlacesOfAppend
<1>10. s.down = p  BY <1>1, <1>7, <1>8
<1>11. ASSUME NEW n \in DOMAIN p, n \notin DOMAIN q, d \notin torn, l = "hello", FirstState(s, n)
       PROVE  row = r \/ Later(s, H, n - 1, i, r)
  <2>1. n = Len(q) + 1 /\ x.t = "state"  BY <1>9, <1>10, <1>11 DEF FirstState
  <2>2. CASE row = r  BY <2>2
  <2>3. CASE Gives(x, i, r)
    <3>1. GivenIn(s.down, n - 1, i, r)  BY <1>9, <1>10, <2>1, <2>3 DEF GivenIn
    <3> QED  BY <3>1 DEF Later
  <2> QED  BY <1>3, <1>11, <2>1, <2>2, <2>3
<1>12. ASSUME d \notin torn PROVE Answered(s, H, l, row, i, r)
  <2>1. Answered(o, H, l, row, i, r)  BY <1>1, <1>3, <1>4, <1>12 DEF Flow, Reached
  <2>2. \A n \in DOMAIN o.down : n \in DOMAIN s.down /\ s.down[n] = o.down[n]
    BY <1>7, <1>9, <1>10
  <2>3. \A n \in DOMAIN s.down : n \notin DOMAIN o.down /\ l = "hello" /\ FirstState(s, n)
                                   => row = r \/ Later(s, H, n - 1, i, r)
    BY <1>7, <1>10, <1>11, <1>12
  <2> QED  BY <1>2, <1>6, <2>1, <2>2, <2>3, AnswerStays
<1>13. \A e \in Devices : ClientStill(e, i)  BY DEF ClientStill
<1>14. Flow(d, i)'
  <2>1. InOrder(sock'[d], Hand', i, server.rows[i])  BY <1>2, <1>3, <1>4, <1>6
  <2>2. d \notin torn => Answered(sock'[d], Hand', link[d], doc[d].rows[i], i, server.rows[i])
    BY <1>2, <1>3, <1>4, <1>12
  <2> QED  BY <1>4, <1>13, <2>1, <2>2, FlowByStream DEF RowStands
<1> QED  BY <1>2, <1>4, <1>13, <1>14, FlowsOfOne

LEMMA WrittenRowIsSent ==
  ASSUME NEW L, Standing(L), NEW i \in Ids, server.rows[i] # Missing
  PROVE  server.rows[i].state # "missing"
BY DEF Standing, CopiesAreOlder, AbsentIsMissing

\* The rows of an answer are the table's; what it leaves out is no newer than the cursor.
LEMMA AnswerGivesRow ==
  ASSUME NEW L, Standing(L), NEW i \in Ids, server.rows[i] # Missing,
         NEW fresh \in BOOLEAN, NEW cursor \in Nat, NEW x, x = StateFrame(fresh, cursor)
  PROVE  /\ x \in StateFrames(L) /\ ~ Spoils(x, i, server.rows[i])
         /\ Gives(x, i, server.rows[i]) \/ (~ fresh /\ server.rows[i].seq <= cursor)
<1>0. server \in Tables(L)  BY DEF Standing, Shapes, RoomShapes
<1>1. /\ x \in StateFrames(L)
      /\ \A j \in DOMAIN x.rows : j \in Ids /\ x.rows[j] = server.rows[j]
      /\ x.full = (fresh \/ cursor > server.seq)
      /\ \A j \in Ids : /\ server.rows[j].state # "missing"
                        /\ (fresh \/ cursor > server.seq) \/ server.rows[j].seq > cursor
                        => j \in DOMAIN x.rows
  BY <1>0, StateFrameFacts
<1>2. x.t = "state"  BY <1>1 DEF StateFrames
<1>3. server.rows[i].state # "missing"  BY WrittenRowIsSent
<1>4. server.rows[i].seq \in Nat /\ server.seq \in Nat
  <2>1. server.rows[i] \in Rows(L)  BY <1>0 DEF Tables
  <2> QED  BY <1>0, <2>1, RowParts DEF Tables
<1>5. ~ Spoils(x, i, server.rows[i])  BY <1>1, <1>3 DEF Spoils
<1>6. i \in DOMAIN x.rows \/ (~ fresh /\ server.rows[i].seq <= cursor)  BY <1>1, <1>3, <1>4
<1> QED  BY <1>1, <1>2, <1>5, <1>6 DEF Gives

\* A batch that does not change the row comes in hand.
LEMMA MergeKeepsFlows ==
  ASSUME NEW L, NEW i \in Ids, RowStands(L, i), NEW ops \in Seq(Ops(L)), Merged(L, ops),
         NEW p, p.frame = RowsFrame(server.seq + 1, Touched(ops)), publishing' = publishing \cup {p},
         UNCHANGED <<doc, saved, link, torn>>,
         \A d \in Devices : /\ sock'[d].down = sock[d].down /\ sock'[d].bcast = sock[d].bcast
                            /\ sock'[d].lagged = sock[d].lagged
  PROVE  RowFlows(i)'
<1>1. Hand' = Hand \cup {p.frame}  BY DEF Hand
<1>2. PICK f : f = p.frame  OBVIOUS
<1>3. f.t = "rows" /\ f.rows = Touched(ops) /\ f.seq = server.seq + 1  BY <1>2 DEF RowsFrame
<1>4. i \in DOMAIN f.rows => f.rows[i] = server.rows[i]  BY <1>3 DEF Merged, RowStands
<1>5. ~ Spoils(f, i, server.rows[i])  BY <1>3, <1>4 DEF Spoils
<1>6. HandInOrder(Hand', i, server.rows[i])
  BY <1>1, <1>2, <1>5 DEF HandInOrder, RowStands, RowFlows
<1>7. \A d \in Devices : ClientStill(d, i)  BY DEF ClientStill
<1> QED  BY <1>1, <1>6, <1>7, FlowsUnmoved

LEMMA ServeKeepsFlows ==
  ASSUME NEW L, NEW i \in Ids, RowStands(L, i), NEW d \in Devices, Serve(d)
  PROVE  RowFlows(i)'
<1>0. /\ RoomShapes(L) /\ server \in Tables(L) /\ sock \in [Devices -> Sockets(L)] /\ Standing(L)
      /\ server.rows[i] # Missing /\ RowFlows(i)
  BY DEF RowStands, Standing, Shapes, RoomShapes
<1>1. UNCHANGED <<doc, saved, link, torn>>  BY DEF Serve, docVars, historyVars
<1>2. PICK o \in Sockets(L) : o = sock[d]  BY <1>0
<1>3. ASSUME UNCHANGED <<sock, publishing>> PROVE RowFlows(i)'
  <2>1. Hand' = Hand  BY <1>3 DEF Hand
  <2>2. \A e \in Devices : ClientStill(e, i)  BY <1>1 DEF ClientStill
  <2> QED  BY <1>0, <1>3, <2>1, <2>2, FlowsUnmoved DEF RowFlows
<1>4. CASE SendBroadcast(d)
  <2>1. PICK s : /\ Resock(L, d, s) /\ s.lagged = o.lagged
                 /\ s.bcast = Tail(o.bcast) /\ s.down = Append(o.down, Head(o.bcast))
    BY <1>0, <1>2, <1>4, SendBroadcastEffect
  <2>2. o.bcast # <<>> /\ publishing' = publishing  BY <1>2, <1>4 DEF SendBroadcast
  <2>3. sock'[d] = s /\ s \in Sockets(L) /\ \A e \in Devices : e # d => sock'[e] = sock[e]
    BY <1>0, <2>1, ResockFacts DEF Resock
  <2>4. PICK H, r, l, row : H = Hand /\ r = server.rows[i] /\ l = link[d] /\ row = doc[d].rows[i]
    OBVIOUS
  <2>5. Flow(d, i) /\ Hand' = Hand  BY <1>0, <2>2 DEF RowFlows, Hand
  <2>6. InOrder(o, H, i, r)  BY <1>2, <2>4, <2>5 DEF Flow, Ordered
  <2>7. /\ InOrder(s, H, i, r)
        /\ \A n \in Nat : n <= Len(o.down) /\ Later(o, H, n, i, r) => Later(s, H, n, i, r)
    BY <2>1, <2>2, <2>3, <2>6, StreamSent
  <2>8. PICK q \in Seq(DownFrames(L)) : q = o.down  BY DEF Sockets
  <2>9. PICK b \in Seq(RowsFrames(L)) : b = o.bcast /\ b # <<>>  BY <2>2 DEF Sockets
  <2>10. PICK x, p : x = Head(b) /\ p = Append(q, x)  OBVIOUS
  <2>11. x.t = "rows"
    <3>1. x \in RowsFrames(L)  BY <2>9, <2>10, PlacesOfTail
    <3> QED  BY <3>1 DEF RowsFrames
  <2>12. /\ DOMAIN q = 1 .. Len(q) /\ Len(q) \in Nat /\ DOMAIN p = 1 .. Len(q) + 1
         /\ (\A n \in DOMAIN q : p[n] = q[n]) /\ p[Len(q) + 1] = x /\ s.down = p
    BY <2>1, <2>8, <2>9, <2>10, PlacesOfAppend
  <2>13. ASSUME d \notin torn PROVE Answered(s, H, l, row, i, r)
    <3>1. Answered(o, H, l, row, i, r)  BY <1>2, <2>4, <2>5, <2>13 DEF Flow, Reached
    <3>2. \A n \in DOMAIN o.down : n \in DOMAIN s.down /\ s.down[n] = o.down[n]  BY <2>8, <2>12
    <3>3. \A n \in DOMAIN s.down : n \notin DOMAIN o.down /\ l = "hello" /\ FirstState(s, n)
                                     => row = r \/ Later(s, H, n - 1, i, r)
      BY <2>8, <2>11, <2>12 DEF FirstState
    <3> QED  BY <2>3, <2>7, <3>1, <3>2, <3>3, AnswerStays
  <2>14. \A e \in Devices : ClientStill(e, i)  BY <1>1 DEF ClientStill
  <2>15. Flow(d, i)'
    <3>1. InOrder(sock'[d], Hand', i, server.rows[i])  BY <2>3, <2>4, <2>5, <2>7
    <3>2. d \notin torn => Answered(sock'[d], Hand', link[d], doc[d].rows[i], i, server.rows[i])
      BY <2>3, <2>4, <2>5, <2>13
    <3> QED  BY <2>5, <2>14, <3>1, <3>2, FlowByStream DEF RowStands
  <2> QED  BY <2>3, <2>5, <2>14, <2>15, FlowsOfOne
<1>5. CASE SendLaggedState(d)
  <2>1. PICK s : Resock(L, d, s) /\ s.lagged = FALSE /\ s.bcast = sock[d].bcast
                 /\ s.down = Append(sock[d].down, StateFrame(TRUE, 0))
    BY <1>0, <1>5, SendLaggedStateEffect
  <2>2. publishing' = publishing  BY <1>5 DEF SendLaggedState
  <2>3. PICK yes \in BOOLEAN : yes = TRUE  OBVIOUS
  <2>4. PICK x : x = StateFrame(yes, 0)  OBVIOUS
  <2>5. ~ Spoils(x, i, server.rows[i]) /\ Gives(x, i, server.rows[i])
    BY <1>0, <2>3, <2>4, AnswerGivesRow
  <2>6. s.down = Append(sock[d].down, x)  BY <2>1, <2>3, <2>4
  <2> QED  BY <1>1, <2>1, <2>2, <2>5, <2>6, ReplyKeepsFlows
<1>6. CASE HandleHello(d)
  <2>1. PICK s : \E h \in Hellos :
           /\ Resock(L, d, s) /\ h \in ToSet(sock[d].up) /\ s.lagged = sock[d].lagged
           /\ s.bcast = sock[d].bcast /\ s.down = Append(sock[d].down, StateFrame(h.fresh, h.cursor))
    BY <1>0, <1>6, HandleHelloEffect
  <2>2. PICK h \in Hellos :
           /\ Resock(L, d, s) /\ h \in ToSet(sock[d].up) /\ s.lagged = sock[d].lagged
           /\ s.bcast = sock[d].bcast /\ s.down = Append(sock[d].down, StateFrame(h.fresh, h.cursor))
    BY <2>1
  <2>3. publishing' = publishing /\ h.fresh \in BOOLEAN /\ h.cursor \in Nat /\ h.t = "hello"
    BY <1>6 DEF HandleHello, Hellos
  <2>4. PICK x : x = StateFrame(h.fresh, h.cursor)  OBVIOUS
  <2>5. /\ ~ Spoils(x, i, server.rows[i])
        /\ Gives(x, i, server.rows[i]) \/ server.rows[i].seq <= h.cursor
    BY <1>0, <2>3, <2>4, AnswerGivesRow
  <2>6. ASSUME link[d] = "hello", d \notin torn
        PROVE  doc[d].rows[i] = server.rows[i] \/ Gives(x, i, server.rows[i])
    <3>1. h.cursor = doc[d].cursor  BY <1>0, <2>2, <2>3, <2>6 DEF Standing, Asking
    <3> QED  BY <1>0, <2>5, <2>6, <3>1 DEF RowFlows, Flow, Claims
  <2> QED  BY <1>1, <2>2, <2>3, <2>4, <2>5, <2>6, ReplyKeepsFlows
<1>7. CASE LoseStale(d)  BY <1>3, <1>7 DEF LoseStale
<1>8. ASSUME NEW stored \in BOOLEAN, HandlePush(d, stored) PROVE RowFlows(i)'
  <2>1. PICK push \in Pushes(L) : \E s :
           /\ Resock(L, d, s) /\ s.bcast = sock[d].bcast /\ s.lagged = sock[d].lagged
           /\ \/ /\ publishing' = publishing
                 /\ s.down = Append(sock[d].down, Ack(push.batch, server.seq))
              \/ /\ Merged(L, push.ops)
                 /\ s.down = sock[d].down
                 /\ publishing' = publishing \cup
                      {[to |-> d, batch |-> push.batch,
                        frame |-> RowsFrame(server.seq + 1, Touched(push.ops))]}
    BY <1>0, <1>8, HandlePushEffect
  <2>2. PICK s :
           /\ Resock(L, d, s) /\ s.bcast = sock[d].bcast /\ s.lagged = sock[d].lagged
           /\ \/ /\ publishing' = publishing
                 /\ s.down = Append(sock[d].down, Ack(push.batch, server.seq))
              \/ /\ Merged(L, push.ops)
                 /\ s.down = sock[d].down
                 /\ publishing' = publishing \cup
                      {[to |-> d, batch |-> push.batch,
                        frame |-> RowsFrame(server.seq + 1, Touched(push.ops))]}
    BY <2>1
  <2>3. push.ops \in Seq(Ops(L))  BY DEF Pushes
  <2>4. CASE publishing' = publishing /\ s.down = Append(sock[d].down, Ack(push.batch, server.seq))
    <3>1. PICK x : x = Ack(push.batch, server.seq)  OBVIOUS
    <3>2. x.t = "ack"  BY <3>1 DEF Ack
    <3>3. ~ Spoils(x, i, server.rows[i])  BY <3>2 DEF Spoils
    <3> QED  BY <1>1, <2>2, <2>4, <3>1, <3>2, <3>3, ReplyKeepsFlows
  <2>5. CASE /\ Merged(L, push.ops)
             /\ s.down = sock[d].down
             /\ publishing' = publishing \cup
                  {[to |-> d, batch |-> push.batch,
                    frame |-> RowsFrame(server.seq + 1, Touched(push.ops))]}
    <3>1. PICK p : p = [to |-> d, batch |-> push.batch,
                        frame |-> RowsFrame(server.seq + 1, Touched(push.ops))]
      OBVIOUS
    <3>2. p.frame = RowsFrame(server.seq + 1, Touched(push.ops)) /\ publishing' = publishing \cup {p}
      BY <2>5, <3>1
    <3>3. sock'[d] = s /\ \A e \in Devices : e # d => sock'[e] = sock[e]  BY <1>0, <2>2, ResockFacts
    <3>4. \A e \in Devices : /\ sock'[e].down = sock[e].down /\ sock'[e].bcast = sock[e].bcast
                             /\ sock'[e].lagged = sock[e].lagged
      BY <2>2, <2>5, <3>3
    <3> QED  BY <1>1, <2>3, <2>5, <3>2, <3>4, MergeKeepsFlows
  <2> QED  BY <2>2, <2>4, <2>5
<1>9. ASSUME NEW stored \in BOOLEAN, HandleStalePush(d, stored) PROVE RowFlows(i)'
  <2>1. sock' = sock  BY <1>9 DEF HandleStalePush
  <2>2. PICK push \in Pushes(L) :
           \/ publishing' = publishing
           \/ /\ Merged(L, push.ops)
              /\ publishing' = publishing \cup
                   {[to |-> NoDevice, batch |-> push.batch,
                     frame |-> RowsFrame(server.seq + 1, Touched(push.ops))]}
    BY <1>0, <1>9, HandleStalePushEffect
  <2>3. push.ops \in Seq(Ops(L))  BY DEF Pushes
  <2>4. CASE publishing' = publishing  BY <1>3, <2>1, <2>4
  <2>5. CASE /\ Merged(L, push.ops)
             /\ publishing' = publishing \cup
                  {[to |-> NoDevice, batch |-> push.batch,
                    frame |-> RowsFrame(server.seq + 1, Touched(push.ops))]}
    <3>1. PICK p : p = [to |-> NoDevice, batch |-> push.batch,
                        frame |-> RowsFrame(server.seq + 1, Touched(push.ops))]
      OBVIOUS
    <3>2. p.frame = RowsFrame(server.seq + 1, Touched(push.ops)) /\ publishing' = publishing \cup {p}
      BY <2>5, <3>1
    <3> QED  BY <1>1, <2>1, <2>3, <2>5, <3>2, MergeKeepsFlows
  <2> QED  BY <2>2, <2>4, <2>5
<1> QED  BY <1>4, <1>5, <1>6, <1>7, <1>8, <1>9 DEF Serve

LEMMA PublishKeepsFlows ==
  ASSUME NEW L, NEW i \in Ids, RowStands(L, i), NEW p \in publishing, Publish(p), ~ overtaken'
  PROVE  RowFlows(i)'
<1>0. /\ RoomShapes(L) /\ Links /\ Senders /\ sock \in [Devices -> Sockets(L)] /\ p \in InHand(L)
      /\ \A d \in Devices : Len(sock[d].bcast) <= BroadcastDepth
      /\ publishing \subseteq InHand(L) /\ RowFlows(i)
  BY DEF RowStands, Standing, Shapes, RoomShapes, Links, LinkOf
<1>1. /\ UNCHANGED <<doc, saved, link, torn>> /\ FinishPush(p)
      /\ \A q \in publishing : ~ (q.frame.seq < p.frame.seq)
  BY DEF Publish, docVars
<1>2. /\ publishing' = publishing \ {p} /\ sock' \in [Devices -> Sockets(L)]
      /\ \A e \in Devices : Broadcasted(L, p, e)
  BY <1>0, <1>1, FinishPushEffect
<1>3. PICK f, H, G, r : f = p.frame /\ H = Hand /\ G = Hand' /\ r = server.rows[i]  OBVIOUS
<1>4. G \subseteq H /\ H \subseteq G \cup {f} /\ f \in H /\ \A h \in H : ~ (h.seq < f.seq)
  BY <1>1, <1>2, <1>3 DEF Hand
<1>5. \A h \in H : h.seq \in Nat  BY <1>0, <1>3 DEF Hand, InHand, RowsFrames
<1>6. HandInOrder(G, i, r) /\ (Spoils(f, i, r) => Handed(G, i, r))
  <2>1. HandInOrder(H, i, r)  BY <1>0, <1>3 DEF RowFlows
  <2> QED  BY <1>4, <1>5, <2>1, HandInOrderKept
<1>7. ASSUME NEW d \in Devices PROVE Flow(d, i)'
  <2>0. Flow(d, i) /\ ClientStill(d, i) /\ LinkOf(d)  BY <1>0, <1>1 DEF RowFlows, ClientStill, Links
  <2>1. PICK s \in Sockets(L), t \in Sockets(L) : s = sock[d] /\ t = sock'[d]  BY <1>0, <1>2
  <2>2. PICK l, row : l = link[d] /\ row = doc[d].rows[i]  OBVIOUS
  <2>3. PICK q : /\ Queued(L, s, f, q) /\ t.bcast = q.bcast /\ t.lagged = q.lagged
                 /\ t.down = IF d = p.to THEN Append(q.down, Ack(p.batch, p.frame.seq)) ELSE q.down
    BY <1>2, <1>3, <2>1 DEF Broadcasted
  <2>4. CASE s.open
    <3>1. PICK a : a = Ack(p.batch, p.frame.seq)  OBVIOUS
    <3>2. a.t = "ack" /\ q.down = s.down  BY <2>3, <3>1 DEF Ack, Queued
    <3>3. t.down = s.down \/ t.down = Append(s.down, a)  BY <2>3, <3>1, <3>2
    <3>4. InOrder(s, H, i, r)  BY <1>3, <2>0, <2>1 DEF Flow, Ordered
    <3>5. /\ InOrder(t, G, i, r)
          /\ \A n \in Nat : Later(s, H, n, i, r) => Later(t, G, n, i, r)
      BY <1>4, <1>6, <2>3, <2>4, <3>2, <3>3, <3>4, StreamBroadcast
    <3>6. PICK u \in Seq(DownFrames(L)) : u = s.down  BY DEF Sockets
    <3>7. PICK v : v = Append(u, a)  OBVIOUS
    <3>8. /\ DOMAIN u = 1 .. Len(u) /\ Len(u) \in Nat /\ DOMAIN v = 1 .. Len(u) + 1
          /\ (\A n \in DOMAIN u : v[n] = u[n]) /\ v[Len(u) + 1] = a
      BY <3>7, PlacesOfAppend
    <3>9. t.down = u \/ t.down = v  BY <3>3, <3>6, <3>7
    <3>10. ASSUME d \notin torn PROVE Answered(t, G, l, row, i, r)
      <4>1. Answered(s, H, l, row, i, r)  BY <1>3, <2>0, <2>1, <2>2, <3>10 DEF Flow, Reached
      <4>2. \A n \in DOMAIN s.down : n \in DOMAIN t.down /\ t.down[n] = s.down[n]
        BY <3>6, <3>8, <3>9
      <4>3. \A n \in DOMAIN t.down : n \notin DOMAIN s.down => ~ FirstState(t, n)
        BY <3>2, <3>6, <3>8, <3>9 DEF FirstState
      <4> QED  BY <3>5, <4>1, <4>2, <4>3, AnswerStays
    <3> QED  BY <1>3, <2>0, <2>1, <2>2, <3>5, <3>10, FlowByStream DEF RowStands
  <2>5. CASE ~ s.open
    <3>1. l = "closed" /\ s = NoSocket  BY <2>0, <2>1, <2>2, <2>5 DEF LinkOf
    <3>2. d # p.to  BY <1>0, <2>1, <2>5 DEF Senders
    <3>3. t.down = <<>> /\ t.bcast = <<>>  BY <2>3, <2>5, <3>1, <3>2 DEF Queued, NoSocket
    <3>4. InOrder(t, G, i, r)  BY <3>3 DEF InOrder
    <3>5. Answered(t, G, l, row, i, r)  BY <3>1 DEF Answered
    <3> QED  BY <1>3, <2>0, <2>1, <2>2, <3>4, <3>5, FlowByStream DEF RowStands
  <2> QED  BY <2>4, <2>5
<1> QED  BY <1>3, <1>6, <1>7 DEF RowFlows, RowStands

\* A row that a batch changes is in hand, behind everything.
LEMMA NewRowFlows ==
  ASSUME NEW L, Standing(L), NEW i \in Ids, NEW ops \in Seq(Ops(L)), Merged(L, ops),
         i \in DOMAIN Touched(ops),
         NEW p, p.frame = RowsFrame(server.seq + 1, Touched(ops)), publishing' = publishing \cup {p},
         UNCHANGED <<doc, saved, link, torn>>
  PROVE  RowFlows(i)'
<1>0. /\ server \in Tables(L) /\ RoomShapes(L) /\ DocShapes(L) /\ server.seq \in Nat
      /\ \A d \in Devices : doc[d].cursor <= server.seq /\ saved[d].doc.cursor <= server.seq
      /\ \A f \in Frames : f.seq <= server.seq
  BY DEF Standing, Shapes, RoomShapes, CopiesAreOlder, Tables
<1>1. PICK f, H, G, r : f = p.frame /\ H = Hand /\ G = Hand' /\ r = server'.rows[i]  OBVIOUS
<1>2. G = H \cup {f}  BY <1>1 DEF Hand
<1>3. f.t = "rows" /\ f.rows = Touched(ops) /\ f.seq = server.seq + 1  BY <1>1 DEF RowsFrame
<1>4. r = Touched(ops)[i] /\ r.seq = server.seq + 1  BY <1>0, <1>1, TouchedFacts DEF Merged
<1>5. Gives(f, i, r) /\ ~ Spoils(f, i, r)  BY <1>3, <1>4 DEF Gives, Spoils
<1>6. \A h \in H : h.seq \in Nat /\ h.seq <= server.seq
  <2>1. \A h \in H : h \in Frames  BY <1>1, FramesInHand DEF Hand
  <2> QED  BY <1>0, <2>1, FramesAreStamped
<1>7. HandInOrder(G, i, r)
  <2>1. ASSUME NEW h \in G, Spoils(h, i, r) PROVE \E g \in G : g.seq > h.seq /\ Gives(g, i, r)
    <3>1. h \in H  BY <1>2, <1>5, <2>1
    <3>2. f.seq > h.seq  BY <1>0, <1>3, <1>6, <3>1
    <3> QED  BY <1>2, <1>5, <3>2
  <2> QED  BY <2>1 DEF HandInOrder
<1>8. Handed(G, i, r)  BY <1>2, <1>5 DEF Handed
<1>9. ASSUME NEW d \in Devices PROVE Flow(d, i)'
  <2>1. InOrder(sock'[d], G, i, r)  BY <1>8 DEF InOrder, Later
  <2>2. \A l, row : Answered(sock'[d], G, l, row, i, r)  BY <1>8 DEF Answered, Later
  <2>3. doc[d].cursor \in Nat /\ saved[d].doc.cursor \in Nat
    <3>1. doc[d] \in Docs(d, L) /\ saved[d].doc \in Docs(d, L)  BY <1>0 DEF DocShapes, SavedDocs
    <3> QED  BY <3>1, DocParts
  <2>4. ~ (r.seq <= doc[d].cursor) /\ ~ (r.seq <= saved[d].doc.cursor)
    BY <1>0, <1>4, <2>3
  <2>5. Ordered(d, i)'  BY <1>1, <2>1 DEF Ordered
  <2>6. Reached(d, i)'  BY <1>1, <2>2 DEF Reached
  <2>7. Claims(d, i)'  BY <1>1, <2>4 DEF Claims
  <2>8. SavedClaims(d, i)'  BY <1>1, <2>4 DEF SavedClaims
  <2> QED  BY <2>5, <2>6, <2>7, <2>8 DEF Flow
<1> QED  BY <1>1, <1>7, <1>9 DEF RowFlows

\* Only a batch gives the table a new row.
LEMMA ServedRowFlows ==
  ASSUME NEW L, Standing(L), NEW i \in Ids, NEW d \in Devices, Serve(d),
         server'.rows[i] # server.rows[i]
  PROVE  RowFlows(i)'
<1>0. RoomShapes(L) /\ server \in Tables(L) /\ sock \in [Devices -> Sockets(L)]
  BY DEF Standing, Shapes, RoomShapes
<1>1. UNCHANGED <<doc, saved, link, torn>>  BY DEF Serve, docVars, historyVars
<1>2. ASSUME NEW ops \in Seq(Ops(L)), Merged(L, ops), NEW to, NEW batch,
             publishing' = publishing \cup
               {[to |-> to, batch |-> batch, frame |-> RowsFrame(server.seq + 1, Touched(ops))]}
      PROVE  RowFlows(i)'
  <2>1. PICK p : p = [to |-> to, batch |-> batch, frame |-> RowsFrame(server.seq + 1, Touched(ops))]
    OBVIOUS
  <2>2. p.frame = RowsFrame(server.seq + 1, Touched(ops)) /\ publishing' = publishing \cup {p}
    BY <1>2, <2>1
  <2>3. i \in DOMAIN Touched(ops)  BY <1>2 DEF Merged
  <2> QED  BY <1>1, <1>2, <2>2, <2>3, NewRowFlows
<1>3. ASSUME NEW stored \in BOOLEAN, HandlePush(d, stored) PROVE RowFlows(i)'
  <2>1. PICK push \in Pushes(L) :
           \/ server' = server
           \/ /\ Merged(L, push.ops)
              /\ publishing' = publishing \cup
                   {[to |-> d, batch |-> push.batch,
                     frame |-> RowsFrame(server.seq + 1, Touched(push.ops))]}
    BY <1>0, <1>3, HandlePushEffect
  <2>2. push.ops \in Seq(Ops(L))  BY DEF Pushes
  <2> QED  BY <1>2, <2>1, <2>2
<1>4. ASSUME NEW stored \in BOOLEAN, HandleStalePush(d, stored) PROVE RowFlows(i)'
  <2>1. PICK push \in Pushes(L) :
           \/ server' = server
           \/ /\ Merged(L, push.ops)
              /\ publishing' = publishing \cup
                   {[to |-> NoDevice, batch |-> push.batch,
                     frame |-> RowsFrame(server.seq + 1, Touched(push.ops))]}
    BY <1>0, <1>4, HandleStalePushEffect
  <2>2. push.ops \in Seq(Ops(L))  BY DEF Pushes
  <2> QED  BY <1>2, <2>1, <2>2
<1>5. CASE SendBroadcast(d) \/ SendLaggedState(d) \/ HandleHello(d) \/ LoseStale(d)
  BY <1>5 DEF SendBroadcast, SendLaggedState, HandleHello, LoseStale
<1> QED  BY <1>3, <1>4, <1>5 DEF Serve

\* A replica that is owed nothing holds what its cursor has passed.
LEMMA NothingOwed ==
  ASSUME NEW d \in Devices, NEW i \in Ids, Flow(d, i), d \notin torn, ~ Owing(d),
         server.rows[i].seq <= doc[d].cursor
  PROVE  doc[d].rows[i] = server.rows[i]
<1>1. CASE link[d] # "ready"  BY <1>1 DEF Flow, Claims
<1>2. CASE link[d] = "ready"
  <2>1. doc[d].rows[i] = server.rows[i] \/ Later(sock[d], Hand, 0, i, server.rows[i])
    BY <1>2 DEF Flow, Reached, Answered
  <2>2. \A f : Gives(f, i, server.rows[i]) => Brings(f, doc[d].cursor)
    BY DEF Gives, Brings
  <2>3. ~ Later(sock[d], Hand, 0, i, server.rows[i])
    BY <2>2 DEF Owing, Later, GivenIn, Handed, Hand
  <2> QED  BY <2>1, <2>3
<1> QED  BY <1>1, <1>2

\* Nothing is on its way on a connection that is no more.
LEMMA NoStream ==
  ASSUME NEW d, NEW i, sock'[d] = NoSocket, link'[d] = "closed"
  PROVE  Ordered(d, i)' /\ Reached(d, i)'
<1>1. NoSocket.down = <<>> /\ NoSocket.bcast = <<>>  BY DEF NoSocket
<1>2. Ordered(d, i)'  BY <1>1 DEF Ordered, InOrder
<1>3. Reached(d, i)'  BY DEF Reached, Answered
<1> QED  BY <1>2, <1>3

LEMMA SessionsKeepFlows ==
  ASSUME NEW L, NEW i \in Ids, RowStands(L, i), NEW d \in Devices, Dial(d) \/ SkipFrame(d) \/ PushPending(d)
  PROVE  RowFlows(i)'
<1>0. /\ RoomShapes(L) /\ DocShapes(L) /\ sock \in [Devices -> Sockets(L)] /\ RowFlows(i) /\ Flow(d, i)
      /\ DOMAIN doc = Devices /\ DOMAIN link = Devices /\ doc[d] \in Docs(d, L) /\ sock[d] \in Sockets(L)
  BY DEF RowStands, Standing, Shapes, RoomShapes, DocShapes, Links, RowFlows
<1>1. CASE Dial(d)
  <2>1. PICK fresh \in BOOLEAN :
          fresh = (doc[d].cursor = 0 /\ doc[d].pending = <<>> /\ ~ doc[d].touched)
    OBVIOUS
  <2>2. PICK h : h = Hello(fresh, doc[d].cursor)  OBVIOUS
  <2>3. h \in Hellos
    <3>1. doc[d].cursor \in Nat  BY <1>0, DocParts
    <3> QED  BY <2>2, <3>1 DEF Hello, Hellos
  <2>4. Connect(d, h) /\ UNCHANGED <<doc, saved, torn>> /\ link[d] = "closed"
        /\ link' = [link EXCEPT ![d] = "hello"]
    BY <1>1, <2>1, <2>2 DEF Dial, historyVars
  <2>5. PICK s : Resock(L, d, s) /\ s.bcast = <<>> /\ s.down = <<>>  BY <2>3, <2>4, ConnectEffect
  <2>6. sock'[d] = s /\ \A e \in Devices : e # d => sock'[e] = sock[e]  BY <1>0, <2>5, ResockFacts
  <2>7. Hand' = Hand  BY <2>4 DEF Connect, Hand
  <2>8. link'[d] = "hello" /\ \A e \in Devices : e # d => ClientStill(e, i)
    BY <1>0, <2>4 DEF ClientStill
  <2>9. Ordered(d, i)'  BY <2>5, <2>6 DEF Ordered, InOrder
  <2>10. Reached(d, i)'  BY <2>5, <2>6, <2>8 DEF Reached, Answered
  <2>11. Claims(d, i)' /\ SavedClaims(d, i)'
    BY <1>0, <2>4 DEF Flow, Claims, SavedClaims, RowStands
  <2> QED  BY <2>6, <2>7, <2>8, <2>9, <2>10, <2>11, FlowsOfOne DEF Flow
<1>2. CASE SkipFrame(d)
  <2>1. /\ sock[d].down # <<>> /\ sock' = [sock EXCEPT ![d] = Rest(d)] /\ Head(sock[d].down).t # "state"
        /\ UNCHANGED <<doc, saved, link, torn, publishing>> /\ link[d] = "hello"
    BY <1>2 DEF SkipFrame, docVars, historyVars
  <2>2. PICK s \in Sockets(L) : s = sock[d]  BY <1>0
  <2>3. PICK t : t = Rest(d)  OBVIOUS
  <2>4. /\ t \in Sockets(L) /\ t.lagged = s.lagged /\ t.bcast = s.bcast /\ t.down = Tail(s.down)
    BY <1>0, <2>1, <2>2, <2>3, RestFacts
  <2>5. Resock(L, d, t)  BY <2>1, <2>3, <2>4 DEF Resock
  <2>6. sock'[d] = t /\ \A e \in Devices : e # d => sock'[e] = sock[e]  BY <1>0, <2>5, ResockFacts
  <2>7. PICK H, r, l, row : H = Hand /\ r = server.rows[i] /\ l = link[d] /\ row = doc[d].rows[i]
    OBVIOUS
  <2>8. Hand' = Hand /\ \A e \in Devices : ClientStill(e, i)  BY <2>1 DEF Hand, ClientStill
  <2>9. InOrder(s, H, i, r)  BY <1>0, <2>2, <2>7 DEF Flow, Ordered
  <2>10. InOrder(t, H, i, r) /\ \A n \in Nat : Later(s, H, n + 1, i, r) => Later(t, H, n, i, r)
    BY <2>1, <2>2, <2>4, <2>9, StreamTaken
  <2>11. PICK q \in Seq(DownFrames(L)) : q = s.down /\ q # <<>>  BY <2>1, <2>2 DEF Sockets
  <2>12. PICK p : p = Tail(q)  OBVIOUS
  <2>13. /\ DOMAIN q = 1 .. Len(q) /\ Len(q) \in Nat /\ Len(q) # 0 /\ DOMAIN p = 1 .. Len(q) - 1
         /\ (\A n \in DOMAIN p : p[n] = q[n + 1]) /\ q[1].t # "state"
    BY <2>1, <2>2, <2>11, <2>12, PlacesOfTail
  <2>14. ASSUME d \notin torn PROVE Answered(t, H, l, row, i, r)
    <3>1. Answered(s, H, l, row, i, r)  BY <1>0, <2>2, <2>7, <2>14 DEF Flow, Reached
    <3>2. t.down = p  BY <2>4, <2>11, <2>12
    <3>3. ASSUME NEW n \in DOMAIN p, FirstState(t, n) PROVE row = r \/ Later(t, H, n - 1, i, r)
      <4>1. n + 1 \in DOMAIN q /\ n - 1 \in Nat /\ n \in Nat  BY <2>13
      <4>2. FirstState(s, n + 1)
        <5>1. s.down[n + 1].t = "state"  BY <2>11, <2>13, <3>2, <3>3 DEF FirstState
        <5>2. ASSUME NEW m \in DOMAIN q, m < n + 1 PROVE q[m].t # "state"
          <6>1. CASE m = 1  BY <2>13, <6>1
          <6>2. CASE m # 1
            <7>1. m - 1 \in DOMAIN p /\ m - 1 < n /\ p[m - 1] = q[m]  BY <2>13, <3>3, <4>1, <5>2, <6>2
            <7> QED  BY <3>2, <3>3, <7>1 DEF FirstState
          <6> QED  BY <6>1, <6>2
        <5> QED  BY <2>11, <5>1, <5>2 DEF FirstState
      <4>3. row = r \/ Later(s, H, (n + 1) - 1, i, r)
        BY <2>1, <2>7, <2>11, <3>1, <4>1, <4>2 DEF Answered
      <4>4. (n + 1) - 1 = (n - 1) + 1  BY <4>1
      <4> QED  BY <2>10, <4>1, <4>3, <4>4
    <3> QED  BY <2>1, <2>7, <3>2, <3>3 DEF Answered
  <2>15. Flow(d, i)'
    <3>1. InOrder(sock'[d], Hand', i, server.rows[i])  BY <2>6, <2>7, <2>8, <2>10
    <3>2. d \notin torn => Answered(sock'[d], Hand', link[d], doc[d].rows[i], i, server.rows[i])
      BY <2>6, <2>7, <2>8, <2>14
    <3> QED  BY <1>0, <2>8, <3>1, <3>2, FlowByStream DEF RowStands
  <2> QED  BY <2>6, <2>8, <2>15, FlowsOfOne
<1>3. CASE PushPending(d)
  <2>1. PushAll(d, doc[d], sock[d]) /\ UNCHANGED <<publishing, saved, link, torn>>
    BY <1>3 DEF PushPending, historyVars
  <2>2. Pushed(L, d, doc[d], sock[d])  BY <1>0, <2>1, PushAllEffect
  <2>3. PICK e, r : /\ Redoc(L, d, e) /\ MarkedAs(L, d, doc[d], TRUE, e)
                    /\ Resock(L, d, r) /\ r.bcast = sock[d].bcast /\ r.down = sock[d].down
                    /\ r.lagged = sock[d].lagged
    BY <2>2 DEF Pushed
  <2>4. e.rows = doc[d].rows /\ e.cursor = doc[d].cursor  BY <2>3 DEF MarkedAs, SameBut
  <2>5. doc'[d] = e /\ \A x \in Devices : x # d => doc'[x] = doc[x]  BY <1>0, <2>3, RedocFacts
  <2>6. sock'[d] = r /\ \A x \in Devices : x # d => sock'[x] = sock[x]  BY <1>0, <2>3, ResockFacts
  <2>7. \A x \in Devices : /\ ClientStill(x, i) /\ sock'[x].down = sock[x].down
                           /\ sock'[x].bcast = sock[x].bcast /\ sock'[x].lagged = sock[x].lagged
    BY <2>1, <2>3, <2>4, <2>5, <2>6 DEF ClientStill
  <2>8. Hand' = Hand  BY <2>1 DEF Hand
  <2> QED  BY <1>0, <2>7, <2>8, FlowsUnmoved DEF RowFlows
<1> QED  BY <1>1, <1>2, <1>3

\* A joined replica takes a frame, or one joins with its answer.
LEMMA TakenFrameKeepsFlows ==
  ASSUME NEW L, NEW i \in Ids, RowStands(L, i), NEW d \in Devices, sock[d].down # <<>>,
         NEW e, Redoc(L, d, e), NEW t, Resock(L, d, t), t.lagged = sock[d].lagged,
         t.bcast = sock[d].bcast, t.down = Tail(sock[d].down),
         UNCHANGED <<publishing, saved, torn>>, link'[d] = "ready",
         \A x \in Devices : x # d => link'[x] = link[x],
         d \notin torn => doc[d].rows[i] = server.rows[i] \/ Later(sock[d], Hand, 0, i, server.rows[i]),
         Makes(Head(sock[d].down), i, doc[d].rows[i], e.rows[i])
  PROVE  RowFlows(i)'
<1>0. /\ sock \in [Devices -> Sockets(L)] /\ Flow(d, i) /\ DOMAIN doc = Devices
  BY DEF RowStands, Standing, Shapes, RoomShapes, DocShapes, RowFlows
<1>1. PICK s \in Sockets(L) : s = sock[d]  BY <1>0
<1>2. sock'[d] = t /\ t \in Sockets(L) /\ \A x \in Devices : x # d => sock'[x] = sock[x]
  BY <1>0, ResockFacts DEF Resock
<1>3. doc'[d] = e /\ \A x \in Devices : x # d => doc'[x] = doc[x]
  <2>1. doc' = [doc EXCEPT ![d] = e]  BY DEF Redoc
  <2> QED  BY <1>0, <2>1
<1>4. PICK H, r, row, new : H = Hand /\ r = server.rows[i] /\ row = doc[d].rows[i] /\ new = e.rows[i]
  OBVIOUS
<1>5. Hand' = Hand  BY DEF Hand
<1>6. InOrder(s, H, i, r)  BY <1>0, <1>1, <1>4 DEF Flow, Ordered
<1>7. InOrder(t, H, i, r)  BY <1>1, <1>2, <1>6, StreamTaken
<1>8. d \notin torn => new = r \/ Later(t, H, 0, i, r)
  <2>1. SUFFICES ASSUME d \notin torn PROVE new = r \/ Later(t, H, 0, i, r)  OBVIOUS
  <2>2. row = r \/ Later(s, H, 0, i, r)  BY <1>1, <1>4, <2>1
  <2>3. r # Missing  BY <1>4 DEF RowStands
  <2>4. Makes(Head(s.down), i, row, new)  BY <1>1, <1>4
  <2>5. s.down # <<>> /\ t.down = Tail(s.down) /\ t.bcast = s.bcast /\ t.lagged = s.lagged  BY <1>1
  <2> QED  BY <1>2, <1>6, <2>2, <2>3, <2>4, <2>5, FrameTakesEffect
<1>9. Ordered(d, i)'  BY <1>2, <1>4, <1>5, <1>7 DEF Ordered, RowStands
<1>10. Reached(d, i)'  BY <1>2, <1>3, <1>4, <1>5, <1>8 DEF Reached, Answered, RowStands
<1>11. Claims(d, i)' /\ SavedClaims(d, i)'  BY <1>0 DEF Flow, Claims, SavedClaims, RowStands
<1>12. \A x \in Devices : x # d => ClientStill(x, i)  BY <1>3 DEF ClientStill
<1> QED  BY <1>2, <1>5, <1>9, <1>10, <1>11, <1>12, FlowsOfOne DEF Flow

\* How a whole or partial table changes a row.
LEMMA StateChangesRow ==
  ASSUME NEW L, NEW d, NEW dc, NEW f \in StateFrames(L), NEW a, StateApplied(L, d, dc, f, a), NEW i \in Ids
  PROVE  Makes(f, i, dc.rows[i], a.rows[i])
<1>1. f.t = "state"  BY DEF StateFrames
<1>2. a.rows[i] = NewRow(dc, f, i)  BY DEF StateApplied
<1> QED  BY <1>1, <1>2 DEF NewRow, Replaces, Makes

LEMMA ReceivingKeepsFlows ==
  ASSUME NEW L, L \subseteq Pairs, NEW i \in Ids, RowStands(L, i), NEW d \in Devices, NEW now \in Nat,
         ReceiveState(d, now) \/ ReceiveFrame(d, now)
  PROVE  RowFlows(i)'
<1>0. /\ RoomShapes(L) /\ DocShapes(L) /\ ClockShapes /\ sock \in [Devices -> Sockets(L)] /\ Flow(d, i)
      /\ DOMAIN link = Devices /\ doc[d] \in Docs(d, L)
  BY DEF RowStands, Standing, Shapes, RoomShapes, DocShapes, Links, RowFlows
<1>1. CASE ReceiveState(d, now)
  <2>1. PICK f, a, e, r : StateTaken(L, d, f, a, e, r)  BY <1>0, <1>1, ReceiveStateEffect
  <2>2. /\ f = Head(sock[d].down) /\ f \in StateFrames(L) /\ StateApplied(L, d, doc[d], f, a)
        /\ Redoc(L, d, e) /\ e.rows = a.rows /\ Resock(L, d, r) /\ r.lagged = sock[d].lagged
        /\ r.bcast = sock[d].bcast /\ r.down = Tail(sock[d].down)
    BY <2>1 DEF StateTaken
  <2>3. /\ sock[d].down # <<>> /\ link[d] = "hello" /\ link' = [link EXCEPT ![d] = "ready"]
        /\ UNCHANGED <<publishing, saved, torn>>
    BY <1>1 DEF ReceiveState, Received
  <2>4. PICK s \in Sockets(L) : s = sock[d]  BY <1>0
  <2>5. PICK q \in Seq(DownFrames(L)) : q = s.down /\ q # <<>>  BY <2>3, <2>4 DEF Sockets
  <2>6. FirstState(s, 1) /\ 1 \in DOMAIN s.down
    <3>1. f.t = "state"  BY <2>2 DEF StateFrames
    <3>2. 1 \in DOMAIN q /\ q[1] = f /\ \A m \in DOMAIN q : ~ (m < 1)
      BY <2>2, <2>4, <2>5, PlacesOfTail
    <3> QED  BY <2>5, <3>1, <3>2 DEF FirstState
  <2>7. d \notin torn => doc[d].rows[i] = server.rows[i] \/ Later(sock[d], Hand, 0, i, server.rows[i])
    <3>1. 1 - 1 = 0  OBVIOUS
    <3>2. SUFFICES ASSUME d \notin torn
                   PROVE  doc[d].rows[i] = server.rows[i] \/ Later(sock[d], Hand, 0, i, server.rows[i])
      OBVIOUS
    <3>3. doc[d].rows[i] = server.rows[i] \/ Later(sock[d], Hand, 1 - 1, i, server.rows[i])
      BY <1>0, <2>3, <2>4, <2>6, <3>2 DEF Flow, Reached, Answered
    <3> QED  BY <3>1, <3>3
  <2>8. Makes(Head(sock[d].down), i, doc[d].rows[i], e.rows[i])
    <3>1. PICK dc : dc = doc[d]  OBVIOUS
    <3>2. Makes(f, i, dc.rows[i], a.rows[i])  BY <2>2, <3>1, StateChangesRow
    <3> QED  BY <2>2, <3>1, <3>2
  <2>9. link'[d] = "ready" /\ \A x \in Devices : x # d => link'[x] = link[x]  BY <1>0, <2>3
  <2> QED  BY <2>2, <2>3, <2>7, <2>8, <2>9, TakenFrameKeepsFlows
<1>2. CASE ReceiveFrame(d, now)
  <2>1. PICK f, e, r : FrameTaken(L, d, f, e, r)  BY <1>0, <1>2, ReceiveFrameEffect
  <2>2. /\ f = Head(sock[d].down) /\ f \in DownFrames(L) /\ Redoc(L, d, e)
        /\ \/ f \in RowsFrames(L) /\ e = ApplyRows(doc[d], f)
           \/ f \in Acks /\ AckApplied(L, d, doc[d], f, e)
           \/ f \in StateFrames(L) /\ StateApplied(L, d, doc[d], f, e)
        /\ Resock(L, d, r) /\ r.lagged = sock[d].lagged
        /\ r.bcast = sock[d].bcast /\ r.down = Tail(sock[d].down)
    BY <2>1 DEF FrameTaken
  <2>3. /\ sock[d].down # <<>> /\ link[d] = "ready" /\ link' = link
        /\ UNCHANGED <<publishing, saved, torn>>
    BY <1>2 DEF ReceiveFrame, historyVars
  <2>4. d \notin torn => doc[d].rows[i] = server.rows[i] \/ Later(sock[d], Hand, 0, i, server.rows[i])
    BY <1>0, <2>3 DEF Flow, Reached, Answered
  <2>5. Makes(f, i, doc[d].rows[i], e.rows[i])
    <3>1. CASE f \in RowsFrames(L) /\ e = ApplyRows(doc[d], f)
      <4>1. e.rows[i] = IF i \in DOMAIN f.rows THEN f.rows[i] ELSE doc[d].rows[i]
        BY <1>0, <3>1, ApplyRowsFacts
      <4>2. f.t # "ack"  BY <3>1 DEF RowsFrames
      <4> QED  BY <4>1, <4>2 DEF Makes
    <3>2. CASE f \in Acks /\ AckApplied(L, d, doc[d], f, e)
      <4>1. f.t = "ack" /\ e.rows = doc[d].rows  BY <3>2 DEF Acks, AckApplied
      <4> QED  BY <4>1 DEF Makes
    <3>3. CASE f \in StateFrames(L) /\ StateApplied(L, d, doc[d], f, e)
      <4>1. PICK dc : dc = doc[d]  OBVIOUS
      <4>2. Makes(f, i, dc.rows[i], e.rows[i])  BY <3>3, <4>1, StateChangesRow
      <4> QED  BY <4>1, <4>2
    <3> QED  BY <2>2, <3>1, <3>2, <3>3
  <2> QED  BY <2>2, <2>3, <2>4, <2>5, TakenFrameKeepsFlows
<1> QED  BY <1>1, <1>2


\* A user writes, or a snapshot is taken.
LEMMA WritingKeepsFlows ==
  ASSUME NEW i \in Ids, RowStands(Pairs, i), NEW d \in Devices, NEW now \in Nat, NEW kind \in Kinds,
         NEW ids \in (SUBSET Ids) \ {{}}, NEW F \in (SUBSET Fields) \ {{}},
         LocalWrite(d, now, kind, ids, F)
  PROVE  RowFlows(i)'
<1>0. /\ DocShapes(Pairs) /\ ClockShapes /\ writes[d] \in Nat /\ doc[d] \in Docs(d, Pairs)
      /\ DOMAIN doc = Devices /\ RowFlows(i)
  BY DEF RowStands, Standing, Shapes, DocShapes, ClockShapes
<1>1. UNCHANGED <<roomVars, saved, link, torn>>  BY DEF LocalWrite
<1>2. UNCHANGED <<sock, publishing, saved, link, torn>>  BY <1>1 DEF roomVars
<1>3. PairOf(d, now, kind) \in Pairs  BY <1>0, StampIsAClock
<1>4. PICK e, b : Written(Pairs, d, now, e, b)  BY <1>0, <1>3, LocalWriteEffect DEF PairOf
<1>5. Redoc(Pairs, d, e) /\ e.rows = doc[d].rows /\ e.cursor = doc[d].cursor  BY <1>4 DEF Written
<1>6. doc'[d] = e /\ \A x \in Devices : x # d => doc'[x] = doc[x]  BY <1>0, <1>5, RedocFacts
<1>7. \A x \in Devices : ClientStill(x, i)  BY <1>2, <1>5, <1>6 DEF ClientStill
<1>8. Hand' = Hand  BY <1>2 DEF Hand
<1> QED  BY <1>0, <1>2, <1>7, <1>8, FlowsUnmoved DEF RowFlows

LEMMA SavingKeepsFlows ==
  ASSUME NEW L, L \subseteq Pairs, NEW i \in Ids, RowStands(L, i), NEW d \in Devices, NEW now \in Nat,
         SaveSnapshot(d, now)
  PROVE  RowFlows(i)'
<1>0. /\ DocShapes(L) /\ DOMAIN doc = Devices /\ DOMAIN saved = Devices /\ RowFlows(i) /\ Flow(d, i)
  BY DEF RowStands, Standing, Shapes, DocShapes, RowFlows
<1>1. UNCHANGED <<roomVars, link, historyVars>>  BY DEF SaveSnapshot
<1>2. UNCHANGED <<server, sock, publishing, link, torn>>  BY <1>1 DEF roomVars, historyVars
<1>3. PICK c, k : Snapshot(L, d, c, k)  BY <1>0, SaveSnapshotEffect
<1>4. /\ Redoc(L, d, c) /\ k.rows = c.rows /\ c.rows = doc[d].rows
      /\ k.cursor = c.cursor /\ c.cursor = doc[d].cursor
      /\ saved' = [saved EXCEPT ![d] = [doc |-> k, owing |-> Owing(d) \/ d \in torn]]
  BY <1>3 DEF Snapshot, CompactedTo, SameBut
<1>5. doc'[d] = c /\ \A x \in Devices : x # d => doc'[x] = doc[x]  BY <1>0, <1>4, RedocFacts
<1>6. /\ saved'[d] = [doc |-> k, owing |-> Owing(d) \/ d \in torn]
      /\ \A x \in Devices : x # d => saved'[x] = saved[x]
  BY <1>0, <1>4
<1>7. Hand' = Hand  BY <1>2 DEF Hand
<1>8. Ordered(d, i)' /\ Reached(d, i)' /\ Claims(d, i)'
  <2>1. doc'[d].rows = doc[d].rows /\ doc'[d].cursor = doc[d].cursor  BY <1>4, <1>5
  <2>2. Ordered(d, i)'  BY <1>0, <1>2, <1>7 DEF Flow, Ordered
  <2>3. Reached(d, i)'  BY <1>0, <1>2, <1>7, <2>1 DEF Flow, Reached
  <2>4. Claims(d, i)'  BY <1>0, <1>2, <2>1 DEF Flow, Claims
  <2> QED  BY <2>2, <2>3, <2>4
<1>9. SavedClaims(d, i)'
  <2>1. saved'[d].doc.rows = doc[d].rows /\ saved'[d].doc.cursor = doc[d].cursor  BY <1>4, <1>6
  <2>2. ~ saved'[d].owing => ~ Owing(d) /\ d \notin torn
    <3>1. PICK o \in BOOLEAN : o = (Owing(d) \/ d \in torn)  OBVIOUS
    <3>2. saved'[d] = [doc |-> k, owing |-> o]  BY <1>6, <3>1
    <3>3. saved'[d].owing = o  BY <3>2
    <3> QED  BY <3>1, <3>3
  <2>3. SUFFICES ASSUME ~ saved'[d].owing, server.rows[i].seq <= doc[d].cursor
                 PROVE  doc[d].rows[i] = server.rows[i]
    BY <1>2, <2>1 DEF SavedClaims
  <2> QED  BY <1>0, <2>2, <2>3, NothingOwed
<1>10. \A x \in Devices : x # d => ClientStill(x, i)  BY <1>2, <1>5, <1>6 DEF ClientStill
<1> QED  BY <1>2, <1>7, <1>8, <1>9, <1>10, FlowsOfOne DEF Flow

\* A connection is lost, with its session or its process.
LEMMA HandSurvives ==
  ASSUME NEW L, RoomShapes(L), NEW d \in Devices, Disconnect(d)
  PROVE  /\ Hand' = Hand /\ sock'[d] = NoSocket
         /\ \A x \in Devices : x # d => sock'[x] = sock[x]
<1>0. sock \in [Devices -> Sockets(L)]  BY DEF RoomShapes
<1>1. /\ Resock(L, d, NoSocket)
      /\ \A p \in publishing' : \E q \in publishing : p.frame = q.frame
      /\ \A q \in publishing : \E p \in publishing' : p.frame = q.frame
  BY DisconnectEffect
<1>2. Hand' = Hand
  <2>1. Hand' = {p.frame : p \in publishing'}  BY DEF Hand
  <2> QED  BY <1>1, <2>1 DEF Hand
<1> QED  BY <1>0, <1>1, <1>2, ResockFacts

LEMMA CutKeepsFlows ==
  ASSUME NEW L, NEW i \in Ids, RowStands(L, i), NEW d \in Devices, Cut(d)
  PROVE  RowFlows(i)'
<1>0. /\ RoomShapes(L) /\ DocShapes(L) /\ DOMAIN doc = Devices /\ DOMAIN link = Devices /\ Flow(d, i)
      /\ doc[d] \in Docs(d, L)
  BY DEF RowStands, Standing, Shapes, DocShapes, Links, RowFlows
<1>1. /\ EndSession(d) /\ Disconnect(d) /\ saved' = saved
      /\ torn' = IF Owing(d) THEN torn \cup {d} ELSE torn
  BY DEF Cut
<1>2. PICK e : e = Landed(doc[d])  OBVIOUS
<1>3. Redoc(L, d, e) /\ link' = [link EXCEPT ![d] = "closed"]  BY <1>0, <1>1, <1>2, EndSessionFacts
<1>4. e.rows = doc[d].rows /\ e.cursor = doc[d].cursor
  <2>1. PICK no \in BOOLEAN : no = FALSE  OBVIOUS
  <2>2. e = Marked(doc[d], no)  BY <1>0, <1>2, <2>1, LandedFacts
  <2>3. MarkedAs(L, d, doc[d], no, e)  BY <1>0, <2>2, MarkedFacts
  <2> QED  BY <2>3 DEF MarkedAs, SameBut
<1>5. doc'[d] = e /\ \A x \in Devices : x # d => doc'[x] = doc[x]  BY <1>0, <1>3, RedocFacts
<1>6. Hand' = Hand /\ sock'[d] = NoSocket /\ \A x \in Devices : x # d => sock'[x] = sock[x]
  BY <1>0, <1>1, HandSurvives
<1>7. link'[d] = "closed" /\ \A x \in Devices : x # d => link'[x] = link[x]  BY <1>0, <1>3
<1>8. Ordered(d, i)' /\ Reached(d, i)'  BY <1>6, <1>7, NoStream
<1>9. Claims(d, i)'
  <2>1. SUFFICES ASSUME d \notin torn', server.rows[i].seq <= doc[d].cursor
                 PROVE  doc[d].rows[i] = server.rows[i]
    BY <1>4, <1>5 DEF Claims, RowStands
  <2>2. d \notin torn /\ ~ Owing(d)  BY <1>1, <2>1
  <2> QED  BY <1>0, <2>1, <2>2, NothingOwed
<1>10. SavedClaims(d, i)'  BY <1>0, <1>1 DEF Flow, SavedClaims, RowStands
<1>11. \A x \in Devices : x # d => ClientStill(x, i)  BY <1>1, <1>5, <1>7 DEF ClientStill
<1> QED  BY <1>6, <1>8, <1>9, <1>10, <1>11, FlowsOfOne DEF Flow

LEMMA CrashKeepsFlows ==
  ASSUME NEW L, L \subseteq Pairs, NEW i \in Ids, RowStands(L, i), NEW d \in Devices, NEW now \in Nat,
         Crash(d, now)
  PROVE  RowFlows(i)'
<1>0. /\ RoomShapes(L) /\ DocShapes(L) /\ DOMAIN doc = Devices /\ DOMAIN link = Devices /\ Flow(d, i)
      /\ DOMAIN saved = Devices /\ saved[d] \in [doc : Docs(d, L), owing : BOOLEAN]
  BY DEF RowStands, Standing, Shapes, DocShapes, SavedDocs, Links, RowFlows
<1>1. /\ Disconnect(d) /\ link' = [link EXCEPT ![d] = "closed"]
      /\ torn' = IF saved[d].owing THEN torn \cup {d} ELSE torn
  BY DEF Crash
<1>2. PICK c, k : Restored(L, d, c, k)  BY <1>0, CrashEffect
<1>3. /\ Redoc(L, d, c) /\ k.rows = c.rows /\ c.rows = saved[d].doc.rows
      /\ k.cursor = c.cursor /\ c.cursor = saved[d].doc.cursor
      /\ saved' = [saved EXCEPT ![d].doc = k]
  BY <1>2 DEF Restored, CompactedTo, SameBut
<1>4. doc'[d] = c /\ \A x \in Devices : x # d => doc'[x] = doc[x]  BY <1>0, <1>3, RedocFacts
<1>5. /\ saved'[d].doc = k /\ saved'[d].owing = saved[d].owing
      /\ \A x \in Devices : x # d => saved'[x] = saved[x]
  BY <1>0, <1>3
<1>6. Hand' = Hand /\ sock'[d] = NoSocket /\ \A x \in Devices : x # d => sock'[x] = sock[x]
  BY <1>0, <1>1, HandSurvives
<1>7. link'[d] = "closed" /\ \A x \in Devices : x # d => link'[x] = link[x]  BY <1>0, <1>1
<1>8. Ordered(d, i)' /\ Reached(d, i)'  BY <1>6, <1>7, NoStream
<1>9. Claims(d, i)'
  <2>1. SUFFICES ASSUME d \notin torn', server.rows[i].seq <= saved[d].doc.cursor
                 PROVE  saved[d].doc.rows[i] = server.rows[i]
    BY <1>3, <1>4 DEF Claims, RowStands
  <2>2. ~ saved[d].owing  BY <1>1, <2>1
  <2> QED  BY <1>0, <2>1, <2>2 DEF Flow, SavedClaims
<1>10. SavedClaims(d, i)'  BY <1>0, <1>3, <1>5 DEF Flow, SavedClaims, RowStands
<1>11. \A x \in Devices : x # d => ClientStill(x, i)  BY <1>1, <1>4, <1>5, <1>7 DEF ClientStill
<1> QED  BY <1>6, <1>8, <1>9, <1>10, <1>11, FlowsOfOne DEF Flow

LEMMA RestartKeepsFlows ==
  ASSUME NEW L, NEW i \in Ids, RowStands(L, i), NEW kind, Restart(kind)
  PROVE  RowFlows(i)'
<1>0. DocShapes(L) /\ RowFlows(i)  BY DEF RowStands, Standing, Shapes
<1>1. /\ sock' = [d \in Devices |-> NoSocket] /\ publishing' = {} /\ saved' = saved
      /\ doc' = [d \in Devices |-> Landed(doc[d])] /\ link' = [d \in Devices |-> "closed"]
      /\ torn' = torn \cup {d \in Devices : Owing(d)}
  BY DEF Restart, Reload
<1>2. Hand' = {}  BY <1>1 DEF Hand
<1>3. HandInOrder(Hand', i, server'.rows[i])  BY <1>2 DEF HandInOrder
<1>4. ASSUME NEW d \in Devices PROVE Flow(d, i)'
  <2>0. Flow(d, i)  BY <1>0 DEF RowFlows
  <2>1. doc'[d].rows = doc[d].rows /\ doc'[d].cursor = doc[d].cursor
    <3>1. doc[d] \in Docs(d, L)  BY <1>0 DEF DocShapes
    <3>2. PICK no \in BOOLEAN : no = FALSE  OBVIOUS
    <3>3. Landed(doc[d]) = Marked(doc[d], no)  BY <3>1, <3>2, LandedFacts
    <3>4. MarkedAs(L, d, doc[d], no, Landed(doc[d]))  BY <3>1, <3>3, MarkedFacts
    <3> QED  BY <1>1, <3>4 DEF MarkedAs, SameBut
  <2>2. sock'[d] = NoSocket /\ link'[d] = "closed"  BY <1>1
  <2>3. Ordered(d, i)' /\ Reached(d, i)'  BY <2>2, NoStream
  <2>4. Claims(d, i)'
    <3>1. SUFFICES ASSUME d \notin torn', server.rows[i].seq <= doc[d].cursor
                   PROVE  doc[d].rows[i] = server.rows[i]
      BY <2>1 DEF Claims, RowStands
    <3>2. d \notin torn /\ ~ Owing(d)  BY <1>1, <3>1
    <3> QED  BY <2>0, <3>1, <3>2, NothingOwed
  <2>5. SavedClaims(d, i)'  BY <1>1, <2>0 DEF Flow, SavedClaims, RowStands
  <2> QED  BY <2>3, <2>4, <2>5 DEF Flow
<1> QED  BY <1>3, <1>4 DEF RowFlows


\* The steps that leave the row alone.
LEMMA StandingRowKeepsFlowing ==
  ASSUME NEW i \in Ids, RowStands(Pairs, i), [Next]_vars, ~ overtaken'
  PROVE  RowFlows(i)'
<1>1. CASE Resting
  <2>1. UNCHANGED <<sock, publishing, doc, saved, link, torn>>
    BY <1>1, RestingIsRest DEF AtRest
  <2>2. Hand' = Hand /\ \A d \in Devices : ClientStill(d, i)  BY <2>1 DEF Hand, ClientStill
  <2>3. HandInOrder(Hand, i, server.rows[i])  BY DEF RowStands, RowFlows
  <2> QED  BY <2>1, <2>2, <2>3, FlowsUnmoved
<1>2. ASSUME NEW d \in Devices, Serve(d) \/ Dial(d) \/ SkipFrame(d) \/ PushPending(d) \/ Cut(d)
      PROVE  RowFlows(i)'
  BY <1>2, ServeKeepsFlows, SessionsKeepFlows, CutKeepsFlows
<1>3. ASSUME NEW p \in publishing, Publish(p) PROVE RowFlows(i)'  BY <1>3, PublishKeepsFlows
<1>4. ASSUME NEW d \in Devices, NEW now \in Readings(d) PROVE now \in Nat
  BY ReadingsAreNat DEF RowStands, Standing, Shapes
<1>5. ASSUME NEW d \in Devices, NEW now \in Readings(d),
             ReceiveState(d, now) \/ ReceiveFrame(d, now) \/ SaveSnapshot(d, now) \/ Crash(d, now)
      PROVE  RowFlows(i)'
  BY <1>4, <1>5, ReceivingKeepsFlows, SavingKeepsFlows, CrashKeepsFlows
<1>6. ASSUME NEW d \in Devices, NEW now \in Readings(d), NEW kind \in Kinds,
             NEW ids \in (SUBSET Ids) \ {{}}, NEW F \in (SUBSET Fields) \ {{}},
             LocalWrite(d, now, kind, ids, F)
      PROVE  RowFlows(i)'
  BY <1>4, <1>6, WritingKeepsFlows
<1>7. ASSUME NEW kind, Restart(kind) PROVE RowFlows(i)'  BY <1>7, RestartKeepsFlows
<1> QED  BY <1>1, <1>2, <1>3, <1>5, <1>6, <1>7 DEF Next, Resting

\* Only serving a batch changes the table, short of losing it.
LEMMA TableOfStep ==
  ASSUME Shapes(Pairs), [Next]_vars
  PROVE  \/ server' = server /\ epoch' = epoch
         \/ epoch' # 0
         \/ epoch' = epoch /\ \E d \in Devices : Serve(d)
<1>0. ASSUME NEW d \in Devices, NEW now \in Readings(d) PROVE now \in Nat
  BY ReadingsAreNat DEF Shapes
<1>1. CASE Resting  BY <1>1, RestingIsRest DEF AtRest
<1>2. ASSUME NEW d \in Devices, Serve(d) PROVE epoch' = epoch  BY <1>2 DEF Serve, historyVars
<1>3. ASSUME NEW d \in Devices,
             \/ Dial(d) \/ SkipFrame(d) \/ PushPending(d) \/ Cut(d)
             \/ \E now \in Readings(d) : \/ ReceiveState(d, now) \/ ReceiveFrame(d, now)
                                         \/ SaveSnapshot(d, now) \/ Crash(d, now)
      PROVE  server' = server /\ epoch' = epoch
  BY <1>3, OthersBringFrames
<1>4. ASSUME NEW p \in publishing, Publish(p) PROVE server' = server /\ epoch' = epoch
  BY <1>4, PublishBringsFrames
<1>5. ASSUME NEW d \in Devices, NEW now \in Readings(d), NEW kind \in Kinds,
             NEW ids \in (SUBSET Ids) \ {{}}, NEW F \in (SUBSET Fields) \ {{}},
             LocalWrite(d, now, kind, ids, F)
      PROVE  server' = server /\ epoch' = epoch
  BY <1>0, <1>5, LocalWriteBringsNoRows
<1>6. ASSUME NEW kind, Restart(kind)
      PROVE  (server' = server /\ epoch' = epoch) \/ epoch' # 0
  BY <1>6, RestartBringsNoRows
<1> QED  BY <1>1, <1>2, <1>3, <1>4, <1>5, <1>6 DEF Next, Resting

\* The table is lost, and broadcasts overtake each other, once and for all.
LEMMA HistoryStays ==
  ASSUME Shapes(Pairs), [Next]_vars
  PROVE  (epoch' = 0 => epoch = 0) /\ (~ overtaken' => ~ overtaken)
<1>0. epoch \in Nat  BY DEF Shapes, ClockShapes
<1>1. CASE Resting  BY <1>1, RestingIsRest DEF AtRest
<1>2. ASSUME NEW d \in Devices,
             Serve(d) \/ Dial(d) \/ SkipFrame(d) \/ PushPending(d) \/ Cut(d)
      PROVE  UNCHANGED <<epoch, overtaken>>
  BY <1>2 DEF Serve, Dial, SkipFrame, PushPending, Cut, historyVars
<1>3. ASSUME NEW d \in Devices, NEW now \in Readings(d),
             ReceiveState(d, now) \/ ReceiveFrame(d, now) \/ SaveSnapshot(d, now) \/ Crash(d, now)
      PROVE  UNCHANGED <<epoch, overtaken>>
  BY <1>3 DEF ReceiveState, ReceiveFrame, SaveSnapshot, Crash, historyVars
<1>4. ASSUME NEW p \in publishing, Publish(p)
      PROVE  epoch' = epoch /\ (overtaken => overtaken')
  BY <1>4 DEF Publish
<1>5. ASSUME NEW d \in Devices, NEW now \in Readings(d), NEW kind \in Kinds,
             NEW ids \in (SUBSET Ids) \ {{}}, NEW F \in (SUBSET Fields) \ {{}},
             LocalWrite(d, now, kind, ids, F)
      PROVE  UNCHANGED <<epoch, overtaken>>
  BY <1>5 DEF LocalWrite
<1>6. ASSUME NEW kind, Restart(kind)
      PROVE  overtaken' = overtaken /\ (epoch' = epoch \/ epoch' = epoch + 1)
  BY <1>6 DEF Restart
<1> QED  BY <1>0, <1>1, <1>2, <1>3, <1>4, <1>5, <1>6 DEF Next, Resting

LEMMA AlwaysCovered ==
  Spec => []Covered
<1>1. Init => Covered
  <2>1. Init => \A i \in Ids : server.rows[i] = Missing  BY DEF Init, RoomInit, EmptyTable
  <2> QED  BY <2>1 DEF Covered
<1>2. Shapes(Pairs) /\ Shapes(Pairs)' /\ CopiesAreOlder /\ Asking /\ Covered /\ [Next]_vars => Covered'
  <2> SUFFICES ASSUME Shapes(Pairs), Shapes(Pairs)', CopiesAreOlder, Asking, Covered, [Next]_vars,
                      epoch' = 0, ~ overtaken', NEW i \in Ids, server'.rows[i] # Missing
               PROVE  RowFlows(i)'
    BY DEF Covered
  <2>1. epoch = 0 /\ ~ overtaken  BY HistoryStays
  <2>2. Standing(Pairs)  BY <2>1 DEF Standing
  <2>3. CASE server'.rows[i] = server.rows[i]
    <3>1. RowFlows(i)  BY <2>1, <2>3 DEF Covered
    <3>2. sock' \in [Devices -> Sockets(Pairs)]  BY DEF Shapes, RoomShapes
    <3>3. RowStands(Pairs, i)  BY <2>2, <2>3, <3>1, <3>2 DEF RowStands
    <3> QED  BY <3>3, StandingRowKeepsFlowing
  <2>4. CASE server'.rows[i] # server.rows[i]
    <3>1. PICK d \in Devices : Serve(d)  BY <2>4, TableOfStep
    <3> QED  BY <2>2, <2>4, <3>1, ServedRowFlows
  <2> QED  BY <2>3, <2>4
<1> QED  BY <1>1, <1>2, ShapesAlways, CopiesAlwaysOlder, AlwaysAsking, PTL DEF Spec

\* What a replica's cursor has passed the replica holds, or is being brought on its
\* connection: no interleaving of pushes, broadcasts, lags, snapshots, crashes and
\* restarts leaves a hole behind a cursor, unless a batch overtook an earlier one or the
\* connection was lost with rows that the cursor had passed still on it.
THEOREM CursorIsAlwaysCovered == Spec => []CursorIsCovered
<1>1. Shapes(Pairs) /\ CopiesAreOlder /\ Covered => CursorIsCovered
  <2> SUFFICES ASSUME Shapes(Pairs), CopiesAreOlder, Covered, NEW d \in Devices, NEW i \in Ids,
                      server.rows[i].seq <= doc[d].cursor, epoch = 0, ~ overtaken, d \notin torn
               PROVE  doc[d].rows[i] = server.rows[i] \/ Coming(d, i)
    BY DEF CursorIsCovered
  <2>1. CASE server.rows[i] = Missing
    <3>1. doc[d] \in Docs(d, Pairs)  BY DEF Shapes, DocShapes
    <3>2. doc[d].rows[i].seq \in Nat  BY <3>1, DocParts DEF Rows, Row
    <3>3. Older(doc[d].rows[i], server.rows[i])  BY DEF CopiesAreOlder, OlderRow
    <3> QED  BY <2>1, <3>2, <3>3 DEF Older, Missing
  <2>2. CASE server.rows[i] # Missing
    <3>1. Flow(d, i)  BY <2>2 DEF Covered, RowFlows
    <3>2. CASE link[d] # "ready"  BY <3>1, <3>2 DEF Flow, Claims
    <3>3. CASE link[d] = "ready"
      <4>1. doc[d].rows[i] = server.rows[i] \/ Later(sock[d], Hand, 0, i, server.rows[i])
        BY <3>1, <3>3 DEF Flow, Reached, Answered
      <4>2. Later(sock[d], Hand, 0, i, server.rows[i]) => Coming(d, i)
        <5>1. \A f : Gives(f, i, server.rows[i]) => Carries(f, i)  BY DEF Gives, Carries
        <5> QED  BY <3>3, <5>1 DEF Later, GivenIn, Handed, Hand, Coming
      <4> QED  BY <4>1, <4>2
    <3> QED  BY <3>2, <3>3
  <2> QED  BY <2>1, <2>2
<1> QED  BY <1>1, ShapesAlways, CopiesAlwaysOlder, AlwaysCovered, PTL

-----------------------------------------------------------------------------
(* Writes on their way: what one operation does for another.               *)

\* A clock names one value.
OneValue(L) == \A p, q \in L : p[1] = q[1] => p[2] = q[2]

\* The operation carries the other one: whatever row takes it in has taken in both.
Covers(p, op) ==
  /\ p.id = op.id
  /\ \/ /\ op.op = "upsert" /\ p.op = "upsert"
        /\ \A f \in DOMAIN op.set :
             /\ f \in DOMAIN p.set
             /\ p.set[f].clock > op.set[f].clock
                \/ (p.set[f].clock = op.set[f].clock /\ p.set[f].value = op.set[f].value)
     \/ op.op = "delete" /\ p.op = "upsert" /\ \E f \in DOMAIN p.set : p.set[f].clock >= op.hlc
     \/ op.op = "delete" /\ p.op = "delete" /\ p.hlc >= op.hlc

\* An operation a user issued: every field has its stamp.
Plain(op) == op.op # "update" /\ \A f \in DOMAIN op.set : op.set[f].clock = op.hlc

\* What is made of writes with one value to a clock: a clock names one write.
LEMMA ClocksOfOneValue ==
  ASSUME NEW L, OneValue(L), NEW row \in Rows(L), NEW op \in Ops(L)
  PROVE  ClocksAreUnique(row, op)
<1>1. SUFFICES ASSUME NEW f \in DOMAIN op.set, op.set[f].clock = row.clock[f]
               PROVE  op.set[f].value = row.value[f]
  BY DEF ClocksAreUnique
<1>2. f \in Fields /\ op.set[f].clock # 0 /\ <<op.set[f].clock, op.set[f].value>> \in L  BY OpParts
<1>3. <<row.clock[f], row.value[f]>> \in L  BY <1>1, <1>2, RowParts
<1>4. PICK p \in L, q \in L : p = <<op.set[f].clock, op.set[f].value>>
                              /\ q = <<row.clock[f], row.value[f]>>
  BY <1>2, <1>3
<1>5. p[1] = q[1]  BY <1>1, <1>4
<1>6. p[2] = q[2]  BY <1>5 DEF OneValue
<1> QED  BY <1>4, <1>6

\* A row that takes an operation in takes in what the operation carries.
LEMMA CoveredIsAbsorbed ==
  ASSUME NEW L, OneValue(L), NEW row \in Rows(L), NEW p \in Ops(L), NEW op \in Ops(L), Covers(p, op)
  PROVE  Absorbed(ApplyOp(row, p), op)
<1>1. p.op # "update"  BY DEF Covers
<1>2. PICK r : r = ApplyOp(row, p)  OBVIOUS
<1>3. Absorbed(r, p) /\ r \in Rows(L)
  <2>1. ClocksAreUnique(row, p)  BY ClocksOfOneValue
  <2>2. Shaped(row) /\ Issued(p)  BY RowParts, OpParts
  <2> QED  BY <1>1, <1>2, <2>1, <2>2, AppliedIsAbsorbed, ApplyMakesARow
<1>4. r.del \in Nat /\ \A f \in Fields : r.clock[f] \in Nat  BY <1>3, RowParts
<1>5. p.hlc \in Nat /\ op.hlc \in Nat
      /\ (\A f \in DOMAIN p.set : f \in Fields /\ p.set[f].clock \in Nat)
      /\ (\A f \in DOMAIN op.set : f \in Fields /\ op.set[f].clock \in Nat)
  BY OpParts
<1>6. CASE op.op = "upsert" /\ p.op = "upsert"
  <2>1. r.state # "missing" /\ \A f \in DOMAIN p.set : Holds(r, f, p.set[f])
    BY <1>3, <1>6 DEF Absorbed
  <2>2. ASSUME NEW f \in DOMAIN op.set PROVE Holds(r, f, op.set[f])
    <3>1. /\ f \in DOMAIN p.set
          /\ p.set[f].clock > op.set[f].clock
             \/ (p.set[f].clock = op.set[f].clock /\ p.set[f].value = op.set[f].value)
      BY <1>6 DEF Covers
    <3>2. Holds(r, f, p.set[f])  BY <2>1, <3>1
    <3>3. f \in Fields /\ p.set[f].clock \in Nat /\ op.set[f].clock \in Nat /\ r.clock[f] \in Nat
      BY <1>4, <1>5, <3>1
    <3> QED  BY <1>4, <3>1, <3>2, <3>3 DEF Holds
  <2> QED  BY <1>2, <1>6, <2>1, <2>2 DEF Absorbed
<1>7. CASE op.op = "delete" /\ p.op = "upsert"
  <2>1. r.state # "missing" /\ \A f \in DOMAIN p.set : Holds(r, f, p.set[f])
    BY <1>3, <1>7 DEF Absorbed
  <2>2. PICK f \in DOMAIN p.set : p.set[f].clock >= op.hlc  BY <1>7 DEF Covers
  <2>3. f \in Fields /\ p.set[f].clock \in Nat /\ r.clock[f] \in Nat  BY <1>4, <1>5
  <2>4. p.set[f].clock <= r.del \/ p.set[f].clock <= r.clock[f]  BY <2>1, <2>3 DEF Holds
  <2>5. ~ NewerThanRow(op.hlc, r)  BY <1>4, <1>5, <2>2, <2>3, <2>4 DEF NewerThanRow
  <2> QED  BY <1>2, <1>7, <2>1, <2>5 DEF Absorbed
<1>8. CASE op.op = "delete" /\ p.op = "delete"
  <2>1. r.state # "missing" /\ ~ NewerThanRow(p.hlc, r)  BY <1>3, <1>8 DEF Absorbed
  <2>2. p.hlc >= op.hlc  BY <1>8 DEF Covers
  <2>3. p.hlc <= r.del \/ \E f \in Fields : p.hlc <= r.clock[f]  BY <1>4, <1>5, <2>1 DEF NewerThanRow
  <2>4. ~ NewerThanRow(op.hlc, r)  BY <1>4, <1>5, <2>2, <2>3 DEF NewerThanRow
  <2> QED  BY <1>2, <1>8, <2>1, <2>4 DEF Absorbed
<1> QED  BY <1>6, <1>7, <1>8 DEF Covers

\* A user's operation carries itself.
LEMMA CoversItself ==
  ASSUME NEW L, NEW op \in Ops(L), op.op # "update"
  PROVE  Covers(op, op)
<1>1. op.hlc \in Nat /\ op.op \in {"upsert", "update", "delete"}  BY OpParts
<1> QED  BY <1>1 DEF Covers

\* A sequence of operations takes in what one of them carries, and what the row had taken in.
LEMMA AppliedTakesIn ==
  ASSUME NEW L, OneValue(L), NEW row \in Rows(L), NEW ops \in Seq(Ops(L)), NEW op \in Ops(L),
         Absorbed(row, op) \/ \E p \in ToSet(ops) : Covers(p, op)
  PROVE  Absorbed(ApplyOps(row, ops), op)
<1>0. Len(ops) \in Nat /\ (\A n \in 1 .. Len(ops) : ops[n] \in Ops(L))
      /\ ToSet(ops) = {ops[n] : n \in 1 .. Len(ops)}
  BY ToSetOfSeq
<1>1. PICK after : /\ after[0] = row
                   /\ \A n \in 1 .. Len(ops) : after[n] = ApplyOp(after[n - 1], ops[n])
                   /\ ApplyOps(row, ops) = after[Len(ops)]
  BY <1>0, ApplyOpsRun
<1> DEFINE Has(n) == Absorbed(row, op) \/ \E k \in 1 .. n : Covers(ops[k], op)
           S == {n \in Nat : n <= Len(ops) => /\ after[n] \in Rows(L)
                                              /\ Has(n) => Absorbed(after[n], op)}
<1>2. 0 \in S  BY <1>1
<1>3. ASSUME NEW n \in Nat, n \in S PROVE n + 1 \in S
  <2>1. SUFFICES ASSUME n + 1 <= Len(ops)
                 PROVE  after[n + 1] \in Rows(L) /\ (Has(n + 1) => Absorbed(after[n + 1], op))
    OBVIOUS
  <2>2. n + 1 \in 1 .. Len(ops) /\ n + 1 - 1 = n  BY <1>0, <2>1
  <2>3. after[n] \in Rows(L) /\ (Has(n) => Absorbed(after[n], op))  BY <1>0, <1>3, <2>1
  <2>4. after[n + 1] = ApplyOp(after[n], ops[n + 1]) /\ ops[n + 1] \in Ops(L)  BY <1>0, <1>1, <2>2
  <2>5. PICK r, o : r = after[n] /\ o = ops[n + 1]  OBVIOUS
  <2>6. r \in Rows(L) /\ o \in Ops(L) /\ after[n + 1] = ApplyOp(r, o)  BY <2>3, <2>4, <2>5
  <2>7. ApplyOp(r, o) \in Rows(L)  BY <2>6, ApplyMakesARow
  <2>8. Absorbed(r, op) => Absorbed(ApplyOp(r, o), op)
    <3>1. Shaped(r) /\ o \in Op /\ op \in Op  BY <2>6, RowParts, OpParts
    <3> QED  BY <3>1, AbsorbedIsFinal
  <2>9. Covers(o, op) => Absorbed(ApplyOp(r, o), op)  BY <2>6, CoveredIsAbsorbed
  <2>10. Has(n + 1) => Has(n) \/ Covers(o, op)
    <3>1. \A k \in 1 .. n + 1 : k \in 1 .. n \/ k = n + 1  OBVIOUS
    <3> QED  BY <2>5, <3>1
  <2> HIDE DEF Has
  <2> QED  BY <2>3, <2>5, <2>6, <2>7, <2>8, <2>9, <2>10
<1>4. Len(ops) \in S
  <2>1. \A n \in Nat : n \in S => n + 1 \in S  BY <1>3
  <2> HIDE DEF S
  <2> QED  BY <1>0, <1>2, <2>1, InductionOnNat
<1>5. Has(Len(ops))  BY <1>0
<1> HIDE DEF Has
<1> QED  BY <1>0, <1>1, <1>4, <1>5

\* A tombstone is the row's, or a delete's.
LEMMA TombstoneComesFrom ==
  ASSUME NEW L, NEW row \in Rows(L), NEW ops \in Seq(Ops(L))
  PROVE  \/ ApplyOps(row, ops).del = row.del
         \/ \E p \in ToSet(ops) : p.op = "delete" /\ p.hlc = ApplyOps(row, ops).del
<1>0. Len(ops) \in Nat /\ (\A n \in 1 .. Len(ops) : ops[n] \in Ops(L))
      /\ ToSet(ops) = {ops[n] : n \in 1 .. Len(ops)}
  BY ToSetOfSeq
<1>1. PICK after : /\ after[0] = row
                   /\ \A n \in 1 .. Len(ops) : after[n] = ApplyOp(after[n - 1], ops[n])
                   /\ ApplyOps(row, ops) = after[Len(ops)]
  BY <1>0, ApplyOpsRun
<1> DEFINE From(x) == x = row.del \/ \E p \in ToSet(ops) : p.op = "delete" /\ p.hlc = x
           S == {n \in Nat : n <= Len(ops) => after[n] \in Rows(L) /\ From(after[n].del)}
<1>2. 0 \in S  BY <1>1
<1>3. ASSUME NEW n \in Nat, n \in S PROVE n + 1 \in S
  <2>1. SUFFICES ASSUME n + 1 <= Len(ops)
                 PROVE  after[n + 1] \in Rows(L) /\ From(after[n + 1].del)
    OBVIOUS
  <2>2. n + 1 \in 1 .. Len(ops) /\ n + 1 - 1 = n  BY <1>0, <2>1
  <2>3. after[n] \in Rows(L) /\ From(after[n].del)  BY <1>0, <1>3, <2>1
  <2>4. after[n + 1] = ApplyOp(after[n], ops[n + 1]) /\ ops[n + 1] \in Ops(L)  BY <1>0, <1>1, <2>2
  <2>5. PICK r, o : r = after[n] /\ o = ops[n + 1]  OBVIOUS
  <2>6. r \in Rows(L) /\ o \in Ops(L) /\ o \in ToSet(ops) /\ after[n + 1] = ApplyOp(r, o) /\ From(r.del)
    BY <1>0, <2>2, <2>3, <2>4, <2>5
  <2>7. ApplyOp(r, o) \in Rows(L)  BY <2>6, ApplyMakesARow
  <2>8. Shaped(r) /\ o \in Op  BY <2>6, RowParts, OpParts
  <2>9. ApplyOp(r, o).del = r.del \/ (o.op = "delete" /\ o.hlc = ApplyOp(r, o).del)
    <3>1. CASE ~ Changes(r, o)  BY <3>1 DEF ApplyOp
    <3>2. CASE Changes(r, o) /\ o.op = "delete"  BY <2>8, <3>2, AfterDelete
    <3>3. CASE Changes(r, o) /\ o.op # "delete"  BY <2>8, <3>3, AfterFields
    <3> QED  BY <3>1, <3>2, <3>3
  <2>10. From(ApplyOp(r, o).del)  BY <2>6, <2>9
  <2> QED  BY <2>6, <2>7, <2>10
<1> HIDE DEF S
<1>4. \A n \in Nat : n \in S  BY <1>2, <1>3, InductionOnNat
<1>5. Len(ops) \in S  BY <1>0, <1>4
<1> QED  BY <1>0, <1>1, <1>5 DEF S

\* What a row has taken in, the operation that re-seeds the row carries - unless it is a
\* tombstone that took it in.
LEMMA SeedCovers ==
  ASSUME NEW L, L \subseteq Pairs, NoClears(L), NEW row \in Rows(L), NEW op \in Ops(L), Plain(op),
         Absorbed(row, op)
  PROVE  Covers(SeedOp(op.id, row), op) \/ (op.op = "upsert" /\ op.hlc <= row.del)
<1>0. /\ row.state \in {"missing", "live", "deleted"} /\ row.state # "missing" /\ row.del \in Nat
      /\ (\A f \in Fields : row.clock[f] \in Nat /\ row.value[f] \in Nat)
      /\ op.hlc \in Nat /\ op.op \in {"upsert", "delete"}
      /\ \A f \in DOMAIN op.set : f \in Fields /\ op.set[f].clock = op.hlc /\ op.set[f].clock # 0
  BY RowParts, OpParts DEF Absorbed, Plain
<1>1. PICK s : s = SeedOp(op.id, row)  OBVIOUS
<1>2. op.op = "upsert" => DOMAIN op.set # {}  BY OpParts
<1>3. ASSUME NEW f \in Fields, row.clock[f] # 0 PROVE row.value[f] # 0
  <2>1. <<row.clock[f], row.value[f]>> \in L  BY <1>3, RowParts
  <2> QED  BY <2>1 DEF NoClears
<1>4. CASE row.state = "deleted"
  <2>1. s.id = op.id /\ s.op = "delete" /\ s.hlc = row.del  BY <1>1, <1>4 DEF SeedOp
  <2>2. \A f \in Fields : row.clock[f] = 0  BY <1>4, RowParts DEF Unset
  <2>3. CASE op.op = "delete"
    <3>1. ~ NewerThanRow(op.hlc, row)  BY <2>3 DEF Absorbed
    <3>2. op.hlc <= row.del  BY <1>0, <2>2, <3>1 DEF NewerThanRow
    <3> QED  BY <1>0, <1>1, <2>1, <2>3, <3>2 DEF Covers
  <2>4. CASE op.op = "upsert"
    <3>1. PICK f \in DOMAIN op.set : TRUE  BY <1>2, <2>4
    <3>2. Holds(row, f, op.set[f])  BY <2>4 DEF Absorbed
    <3>3. op.hlc <= row.del  BY <1>0, <2>2, <3>2 DEF Holds
    <3> QED  BY <2>4, <3>3
  <2> QED  BY <1>0, <2>3, <2>4
<1>5. CASE row.state = "live"
  <2>1. /\ s.id = op.id /\ s.op = "upsert"
        /\ s.set = [f \in {g \in Fields : row.value[g] # 0} |->
                      [clock |-> row.clock[f], value |-> row.value[f]]]
    BY <1>1, <1>5 DEF SeedOp
  <2>2. \A f \in Fields : row.clock[f] # 0 => /\ f \in DOMAIN s.set
                                              /\ s.set[f].clock = row.clock[f]
                                              /\ s.set[f].value = row.value[f]
    BY <1>3, <2>1
  <2>3. CASE op.op = "delete"
    <3>1. PICK f \in Fields : row.clock[f] > row.del  BY <1>5, RowParts
    <3>2. ~ NewerThanRow(op.hlc, row)  BY <2>3 DEF Absorbed
    <3>3. PICK g \in Fields : op.hlc <= row.clock[g] /\ row.clock[g] # 0
      <4>1. CASE op.hlc <= row.del  BY <1>0, <3>1, <4>1
      <4>2. CASE ~ (op.hlc <= row.del)
        <5>1. PICK g \in Fields : ~ (op.hlc > row.clock[g])  BY <1>0, <3>2, <4>2 DEF NewerThanRow
        <5> QED  BY <1>0, <4>2, <5>1
      <4> QED  BY <4>1, <4>2
    <3>4. g \in DOMAIN s.set /\ s.set[g].clock >= op.hlc  BY <1>0, <2>2, <3>3
    <3> QED  BY <1>1, <2>1, <2>3, <3>4 DEF Covers
  <2>4. CASE op.op = "upsert" /\ ~ (op.hlc <= row.del)
    <3>1. ASSUME NEW f \in DOMAIN op.set
          PROVE  /\ f \in DOMAIN s.set
                 /\ s.set[f].clock > op.set[f].clock
                    \/ (s.set[f].clock = op.set[f].clock /\ s.set[f].value = op.set[f].value)
      <4>1. Holds(row, f, op.set[f])  BY <2>4 DEF Absorbed
      <4>2. f \in Fields /\ op.set[f].clock = op.hlc /\ op.hlc # 0 /\ row.clock[f] \in Nat  BY <1>0
      <4>3. op.hlc < row.clock[f] \/ (op.hlc = row.clock[f] /\ op.set[f].value = row.value[f])
        BY <2>4, <4>1, <4>2 DEF Holds
      <4>4. row.clock[f] # 0  BY <1>0, <4>2, <4>3
      <4> QED  BY <1>0, <2>2, <4>2, <4>3, <4>4
    <3> QED  BY <1>1, <2>1, <2>4, <3>1 DEF Covers
  <2> QED  BY <1>0, <2>3, <2>4
<1> QED  BY <1>0, <1>4, <1>5

-----------------------------------------------------------------------------
(* The deliveries of a device.  R: the rows of the table, A: the batches     *)
(* whose acknowledgement is on its way.                                      *)

\* A write the replica remembers is overruled, taken in, or carried by a batch that no
\* acknowledgement is about to remove.
Safe(R, dc, A, op) ==
  \/ Overruled(dc, op)
  \/ Absorbed(R[op.id], op)
  \/ \E n \in DOMAIN dc.pending :
       dc.pending[n].batch \notin A /\ \E p \in ToSet(dc.pending[n].ops) : Covers(p, op)

\* A queued delete is one the replica issued, or repeats one the table has.
Deletion(R, dc, x) ==
  \/ x.hlc <= R[x.id].del
  \/ \E y \in dc.written : y.op = "delete" /\ y.id = x.id /\ y.hlc >= x.hlc

WritesSafe(R, dc, A) ==
  /\ \A x \in OpsOf(dc.pending) : x.op = "delete" => Deletion(R, dc, x)
  /\ \A op \in dc.written : Plain(op) /\ Safe(R, dc, A, op)

\* The batches that are merged and whose sender will hear of it; the batches sent.
Acked(d) ==
  {f.batch : f \in {g \in ToSet(sock[d].down) : g.t = "ack"}}
  \cup {p.batch : p \in {q \in publishing : q.to = d}}

Ups(d) == {f \in ToSet(sock[d].up) : f.t = "push"}

NamesOf(d) ==
  /\ \A b \in Acked(d) : b <= Now(d, doc[d])
  /\ \A f \in Ups(d) :
       /\ f.batch <= Now(d, doc[d])
       /\ \A n \in DOMAIN doc[d].pending :
            doc[d].pending[n].batch = f.batch => doc[d].pending[n].ops = f.ops

Delivery(d) ==
  /\ NamesOf(d)
  /\ WritesSafe(server.rows, doc[d], Acked(d))
  /\ WritesSafe(server.rows, saved[d].doc, {})

\* What a step does to the rows: nothing is taken back.
Forward(L, R, S) ==
  \A i \in Ids : /\ S[i].del >= R[i].del
                 /\ \A op \in Ops(L) : Absorbed(R[i], op) => Absorbed(S[i], op)

Taken(L, ops, S) ==
  \A op \in Ops(L) : (\E p \in ToSet(ops) : Covers(p, op)) => Absorbed(S[op.id], op)

\* What a step does to a device that writes nothing: see Delivery.
KeepsBatch(dc, e, n, k) ==
  k \in DOMAIN e.pending /\ e.pending[k].batch = dc.pending[n].batch /\ e.pending[k].ops = dc.pending[n].ops

Goes(L, d) ==
  /\ Now(d, doc'[d]) >= Now(d, doc[d]) /\ doc'[d].written = doc[d].written
  /\ saved'[d].doc = saved[d].doc
  /\ \A b \in Acked(d)' : b \in Acked(d) \/ \E f \in Ups(d) : f.batch = b /\ Taken(L, f.ops, server'.rows)
  /\ \A f \in Ups(d)' : f \in Ups(d) \/ \E k \in DOMAIN doc'[d].pending : f = Push(doc'[d].pending[k])
  /\ \A k \in DOMAIN doc'[d].pending :
       \/ \E n \in DOMAIN doc[d].pending : KeepsBatch(doc[d], doc'[d], n, k)
       \/ /\ doc'[d].pending[k].batch > Now(d, doc[d])
          /\ \A x \in ToSet(doc'[d].pending[k].ops) : x.op = "delete" => x.hlc <= server'.rows[x.id].del
  /\ \A n \in DOMAIN doc[d].pending :
       doc[d].pending[n].batch \notin Acked(d) => \E k : KeepsBatch(doc[d], doc'[d], n, k)

\* The fields of a push.
LEMMA PushParts ==
  ASSUME NEW b
  PROVE  Push(b).t = "push" /\ Push(b).batch = b.batch /\ Push(b).ops = b.ops
BY DEF Push

\* Names and queues in their types.
LEMMA QueueParts ==
  ASSUME NEW L, NEW d \in Devices, NEW dc \in Docs(d, L)
  PROVE  /\ Now(d, dc) \in Nat /\ Named(d, dc) /\ dc.written \subseteq Ops(L)
         /\ DOMAIN dc.pending = 1 .. Len(dc.pending) /\ Len(dc.pending) \in Nat
         /\ \A n \in DOMAIN dc.pending : /\ dc.pending[n].batch \in Nat
                                         /\ dc.pending[n].batch <= Now(d, dc)
                                         /\ ToSet(dc.pending[n].ops) \subseteq Ops(L)
                                         /\ dc.pending[n].ops \in Seq(Ops(L))
         /\ OpsOf(dc.pending) \subseteq Ops(L)
<1>1. Now(d, dc) \in Nat
  <2>1. 0 \in Nat  OBVIOUS
  <2> QED  BY <2>1, TickFacts
<1>2. /\ Named(d, dc) /\ dc.written \subseteq Ops(L)
      /\ DOMAIN dc.pending = 1 .. Len(dc.pending) /\ Len(dc.pending) \in Nat
      /\ \A n \in DOMAIN dc.pending : dc.pending[n].batch \in Nat /\ dc.pending[n].ops \in Seq(Ops(L))
  BY DocParts
<1>3. \A n \in DOMAIN dc.pending : ToSet(dc.pending[n].ops) \subseteq Ops(L)  BY <1>2, ToSetOfSeq
<1>4. \A n \in DOMAIN dc.pending : dc.pending[n].batch <= Now(d, dc)  BY <1>2 DEF Named
<1>5. OpsOf(dc.pending) \subseteq Ops(L)  BY <1>3 DEF OpsOf
<1> QED  BY <1>1, <1>2, <1>3, <1>4, <1>5

\* What the batches under way are named after, and what is in a push.
LEMMA NamesAreNumbers ==
  ASSUME NEW L, RoomShapes(L), NEW d \in Devices
  PROVE  /\ Acked(d) \subseteq Nat
         /\ Ups(d) \subseteq Pushes(L)
         /\ \A f \in Ups(d) : f.batch \in Nat /\ f.ops \in Seq(Ops(L)) /\ ToSet(f.ops) \subseteq Ops(L)
<1>1. sock[d].down \in Seq(DownFrames(L)) /\ sock[d].up \in Seq(UpFrames(L))
      /\ publishing \subseteq InHand(L)
  BY SocketParts DEF RoomShapes
<1>2. ToSet(sock[d].down) \subseteq DownFrames(L) /\ ToSet(sock[d].up) \subseteq UpFrames(L)
  BY <1>1, ToSetOfSeq
<1>3. \A g \in DownFrames(L) : g.t = "ack" => g.batch \in Nat  BY FrameKinds DEF Acks
<1>4. \A q \in InHand(L) : q.batch \in Nat  BY DEF InHand
<1>5. Acked(d) \subseteq Nat  BY <1>1, <1>2, <1>3, <1>4 DEF Acked
<1>6. Ups(d) \subseteq Pushes(L)
  <2>1. \A h \in Hellos : h.t = "hello"  BY DEF Hellos
  <2> QED  BY <1>2, <2>1 DEF Ups, UpFrames
<1>7. \A f \in Pushes(L) : f.batch \in Nat /\ f.ops \in Seq(Ops(L))  BY DEF Pushes
<1>8. \A f \in Ups(d) : ToSet(f.ops) \subseteq Ops(L)  BY <1>6, <1>7, ToSetOfSeq
<1> QED  BY <1>5, <1>6, <1>7, <1>8

\* A table left alone takes nothing back.
LEMMA ForwardIsReflexive ==
  ASSUME NEW L, server \in Tables(L)
  PROVE  Forward(L, server.rows, server.rows)
<1>1. \A i \in Ids : server.rows[i] \in Rows(L)  BY DEF Tables
<1>2. \A i \in Ids : server.rows[i].del \in Nat  BY <1>1, RowParts
<1> QED  BY <1>2 DEF Forward

\* A batch that is merged takes nothing back, and takes in all that it carries.
LEMMA MergeTakesIn ==
  ASSUME NEW L, OneValue(L), server \in Tables(L), NEW ops \in Seq(Ops(L)),
         \/ Merged(L, ops)
         \/ DOMAIN Touched(ops) = {} /\ server' = server
  PROVE  Forward(L, server.rows, server'.rows) /\ Taken(L, ops, server'.rows)
<1>1. ASSUME NEW i \in Ids
      PROVE  /\ After(ops, i) \in Rows(L) /\ server.rows[i] \in Rows(L)
             /\ server'.rows[i].del = After(ops, i).del
             /\ server'.rows[i].state = After(ops, i).state
             /\ server'.rows[i].clock = After(ops, i).clock
             /\ server'.rows[i].value = After(ops, i).value
  <2>1. After(ops, i) \in Rows(L) /\ DOMAIN Touched(ops) = {j \in Ids : After(ops, j) # server.rows[j]}
    BY TouchedFacts
  <2>2. server.rows[i] \in Rows(L)  BY DEF Tables
  <2>3. CASE i \in DOMAIN Touched(ops)
    <3>1. server'.rows[i] = Touched(ops)[i]  BY <2>3 DEF Merged
    <3>2. /\ Touched(ops)[i].state = After(ops, i).state /\ Touched(ops)[i].del = After(ops, i).del
          /\ Touched(ops)[i].clock = After(ops, i).clock /\ Touched(ops)[i].value = After(ops, i).value
      BY <2>3, TouchedFacts
    <3> QED  BY <2>1, <2>2, <3>1, <3>2
  <2>4. CASE i \notin DOMAIN Touched(ops)
    <3>1. server'.rows[i] = server.rows[i]  BY <2>4 DEF Merged
    <3>2. After(ops, i) = server.rows[i]  BY <2>1, <2>4
    <3> QED  BY <2>1, <2>2, <3>1, <3>2
  <2> QED  BY <2>3, <2>4
<1>2. ASSUME NEW i \in Ids, NEW op \in Ops(L), Absorbed(After(ops, i), op)
      PROVE  Absorbed(server'.rows[i], op)
  BY <1>1, <1>2 DEF Absorbed, NewerThanRow, Holds
<1>3. \A i \in Ids : OpsOn(ops, i) \in Seq(Ops(L))
                     /\ ToSet(OpsOn(ops, i)) = {o \in ToSet(ops) : o.id = i}
  BY OpsOnFacts
<1>4. ASSUME NEW i \in Ids, NEW op \in Ops(L),
             Absorbed(server.rows[i], op) \/ \E p \in ToSet(OpsOn(ops, i)) : Covers(p, op)
      PROVE  Absorbed(After(ops, i), op)
  <2>1. PICK row \in Rows(L), own \in Seq(Ops(L)) : row = server.rows[i] /\ own = OpsOn(ops, i)
    BY <1>1, <1>3
  <2>2. Absorbed(ApplyOps(row, own), op)  BY <1>4, <2>1, AppliedTakesIn
  <2> QED  BY <2>1, <2>2 DEF After
<1>5. ASSUME NEW i \in Ids PROVE server'.rows[i].del >= server.rows[i].del
  <2>1. PICK row \in Rows(L), own \in Seq(Ops(L)) : row = server.rows[i] /\ own = OpsOn(ops, i)
    BY <1>1, <1>3
  <2>2. ApplyOps(row, own).del >= row.del  BY DeletionsStay
  <2> QED  BY <1>1, <2>1, <2>2 DEF After
<1>6. ASSUME NEW op \in Ops(L), NEW p \in ToSet(ops), Covers(p, op)
      PROVE  Absorbed(server'.rows[op.id], op)
  <2>1. op.id \in Ids /\ p.id = op.id  BY <1>6, OpParts DEF Covers
  <2>2. p \in ToSet(OpsOn(ops, op.id))  BY <1>3, <2>1
  <2> QED  BY <1>2, <1>4, <1>6, <2>1, <2>2
<1>7. Forward(L, server.rows, server'.rows)  BY <1>2, <1>4, <1>5 DEF Forward
<1> QED  BY <1>6, <1>7 DEF Taken

\* What was safe with one table is safe with a later one.
LEMMA SafeStays ==
  ASSUME NEW L, NEW d \in Devices, NEW dc \in Docs(d, L), NEW R, NEW S, Forward(L, R, S),
         \A i \in Ids : R[i].del \in Nat /\ S[i].del \in Nat, NEW A, WritesSafe(R, dc, A)
  PROVE  WritesSafe(S, dc, A)
<1>1. /\ dc.written \subseteq Ops(L) /\ OpsOf(dc.pending) \subseteq Ops(L)  BY QueueParts
<1>2. \A o \in Ops(L) : o.id \in Ids /\ o.hlc \in Nat  BY OpParts
<1>3. ASSUME NEW x \in OpsOf(dc.pending), x.op = "delete" PROVE Deletion(S, dc, x)
  <2>1. Deletion(R, dc, x)  BY <1>3 DEF WritesSafe
  <2>2. x.id \in Ids /\ x.hlc \in Nat  BY <1>1, <1>2
  <2>3. S[x.id].del >= R[x.id].del /\ S[x.id].del \in Nat /\ R[x.id].del \in Nat  BY <2>2 DEF Forward
  <2> QED  BY <2>1, <2>2, <2>3 DEF Deletion
<1>4. ASSUME NEW op \in dc.written PROVE Plain(op) /\ Safe(S, dc, A, op)
  <2>1. Plain(op) /\ Safe(R, dc, A, op)  BY DEF WritesSafe
  <2>2. op \in Ops(L) /\ op.id \in Ids  BY <1>1, <1>2
  <2>3. Absorbed(R[op.id], op) => Absorbed(S[op.id], op)  BY <2>2 DEF Forward
  <2> QED  BY <2>1, <2>3 DEF Safe
<1> QED  BY <1>3, <1>4 DEF WritesSafe

\* A step that only goes on with the queue keeps the deliveries of the device.
LEMMA DeliveryGoes ==
  ASSUME NEW L, Shapes(L), Shapes(L)', NEW d \in Devices, Delivery(d),
         Forward(L, server.rows, server'.rows), Goes(L, d)
  PROVE  Delivery(d)'
<1> DEFINE dc == doc[d]
           e == doc'[d]
<1>0. /\ RoomShapes(L) /\ RoomShapes(L)' /\ dc \in Docs(d, L) /\ e \in Docs(d, L)
      /\ server \in Tables(L) /\ server' \in Tables(L) /\ saved[d].doc \in Docs(d, L)
  BY DEF Shapes, RoomShapes, DocShapes, SavedDocs
<1>1. /\ Now(d, dc) \in Nat /\ Now(d, e) \in Nat /\ Now(d, e) >= Now(d, dc) /\ e.written = dc.written
      /\ dc.written \subseteq Ops(L) /\ Named(d, e)
      /\ \A n \in DOMAIN dc.pending : dc.pending[n].batch \in Nat
      /\ \A k \in DOMAIN e.pending : /\ e.pending[k].batch \in Nat /\ e.pending[k].batch <= Now(d, e)
                                     /\ ToSet(e.pending[k].ops) \subseteq Ops(L)
      /\ OpsOf(e.pending) \subseteq Ops(L)
  BY <1>0, QueueParts DEF Goes
<1>2. /\ Acked(d) \subseteq Nat /\ \A f \in Ups(d) : f.batch \in Nat /\ f.ops \in Seq(Ops(L))
  BY <1>0, NamesAreNumbers
<1>3. \A i \in Ids : server.rows[i].del \in Nat /\ server'.rows[i].del \in Nat
  <2>1. \A i \in Ids : server.rows[i] \in Rows(L) /\ server'.rows[i] \in Rows(L)  BY <1>0 DEF Tables
  <2> QED  BY <2>1, RowParts
<1>4. NamesOf(d) /\ WritesSafe(server.rows, dc, Acked(d)) /\ WritesSafe(server.rows, saved[d].doc, {})
  BY DEF Delivery
<1>5. NamesOf(d)'
  <2>1. ASSUME NEW b \in Acked(d)' PROVE b <= Now(d, e)
    <3>1. b \in Nat /\ b <= Now(d, dc)
      <4>1. CASE b \in Acked(d)  BY <1>2, <1>4, <4>1 DEF NamesOf
      <4>2. CASE \E f \in Ups(d) : f.batch = b  BY <1>2, <1>4, <4>2 DEF NamesOf
      <4> QED  BY <2>1, <4>1, <4>2 DEF Goes
    <3> QED  BY <1>1, <3>1
  <2>2. ASSUME NEW f \in Ups(d)'
        PROVE  /\ f.batch <= Now(d, e)
               /\ \A k \in DOMAIN e.pending : e.pending[k].batch = f.batch => e.pending[k].ops = f.ops
    <3>1. CASE f \in Ups(d)
      <4>1. /\ f.batch \in Nat /\ f.batch <= Now(d, dc)
            /\ \A n \in DOMAIN dc.pending : dc.pending[n].batch = f.batch => dc.pending[n].ops = f.ops
        BY <1>2, <1>4, <3>1 DEF NamesOf
      <4>2. ASSUME NEW k \in DOMAIN e.pending, e.pending[k].batch = f.batch
            PROVE  e.pending[k].ops = f.ops
        <5>1. ~ (e.pending[k].batch > Now(d, dc))  BY <1>1, <4>1, <4>2
        <5>2. PICK n \in DOMAIN dc.pending : KeepsBatch(dc, e, n, k)  BY <5>1 DEF Goes
        <5> QED  BY <4>1, <4>2, <5>2 DEF KeepsBatch
      <4> QED  BY <1>1, <4>1, <4>2
    <3>2. CASE \E k \in DOMAIN e.pending : f = Push(e.pending[k])
      <4>1. PICK k \in DOMAIN e.pending : f = Push(e.pending[k])  BY <3>2
      <4>2. f.batch = e.pending[k].batch /\ f.ops = e.pending[k].ops  BY <4>1, PushParts
      <4>3. \A m \in DOMAIN e.pending : e.pending[m].batch = f.batch => m = k
        BY <1>1, <4>2 DEF Named
      <4> QED  BY <1>1, <4>2, <4>3
    <3> QED  BY <2>2, <3>1, <3>2 DEF Goes
  <2> QED  BY <2>1, <2>2 DEF NamesOf
<1>6. ASSUME NEW x \in OpsOf(e.pending), x.op = "delete" PROVE Deletion(server'.rows, e, x)
  <2>1. PICK k \in DOMAIN e.pending : x \in ToSet(e.pending[k].ops)  BY DEF OpsOf
  <2>2. x.id \in Ids /\ x.hlc \in Nat
    <3>1. x \in Ops(L)  BY <1>1
    <3> QED  BY <3>1, OpParts
  <2>3. CASE \E n \in DOMAIN dc.pending : KeepsBatch(dc, e, n, k)
    <3>1. PICK n \in DOMAIN dc.pending : x \in ToSet(dc.pending[n].ops)  BY <2>1, <2>3 DEF KeepsBatch
    <3>2. Deletion(server.rows, dc, x)  BY <1>4, <1>6, <3>1 DEF WritesSafe, OpsOf
    <3>3. server'.rows[x.id].del >= server.rows[x.id].del  BY <2>2 DEF Forward
    <3> QED  BY <1>1, <1>3, <2>2, <3>2, <3>3 DEF Deletion
  <2>4. CASE \A y \in ToSet(e.pending[k].ops) : y.op = "delete" => y.hlc <= server'.rows[y.id].del
    BY <1>6, <2>1, <2>4 DEF Deletion
  <2> QED  BY <2>3, <2>4 DEF Goes
<1>7. ASSUME NEW op \in e.written PROVE Plain(op) /\ Safe(server'.rows, e, Acked(d)', op)
  <2>1. Plain(op) /\ Safe(server.rows, dc, Acked(d), op)  BY <1>1, <1>4, <1>7 DEF WritesSafe
  <2>2. op \in Ops(L) /\ op.id \in Ids
    <3>1. op \in Ops(L)  BY <1>1
    <3> QED  BY <3>1, OpParts
  <2>3. CASE Overruled(dc, op)  BY <1>1, <2>1, <2>3 DEF Overruled, Safe
  <2>4. CASE Absorbed(server.rows[op.id], op)  BY <2>1, <2>2, <2>4 DEF Forward, Safe
  <2>5. ASSUME NEW n \in DOMAIN dc.pending, dc.pending[n].batch \notin Acked(d),
               NEW p \in ToSet(dc.pending[n].ops), Covers(p, op)
        PROVE  Safe(server'.rows, e, Acked(d)', op)
    <3>1. PICK k : KeepsBatch(dc, e, n, k)  BY <2>5 DEF Goes
    <3>2. /\ k \in DOMAIN e.pending /\ e.pending[k].batch = dc.pending[n].batch
          /\ p \in ToSet(e.pending[k].ops)
      BY <2>5, <3>1 DEF KeepsBatch
    <3>3. CASE e.pending[k].batch \notin Acked(d)'  BY <2>5, <3>2, <3>3 DEF Safe
    <3>4. CASE e.pending[k].batch \in Acked(d)'
      <4>1. PICK f \in Ups(d) : f.batch = dc.pending[n].batch /\ Taken(L, f.ops, server'.rows)
        BY <2>5, <3>2, <3>4 DEF Goes
      <4>2. dc.pending[n].ops = f.ops  BY <1>4, <4>1 DEF NamesOf
      <4>3. Absorbed(server'.rows[op.id], op)  BY <2>2, <2>5, <4>1, <4>2 DEF Taken
      <4> QED  BY <4>3 DEF Safe
    <3> QED  BY <3>3, <3>4
  <2> QED  BY <2>1, <2>3, <2>4, <2>5 DEF Safe
<1>8. WritesSafe(server'.rows, saved[d].doc, {})
  <2>1. PICK R, S, s : R = server.rows /\ S = server'.rows /\ s = saved[d].doc  OBVIOUS
  <2>2. WritesSafe(S, s, {})  BY <1>0, <1>3, <1>4, <2>1, SafeStays
  <2> QED  BY <2>1, <2>2
<1>9. saved'[d].doc = saved[d].doc  BY DEF Goes
<1>10. WritesSafe(server'.rows, e, Acked(d)')  BY <1>6, <1>7 DEF WritesSafe
<1> QED  BY <1>5, <1>8, <1>9, <1>10 DEF Delivery

\* The table goes forward, and every replica that writes nothing keeps what it queued.
Steady(L) == Forward(L, server.rows, server'.rows) /\ \A d \in Devices : Goes(L, d)

\* A batch whose acknowledgement a step may put on its way.
MayAck(L, d, b) == b \in Acked(d) \/ \E f \in Ups(d) : f.batch = b /\ Taken(L, f.ops, server'.rows)

\* A device left alone.
LEMMA StillGoes ==
  ASSUME NEW L, Shapes(L), NEW d \in Devices, doc'[d] = doc[d], saved'[d].doc = saved[d].doc,
         \A g \in ToSet(sock'[d].down) : g.t = "ack" => MayAck(L, d, g.batch),
         \A q \in publishing' : q.to = d => MayAck(L, d, q.batch),
         \A f \in ToSet(sock'[d].up) : f.t = "push" => f \in ToSet(sock[d].up)
  PROVE  Goes(L, d)
<1>0. doc[d] \in Docs(d, L)  BY DEF Shapes, DocShapes
<1>1. Now(d, doc[d]) \in Nat  BY <1>0, QueueParts
<1>2. Now(d, doc'[d]) = Now(d, doc[d])  OBVIOUS
<1>3. \A b \in Acked(d)' : b \in Acked(d) \/ \E f \in Ups(d) : f.batch = b /\ Taken(L, f.ops, server'.rows)
  <2>1. ASSUME NEW b \in Acked(d)' PROVE MayAck(L, d, b)
    <3>1. \/ \E g \in ToSet(sock'[d].down) : g.t = "ack" /\ g.batch = b
          \/ \E q \in publishing' : q.to = d /\ q.batch = b
      BY DEF Acked
    <3> QED  BY <3>1
  <2> QED  BY <2>1 DEF MayAck
<1>4. Ups(d)' \subseteq Ups(d)  BY DEF Ups
<1>5. \A n \in DOMAIN doc[d].pending : KeepsBatch(doc[d], doc'[d], n, n)  BY DEF KeepsBatch
<1> QED  BY <1>1, <1>2, <1>3, <1>4, <1>5 DEF Goes

\* What is acknowledged already may be.
LEMMA AckedMay ==
  ASSUME NEW L, NEW d
  PROVE  /\ \A g \in ToSet(sock[d].down) : g.t = "ack" => MayAck(L, d, g.batch)
         /\ \A q \in publishing : q.to = d => MayAck(L, d, q.batch)
BY DEF MayAck, Acked

\* The server takes the next frame of a socket.
LEMMA ServeGoes ==
  ASSUME NEW L, Shapes(L), OneValue(L), NEW d \in Devices, Serve(d)
  PROVE  Steady(L)
<1>0. /\ RoomShapes(L) /\ server \in Tables(L) /\ sock \in [Devices -> Sockets(L)]
      /\ sock[d].bcast \in Seq(RowsFrames(L)) /\ sock[d].up \in Seq(UpFrames(L))
      /\ sock[d].down \in Seq(DownFrames(L))
  BY SocketParts DEF Shapes, RoomShapes
<1>1. UNCHANGED docVars  BY DEF Serve
<1>2. \A e \in Devices : doc'[e] = doc[e] /\ saved'[e].doc = saved[e].doc  BY <1>1 DEF docVars
<1>3. \A e \in Devices : /\ \A g \in ToSet(sock[e].down) : g.t = "ack" => MayAck(L, e, g.batch)
                         /\ \A q \in publishing : q.to = e => MayAck(L, e, q.batch)
  BY AckedMay
<1>4. ASSUME NEW s, Resock(L, d, s), NEW frame \in DownFrames(L), frame.t # "ack",
             s.down = Append(sock[d].down, frame), ToSet(s.up) \subseteq ToSet(sock[d].up),
             UNCHANGED <<server, publishing>>
      PROVE  Steady(L)
  <2>1. sock'[d] = s /\ \A e \in Devices : e # d => sock'[e] = sock[e]  BY <1>0, <1>4, ResockFacts
  <2>2. ToSet(s.down) = ToSet(sock[d].down) \cup {frame}  BY <1>0, <1>4, ToSetOfAppend
  <2>3. Goes(L, d)
    <3>1. \A g \in ToSet(sock'[d].down) : g.t = "ack" => MayAck(L, d, g.batch)  BY <1>3, <1>4, <2>1, <2>2
    <3>2. \A q \in publishing' : q.to = d => MayAck(L, d, q.batch)  BY <1>3, <1>4
    <3>3. \A f \in ToSet(sock'[d].up) : f.t = "push" => f \in ToSet(sock[d].up)  BY <1>4, <2>1
    <3> QED  BY <1>2, <3>1, <3>2, <3>3, StillGoes
  <2>4. ASSUME NEW e \in Devices, e # d PROVE Goes(L, e)
    <3>1. sock'[e] = sock[e]  BY <2>1, <2>4
    <3> QED  BY <1>2, <1>3, <1>4, <3>1, StillGoes
  <2>5. Forward(L, server.rows, server'.rows)  BY <1>0, <1>4, ForwardIsReflexive
  <2> QED  BY <2>3, <2>4, <2>5 DEF Steady
<1>5. \A g \in RowsFrames(L) \cup StateFrames(L) : g \in DownFrames(L) /\ g.t # "ack"
  BY DEF DownFrames, RowsFrames, StateFrames
<1>6. CASE SendBroadcast(d)
  <2>1. PICK s : /\ Resock(L, d, s) /\ s.up = sock[d].up
                 /\ s.down = Append(sock[d].down, Head(sock[d].bcast))
    BY <1>0, <1>6, SendBroadcastEffect
  <2>2. sock[d].bcast # <<>> /\ UNCHANGED <<server, publishing>>  BY <1>6 DEF SendBroadcast
  <2>3. Head(sock[d].bcast) \in RowsFrames(L)  BY <1>0, <2>2, ToSetOfTail
  <2> QED  BY <1>4, <1>5, <2>1, <2>2, <2>3
<1>7. CASE SendLaggedState(d)
  <2>1. PICK s : Resock(L, d, s) /\ s.up = sock[d].up /\ s.down = Append(sock[d].down, StateFrame(TRUE, 0))
    BY <1>0, <1>7, SendLaggedStateEffect
  <2>2. UNCHANGED <<server, publishing>>  BY <1>7 DEF SendLaggedState
  <2>3. StateFrame(TRUE, 0) \in StateFrames(L)
    <3>1. TRUE \in BOOLEAN /\ 0 \in Nat  OBVIOUS
    <3> QED  BY <1>0, <3>1, StateFrameFacts
  <2> QED  BY <1>4, <1>5, <2>1, <2>2, <2>3
<1>8. CASE HandleHello(d)
  <2>1. PICK h \in Hellos : \E s :
                 /\ Resock(L, d, s) /\ s.up = Tail(sock[d].up)
                 /\ s.down = Append(sock[d].down, StateFrame(h.fresh, h.cursor))
    BY <1>0, <1>8, HandleHelloEffect
  <2>2. PICK s : /\ Resock(L, d, s) /\ s.up = Tail(sock[d].up)
                 /\ s.down = Append(sock[d].down, StateFrame(h.fresh, h.cursor))
    BY <2>1
  <2>3. UNCHANGED <<server, publishing>> /\ sock[d].up # <<>>  BY <1>8 DEF HandleHello, NextFrame
  <2>4. StateFrame(h.fresh, h.cursor) \in StateFrames(L)
    <3>1. h.fresh \in BOOLEAN /\ h.cursor \in Nat  BY DEF Hellos
    <3> QED  BY <1>0, <3>1, StateFrameFacts
  <2>5. ToSet(s.up) \subseteq ToSet(sock[d].up)  BY <1>0, <2>2, <2>3, ToSetOfTail
  <2> QED  BY <1>4, <1>5, <2>2, <2>3, <2>4, <2>5
<1>9. CASE LoseStale(d)
  <2>1. UNCHANGED <<server, sock, publishing>>  BY <1>9 DEF LoseStale
  <2>2. Forward(L, server.rows, server'.rows)  BY <1>0, <2>1, ForwardIsReflexive
  <2>3. \A e \in Devices : Goes(L, e)  BY <1>2, <1>3, <2>1, StillGoes
  <2> QED  BY <2>2, <2>3 DEF Steady
<1>10. ASSUME NEW stored \in BOOLEAN, HandlePush(d, stored) PROVE Steady(L)
  <2>1. PICK push \in Pushes(L) : \E s :
           /\ push \in ToSet(sock[d].up)
           /\ Resock(L, d, s) /\ s.up = Tail(sock[d].up)
           /\ \/ /\ DOMAIN Touched(push.ops) = {}
                 /\ server' = server /\ publishing' = publishing
                 /\ s.down = Append(sock[d].down, Ack(push.batch, server.seq))
              \/ /\ Merged(L, push.ops)
                 /\ s.down = sock[d].down
                 /\ publishing' = publishing \cup
                      {[to |-> d, batch |-> push.batch,
                        frame |-> RowsFrame(server.seq + 1, Touched(push.ops))]}
    BY <1>0, <1>10, HandlePushEffect
  <2>2. PICK s :
           /\ Resock(L, d, s) /\ s.up = Tail(sock[d].up)
           /\ \/ /\ DOMAIN Touched(push.ops) = {}
                 /\ server' = server /\ publishing' = publishing
                 /\ s.down = Append(sock[d].down, Ack(push.batch, server.seq))
              \/ /\ Merged(L, push.ops)
                 /\ s.down = sock[d].down
                 /\ publishing' = publishing \cup
                      {[to |-> d, batch |-> push.batch,
                        frame |-> RowsFrame(server.seq + 1, Touched(push.ops))]}
    BY <2>1
  <2>3. push.t = "push" /\ push.batch \in Nat /\ push.ops \in Seq(Ops(L))  BY DEF Pushes
  <2>4. Forward(L, server.rows, server'.rows) /\ Taken(L, push.ops, server'.rows)
    <3>1. Merged(L, push.ops) \/ (DOMAIN Touched(push.ops) = {} /\ server' = server)  BY <2>2
    <3> QED  BY <1>0, <2>3, <3>1, MergeTakesIn
  <2>5. MayAck(L, d, push.batch)  BY <2>1, <2>3, <2>4 DEF MayAck, Ups
  <2>6. sock'[d] = s /\ \A e \in Devices : e # d => sock'[e] = sock[e]  BY <1>0, <2>2, ResockFacts
  <2>7. sock[d].up # <<>>  BY <1>10 DEF HandlePush, NextFrame
  <2>8. ToSet(s.up) \subseteq ToSet(sock[d].up)  BY <1>0, <2>2, <2>7, ToSetOfTail
  <2>9. \A g \in ToSet(s.down) : g.t = "ack" => MayAck(L, d, g.batch)
    <3>1. CASE s.down = sock[d].down  BY <1>3, <3>1
    <3>2. CASE s.down = Append(sock[d].down, Ack(push.batch, server.seq))
      <4>1. PICK a : a = Ack(push.batch, server.seq)  OBVIOUS
      <4>2. a.batch = push.batch  BY <4>1 DEF Ack
      <4>3. a \in DownFrames(L)
        <5>1. server.seq \in Nat  BY <1>0 DEF Tables
        <5> QED  BY <2>3, <4>1, <5>1 DEF Ack, Acks, DownFrames
      <4>4. ToSet(s.down) = ToSet(sock[d].down) \cup {a}  BY <1>0, <3>2, <4>1, <4>3, ToSetOfAppend
      <4> QED  BY <1>3, <2>5, <4>2, <4>4
    <3> QED  BY <2>2, <3>1, <3>2
  <2>10. \A q \in publishing' : q \in publishing \/ (q.to = d /\ q.batch = push.batch)  BY <2>2
  <2>11. Goes(L, d)
    <3>1. \A q \in publishing' : q.to = d => MayAck(L, d, q.batch)  BY <1>3, <2>5, <2>10
    <3>2. \A f \in ToSet(sock'[d].up) : f.t = "push" => f \in ToSet(sock[d].up)  BY <2>6, <2>8
    <3>3. \A g \in ToSet(sock'[d].down) : g.t = "ack" => MayAck(L, d, g.batch)  BY <2>6, <2>9
    <3> QED  BY <1>2, <3>1, <3>2, <3>3, StillGoes
  <2>12. ASSUME NEW e \in Devices, e # d PROVE Goes(L, e)
    <3>1. sock'[e] = sock[e]  BY <2>6, <2>12
    <3>2. \A q \in publishing' : q.to = e => MayAck(L, e, q.batch)  BY <1>3, <2>10, <2>12
    <3> QED  BY <1>2, <1>3, <3>1, <3>2, StillGoes
  <2> QED  BY <2>4, <2>11, <2>12 DEF Steady
<1>11. ASSUME NEW stored \in BOOLEAN, HandleStalePush(d, stored) PROVE Steady(L)
  <2>1. sock' = sock  BY <1>0, <1>11, HandleStalePushEffect
  <2>2. PICK push \in Pushes(L) :
           \/ server' = server /\ publishing' = publishing
           \/ /\ Merged(L, push.ops)
              /\ publishing' = publishing \cup
                   {[to |-> NoDevice, batch |-> push.batch,
                     frame |-> RowsFrame(server.seq + 1, Touched(push.ops))]}
    BY <1>0, <1>11, HandleStalePushEffect
  <2>3. push.ops \in Seq(Ops(L))  BY DEF Pushes
  <2>4. Forward(L, server.rows, server'.rows)
    <3>1. CASE server' = server  BY <1>0, <3>1, ForwardIsReflexive
    <3>2. CASE Merged(L, push.ops)  BY <1>0, <2>3, <3>2, MergeTakesIn
    <3> QED  BY <2>2, <3>1, <3>2
  <2>5. \A q \in publishing' : q \in publishing \/ q.to = NoDevice  BY <2>2
  <2>6. NoDevice \notin Devices  BY RegistryRoomAssumption
  <2>7. ASSUME NEW e \in Devices PROVE Goes(L, e)
    <3>1. \A q \in publishing' : q.to = e => MayAck(L, e, q.batch)  BY <1>3, <2>5, <2>6
    <3> QED  BY <1>2, <1>3, <2>1, <3>1, StillGoes
  <2> QED  BY <2>4, <2>7 DEF Steady
<1> QED  BY <1>6, <1>7, <1>8, <1>9, <1>10, <1>11 DEF Serve

\* The server broadcasts a batch.
LEMMA PublishGoes ==
  ASSUME NEW L, Shapes(L), NEW p \in publishing, Publish(p)
  PROVE  Steady(L)
<1>0. RoomShapes(L) /\ FinishPush(p) /\ \A d \in Devices : Len(sock[d].bcast) <= BroadcastDepth
  BY DEF Shapes, Links, LinkOf, Publish
<1>1. /\ server' = server /\ publishing' = publishing \ {p}
      /\ \A e \in Devices : Broadcasted(L, p, e)
  BY <1>0, FinishPushEffect
<1>2. doc' = doc /\ saved' = saved  BY DEF Publish, docVars
<1>3. ASSUME NEW e \in Devices PROVE Goes(L, e)
  <2>1. /\ \A g \in ToSet(sock[e].down) : g.t = "ack" => MayAck(L, e, g.batch)
        /\ \A q \in publishing : q.to = e => MayAck(L, e, q.batch)
    BY AckedMay
  <2>2. /\ sock'[e].up = sock[e].up
        /\ sock'[e].down = IF e = p.to THEN Append(sock[e].down, Ack(p.batch, p.frame.seq))
                           ELSE sock[e].down
    BY <1>1 DEF Broadcasted, Queued
  <2>3. \A g \in ToSet(sock'[e].down) : g.t = "ack" => MayAck(L, e, g.batch)
    <3>1. CASE e # p.to  BY <2>1, <2>2, <3>1
    <3>2. CASE e = p.to
      <4>1. PICK a : a = Ack(p.batch, p.frame.seq)  OBVIOUS
      <4>2. a.batch = p.batch  BY <4>1 DEF Ack
      <4>3. a \in DownFrames(L)
        <5>1. p \in InHand(L)  BY <1>0 DEF RoomShapes
        <5>2. p.batch \in Nat /\ p.frame.seq \in Nat  BY <5>1 DEF InHand, RowsFrames
        <5> QED  BY <4>1, <5>2 DEF Ack, Acks, DownFrames
      <4>4. sock[e].down \in Seq(DownFrames(L))  BY <1>0, SocketParts DEF RoomShapes
      <4>5. ToSet(sock'[e].down) = ToSet(sock[e].down) \cup {a}
        BY <2>2, <3>2, <4>1, <4>3, <4>4, ToSetOfAppend
      <4> QED  BY <2>1, <3>2, <4>2, <4>5
    <3> QED  BY <3>1, <3>2
  <2>4. \A q \in publishing' : q.to = e => MayAck(L, e, q.batch)  BY <1>1, <2>1
  <2> QED  BY <1>2, <2>2, <2>3, <2>4, StillGoes
<1>4. Forward(L, server.rows, server'.rows)
  <2>1. server \in Tables(L)  BY <1>0 DEF RoomShapes
  <2> QED  BY <1>1, <2>1, ForwardIsReflexive
<1> QED  BY <1>3, <1>4 DEF Steady

\* A push says the number and the operations of its batch, whether or not it was marked.
LEMMA PushOfParts ==
  ASSUME NEW b, NEW c, b.batch = c.batch, b.ops = c.ops
  PROVE  Push(b) = Push(c)
BY DEF Push

\* A step of one device that acknowledges nothing.
LEMMA QueueGoes ==
  ASSUME NEW L, NEW d, Now(d, doc'[d]) >= Now(d, doc[d]), doc'[d].written = doc[d].written,
         saved'[d].doc = saved[d].doc,
         \A g \in ToSet(sock'[d].down) : g \in ToSet(sock[d].down),
         \A q \in publishing' : q.to = d => q \in publishing,
         \A f \in ToSet(sock'[d].up) : f.t = "push" =>
           f \in ToSet(sock[d].up) \/ \E k \in DOMAIN doc'[d].pending : f = Push(doc'[d].pending[k]),
         \A k \in DOMAIN doc'[d].pending :
           \/ \E n \in DOMAIN doc[d].pending : KeepsBatch(doc[d], doc'[d], n, k)
           \/ /\ doc'[d].pending[k].batch > Now(d, doc[d])
              /\ \A x \in ToSet(doc'[d].pending[k].ops) : x.op = "delete" => x.hlc <= server'.rows[x.id].del,
         \A n \in DOMAIN doc[d].pending :
           doc[d].pending[n].batch \notin Acked(d) => \E k : KeepsBatch(doc[d], doc'[d], n, k)
  PROVE  Goes(L, d)
<1>1. \A b \in Acked(d)' : b \in Acked(d)  BY DEF Acked
<1>2. \A f \in Ups(d)' : f \in Ups(d) \/ \E k \in DOMAIN doc'[d].pending : f = Push(doc'[d].pending[k])
  BY DEF Ups
<1> QED  BY <1>1, <1>2 DEF Goes

\* The others look on.
LEMMA OneGoes ==
  ASSUME NEW L, Shapes(L), NEW d \in Devices, Goes(L, d), server' = server,
         \A e \in Devices : e # d => doc'[e] = doc[e] /\ saved'[e].doc = saved[e].doc /\ sock'[e] = sock[e],
         \A q \in publishing' : q.to \in Devices => q \in publishing
  PROVE  Steady(L)
<1>1. ASSUME NEW e \in Devices, e # d PROVE Goes(L, e)
  <2>1. /\ \A g \in ToSet(sock[e].down) : g.t = "ack" => MayAck(L, e, g.batch)
        /\ \A q \in publishing : q.to = e => MayAck(L, e, q.batch)
    BY AckedMay
  <2>2. sock'[e] = sock[e] /\ \A q \in publishing' : q.to = e => q \in publishing  BY <1>1
  <2> QED  BY <1>1, <2>1, <2>2, StillGoes
<1>2. server \in Tables(L)  BY DEF Shapes, RoomShapes
<1>3. Forward(L, server.rows, server'.rows)  BY <1>2, ForwardIsReflexive
<1> QED  BY <1>1, <1>3 DEF Steady

\* A session's step that leaves the replica and its queue as they were.
LEMMA SocketGoes ==
  ASSUME NEW L, Shapes(L), NEW d \in Devices, NEW s, Resock(L, d, s),
         UNCHANGED <<server, publishing, doc, saved>>,
         \A g \in ToSet(s.down) : g \in ToSet(sock[d].down),
         \A f \in ToSet(s.up) : f.t = "push" => f \in ToSet(sock[d].up)
  PROVE  Steady(L)
<1>0. sock \in [Devices -> Sockets(L)] /\ doc[d] \in Docs(d, L)
  BY DEF Shapes, RoomShapes, DocShapes
<1>1. sock'[d] = s /\ \A e \in Devices : e # d => sock'[e] = sock[e]  BY <1>0, ResockFacts
<1>2. /\ \A g \in ToSet(sock[d].down) : g.t = "ack" => MayAck(L, d, g.batch)
      /\ \A q \in publishing : q.to = d => MayAck(L, d, q.batch)
  BY AckedMay
<1>3. Goes(L, d)  BY <1>1, <1>2, StillGoes
<1> QED  BY <1>1, <1>3, OneGoes

\* A device dials.
LEMMA DialGoes ==
  ASSUME NEW L, Shapes(L), NEW d \in Devices, Dial(d)
  PROVE  Steady(L)
<1>0. doc[d] \in Docs(d, L)  BY DEF Shapes, DocShapes
<1>1. PICK fresh \in BOOLEAN :
        fresh = (doc[d].cursor = 0 /\ doc[d].pending = <<>> /\ ~ doc[d].touched)
  OBVIOUS
<1>2. PICK h : h = Hello(fresh, doc[d].cursor)  OBVIOUS
<1>3. h \in Hellos /\ h.t = "hello"
  <2>1. doc[d].cursor \in Nat  BY <1>0, DocParts
  <2> QED  BY <1>2, <2>1 DEF Hello, Hellos
<1>4. Connect(d, h)  BY <1>1, <1>2 DEF Dial
<1>5. PICK s : Resock(L, d, s) /\ s.up = <<h>> /\ s.down = <<>>  BY <1>3, <1>4, ConnectEffect
<1>6. UNCHANGED <<server, publishing, doc, saved>>  BY <1>4 DEF Connect, Dial
<1>7. ToSet(s.up) = {h} /\ ToSet(s.down) = {}  BY <1>3, <1>5, ToSetOfOne DEF ToSet
<1> QED  BY <1>3, <1>5, <1>6, <1>7, SocketGoes

\* A session skips a frame.
LEMMA SkipFrameGoes ==
  ASSUME NEW L, Shapes(L), NEW d \in Devices, SkipFrame(d)
  PROVE  Steady(L)
<1>0. sock \in [Devices -> Sockets(L)]  BY DEF Shapes, RoomShapes
<1>1. /\ sock[d].down # <<>> /\ sock' = [sock EXCEPT ![d] = Rest(d)]
      /\ UNCHANGED <<server, publishing, doc, saved>>
  BY DEF SkipFrame, docVars
<1>2. PICK r : r = Rest(d)  OBVIOUS
<1>3. /\ Resock(L, d, r) /\ r.up = sock[d].up /\ r.down = Tail(sock[d].down)
      /\ ToSet(sock[d].down) = {Head(sock[d].down)} \cup ToSet(Tail(sock[d].down))
  BY <1>0, <1>1, <1>2, RestFacts DEF Resock
<1> QED  BY <1>1, <1>3, SocketGoes

\* A session pushes the batches not in flight.
LEMMA PushPendingGoes ==
  ASSUME NEW L, Shapes(L), NEW d \in Devices, PushPending(d)
  PROVE  Steady(L)
<1>0. /\ sock \in [Devices -> Sockets(L)] /\ DOMAIN doc = Devices /\ doc[d] \in Docs(d, L)
      /\ sock[d] \in Sockets(L) /\ Now(d, doc[d]) \in Nat
  BY QueueParts DEF Shapes, RoomShapes, DocShapes
<1>1. PushAll(d, doc[d], sock[d])  BY DEF PushPending
<1>2. Pushed(L, d, doc[d], sock[d])  BY <1>0, <1>1, PushAllEffect
<1>3. PICK e, r : /\ Redoc(L, d, e) /\ MarkedAs(L, d, doc[d], TRUE, e)
                  /\ Resock(L, d, r) /\ r.down = sock[d].down
                  /\ ToSet(r.up) = ToSet(sock[d].up) \cup {Push(doc[d].pending[n]) : n \in Waiting(doc[d])}
  BY <1>2 DEF Pushed
<1>4. UNCHANGED <<server, publishing, saved>>  BY DEF PushPending
<1>5. doc'[d] = e /\ \A x \in Devices : x # d => doc'[x] = doc[x]  BY <1>0, <1>3, RedocFacts
<1>6. sock'[d] = r /\ \A x \in Devices : x # d => sock'[x] = sock[x]  BY <1>0, <1>3, ResockFacts
<1>7. /\ e.written = doc[d].written /\ Now(d, e) = Now(d, doc[d])
      /\ DOMAIN e.pending = DOMAIN doc[d].pending
      /\ \A n \in DOMAIN doc[d].pending : KeepsBatch(doc[d], e, n, n)
  BY <1>3 DEF MarkedAs, SameBut, KeepsBatch
<1>8. \A n \in DOMAIN doc[d].pending : Push(doc[d].pending[n]) = Push(e.pending[n])
  BY <1>7, PushOfParts DEF KeepsBatch
<1>9. \A f \in ToSet(r.up) : f \in ToSet(sock[d].up) \/ \E k \in DOMAIN e.pending : f = Push(e.pending[k])
  BY <1>3, <1>7, <1>8 DEF Waiting
<1>10. Goes(L, d)  BY <1>0, <1>3, <1>4, <1>5, <1>6, <1>7, <1>9, QueueGoes
<1> QED  BY <1>4, <1>5, <1>6, <1>10, OneGoes

\* A session that ends takes the marks off its queue.
LEMMA LandedQueue ==
  ASSUME NEW L, NEW d, NEW dc \in Docs(d, L)
  PROVE  /\ Landed(dc).written = dc.written /\ Now(d, Landed(dc)) = Now(d, dc)
         /\ DOMAIN Landed(dc).pending = DOMAIN dc.pending
         /\ \A n \in DOMAIN dc.pending : KeepsBatch(dc, Landed(dc), n, n)
         /\ OpsOf(Landed(dc).pending) = OpsOf(dc.pending)
<1>1. PICK no \in BOOLEAN : no = FALSE  OBVIOUS
<1>2. Landed(dc) = Marked(dc, no)  BY <1>1, LandedFacts
<1>3. MarkedAs(L, d, dc, no, Landed(dc))  BY <1>2, MarkedFacts
<1> QED  BY <1>3 DEF MarkedAs, SameBut, KeepsBatch

\* A connection is cut.
LEMMA CutGoes ==
  ASSUME NEW L, Shapes(L), NEW d \in Devices, Cut(d)
  PROVE  Steady(L)
<1>0. /\ RoomShapes(L) /\ DocShapes(L) /\ sock \in [Devices -> Sockets(L)] /\ DOMAIN doc = Devices
      /\ doc[d] \in Docs(d, L) /\ Now(d, doc[d]) \in Nat
  BY QueueParts DEF Shapes, RoomShapes, DocShapes
<1>1. EndSession(d) /\ Disconnect(d) /\ saved' = saved  BY DEF Cut
<1>2. Redoc(L, d, Landed(doc[d]))  BY <1>0, <1>1, EndSessionFacts
<1>3. PICK e : e = Landed(doc[d])  OBVIOUS
<1>4. /\ e.written = doc[d].written /\ Now(d, e) = Now(d, doc[d])
      /\ DOMAIN e.pending = DOMAIN doc[d].pending
      /\ \A n \in DOMAIN doc[d].pending : KeepsBatch(doc[d], e, n, n)
  BY <1>0, <1>3, LandedQueue
<1>5. doc'[d] = e /\ \A x \in Devices : x # d => doc'[x] = doc[x]  BY <1>0, <1>2, <1>3, RedocFacts
<1>6. /\ server' = server /\ Resock(L, d, NoSocket)
      /\ \A p \in publishing' : p.to # d
  BY <1>0, <1>1, DisconnectEffect
<1>7. \A q \in publishing' : q.to \in Devices => q \in publishing
  <2>1. publishing' = {IF p.to = d THEN [p EXCEPT !.to = NoDevice] ELSE p : p \in publishing}
    BY <1>1 DEF Disconnect
  <2>2. NoDevice \notin Devices /\ \A p \in publishing : [p EXCEPT !.to = NoDevice].to = NoDevice
    <3>1. \A p \in publishing : p \in InHand(L)  BY <1>0 DEF RoomShapes
    <3> QED  BY <3>1, RegistryRoomAssumption DEF InHand
  <2> QED  BY <2>1, <2>2
<1>8. sock'[d] = NoSocket /\ \A x \in Devices : x # d => sock'[x] = sock[x]  BY <1>0, <1>6, ResockFacts
<1>9. ToSet(sock'[d].down) = {} /\ ToSet(sock'[d].up) = {}  BY <1>8 DEF NoSocket, ToSet
<1>10. Goes(L, d)  BY <1>0, <1>1, <1>4, <1>5, <1>6, <1>9, QueueGoes
<1> QED  BY <1>1, <1>5, <1>6, <1>7, <1>8, <1>10, OneGoes

\* The deletes among the re-seeded rows repeat tombstones of the table.
LEMMA SeededDeletes ==
  ASSUME NEW L, NEW d \in Devices, CopiesAreOlder, epoch = 0, NEW x \in SeedsOf(doc[d]), x.op = "delete"
  PROVE  x.hlc <= server.rows[x.id].del
<1>1. PICK i \in Ids : x = SeedOp(i, doc[d].rows[i])  BY DEF SeedsOf
<1>2. PICK row : row = doc[d].rows[i]  OBVIOUS
<1>3. x.id = i /\ x.hlc = row.del
  <2>1. CASE row.state = "deleted"  BY <1>1, <1>2, <2>1 DEF SeedOp
  <2>2. CASE row.state # "deleted"
    <3>1. x.op = "upsert"  BY <1>1, <1>2, <2>2 DEF SeedOp
    <3> QED  BY <3>1
  <2> QED  BY <2>1, <2>2
<1>4. Older(row, server.rows[i])  BY <1>2 DEF CopiesAreOlder, OlderRow
<1> QED  BY <1>3, <1>4 DEF Older

\* The queue of a replica that applied a state.
LEMMA StateQueue ==
  ASSUME NEW L, NEW d \in Devices, doc[d] \in Docs(d, L), CopiesAreOlder, epoch = 0, server' = server,
         NEW f, NEW a, StateApplied(L, d, doc[d], f, a), NEW e, DOMAIN e.pending = DOMAIN a.pending,
         \A n \in DOMAIN a.pending : e.pending[n].batch = a.pending[n].batch /\ e.pending[n].ops = a.pending[n].ops
  PROVE  /\ \A k \in DOMAIN e.pending :
              \/ \E n \in DOMAIN doc[d].pending : KeepsBatch(doc[d], e, n, k)
              \/ /\ e.pending[k].batch > Now(d, doc[d])
                 /\ \A x \in ToSet(e.pending[k].ops) : x.op = "delete" => x.hlc <= server'.rows[x.id].del
         /\ \A n \in DOMAIN doc[d].pending : KeepsBatch(doc[d], e, n, n)
<1>1. ASSUME NEW k \in DOMAIN e.pending
      PROVE  \/ \E n \in DOMAIN doc[d].pending : KeepsBatch(doc[d], e, n, k)
             \/ /\ e.pending[k].batch > Now(d, doc[d])
                /\ \A x \in ToSet(e.pending[k].ops) : x.op = "delete" => x.hlc <= server'.rows[x.id].del
  <2>1. \/ k \in DOMAIN doc[d].pending /\ a.pending[k] = doc[d].pending[k]
        \/ a.pending[k].batch > Now(d, doc[d]) /\ ToSet(a.pending[k].ops) \subseteq SeedsOf(doc[d])
    BY DEF StateApplied
  <2>2. CASE k \in DOMAIN doc[d].pending /\ a.pending[k] = doc[d].pending[k]
    BY <2>2 DEF KeepsBatch
  <2>3. CASE a.pending[k].batch > Now(d, doc[d]) /\ ToSet(a.pending[k].ops) \subseteq SeedsOf(doc[d])
    <3>1. e.pending[k].batch > Now(d, doc[d]) /\ e.pending[k].ops = a.pending[k].ops  BY <2>3
    <3>2. \A x \in ToSet(e.pending[k].ops) : x.op = "delete" => x.hlc <= server.rows[x.id].del
      BY <2>3, <3>1, SeededDeletes
    <3> QED  BY <3>1, <3>2
  <2> QED  BY <2>1, <2>2, <2>3
<1>2. \A n \in DOMAIN doc[d].pending : KeepsBatch(doc[d], e, n, n)  BY DEF StateApplied, KeepsBatch
<1> QED  BY <1>1, <1>2

\* A session takes the answer to its hello.
LEMMA ReceiveStateGoes ==
  ASSUME NEW L, L \subseteq Pairs, Shapes(L), CopiesAreOlder, epoch = 0, NEW d \in Devices,
         NEW now \in Nat, ReceiveState(d, now)
  PROVE  Steady(L)
<1>0. /\ RoomShapes(L) /\ DocShapes(L) /\ ClockShapes /\ sock \in [Devices -> Sockets(L)]
      /\ DOMAIN doc = Devices /\ doc[d] \in Docs(d, L) /\ Now(d, doc[d]) \in Nat
  BY QueueParts DEF Shapes, RoomShapes, DocShapes
<1>1. PICK f, a, e, r : StateTaken(L, d, f, a, e, r)  BY <1>0, ReceiveStateEffect
<1>2. UNCHANGED <<server, publishing, saved>> /\ sock[d].down # <<>>  BY DEF ReceiveState, Received
<1>3. /\ StateApplied(L, d, doc[d], f, a) /\ Redoc(L, d, e) /\ Resock(L, d, r)
      /\ e.written = a.written /\ Now(d, e) = Now(d, a)
      /\ DOMAIN e.pending = DOMAIN a.pending
      /\ \A n \in DOMAIN a.pending : e.pending[n].batch = a.pending[n].batch /\ e.pending[n].ops = a.pending[n].ops
      /\ r.down = Tail(sock[d].down)
      /\ ToSet(r.up) = ToSet(sock[d].up) \cup {Push(a.pending[n]) : n \in Waiting(a)}
  BY <1>1 DEF StateTaken
<1>4. a.written = doc[d].written /\ Now(d, a) >= Now(d, doc[d])  BY <1>3 DEF StateApplied
<1>5. doc'[d] = e /\ \A x \in Devices : x # d => doc'[x] = doc[x]  BY <1>0, <1>3, RedocFacts
<1>6. sock'[d] = r /\ \A x \in Devices : x # d => sock'[x] = sock[x]  BY <1>0, <1>3, ResockFacts
<1>7. \A n \in DOMAIN a.pending : Push(a.pending[n]) = Push(e.pending[n])  BY <1>3, PushOfParts
<1>8. \A g \in ToSet(r.up) : g \in ToSet(sock[d].up) \/ \E k \in DOMAIN e.pending : g = Push(e.pending[k])
  BY <1>3, <1>7 DEF Waiting
<1>9. ToSet(r.down) \subseteq ToSet(sock[d].down)  BY <1>0, <1>2, <1>3, RestFacts
<1>10. /\ \A k \in DOMAIN e.pending :
            \/ \E n \in DOMAIN doc[d].pending : KeepsBatch(doc[d], e, n, k)
            \/ /\ e.pending[k].batch > Now(d, doc[d])
               /\ \A x \in ToSet(e.pending[k].ops) : x.op = "delete" => x.hlc <= server'.rows[x.id].del
       /\ \A n \in DOMAIN doc[d].pending : KeepsBatch(doc[d], e, n, n)
  BY <1>0, <1>2, <1>3, StateQueue
<1>11. Goes(L, d)  BY <1>2, <1>3, <1>4, <1>5, <1>6, <1>8, <1>9, <1>10, QueueGoes
<1> QED  BY <1>2, <1>5, <1>6, <1>11, OneGoes

\* A session takes an acknowledgement or a broadcast.
LEMMA ReceiveFrameGoes ==
  ASSUME NEW L, L \subseteq Pairs, Shapes(L), CopiesAreOlder, epoch = 0, NEW d \in Devices,
         NEW now \in Nat, ReceiveFrame(d, now)
  PROVE  Steady(L)
<1>0. /\ RoomShapes(L) /\ DocShapes(L) /\ sock \in [Devices -> Sockets(L)]
      /\ DOMAIN doc = Devices /\ doc[d] \in Docs(d, L) /\ Now(d, doc[d]) \in Nat
  BY QueueParts DEF Shapes, RoomShapes, DocShapes
<1>1. PICK f, e, r : FrameTaken(L, d, f, e, r)  BY <1>0, ReceiveFrameEffect
<1>2. UNCHANGED <<server, publishing, saved>> /\ sock[d].down # <<>>  BY DEF ReceiveFrame
<1>3. /\ f = Head(sock[d].down) /\ Redoc(L, d, e) /\ Resock(L, d, r)
      /\ r.up = sock[d].up /\ r.down = Tail(sock[d].down)
  BY <1>1 DEF FrameTaken
<1>4. doc'[d] = e /\ \A x \in Devices : x # d => doc'[x] = doc[x]  BY <1>0, <1>3, RedocFacts
<1>5. sock'[d] = r /\ \A x \in Devices : x # d => sock'[x] = sock[x]  BY <1>0, <1>3, ResockFacts
<1>6. ToSet(r.down) \subseteq ToSet(sock[d].down) /\ f \in ToSet(sock[d].down)
  BY <1>0, <1>2, <1>3, RestFacts
<1>7. SUFFICES /\ e.written = doc[d].written /\ Now(d, e) >= Now(d, doc[d])
               /\ \A k \in DOMAIN e.pending :
                    \/ \E n \in DOMAIN doc[d].pending : KeepsBatch(doc[d], e, n, k)
                    \/ /\ e.pending[k].batch > Now(d, doc[d])
                       /\ \A x \in ToSet(e.pending[k].ops) : x.op = "delete" => x.hlc <= server'.rows[x.id].del
               /\ \A n \in DOMAIN doc[d].pending :
                    doc[d].pending[n].batch \notin Acked(d) => \E k : KeepsBatch(doc[d], e, n, k)
  <2>1. Goes(L, d)  BY <1>2, <1>3, <1>4, <1>5, <1>6, <1>7, QueueGoes
  <2> QED  BY <1>2, <1>4, <1>5, <2>1, OneGoes
<1>8. CASE f \in RowsFrames(L) /\ e = ApplyRows(doc[d], f)
  <2>1. e.written = doc[d].written /\ e.pending = doc[d].pending /\ Now(d, e) = Now(d, doc[d])
    BY <1>0, <1>8, ApplyRowsFacts
  <2> QED  BY <1>0, <2>1 DEF KeepsBatch
<1>9. CASE f \in Acks /\ AckApplied(L, d, doc[d], f, e)
  <2>1. f.batch \in Acked(d)  BY <1>6, <1>9 DEF Acked, Acks
  <2>2. /\ e.written = doc[d].written /\ Now(d, e) = Now(d, doc[d])
        /\ \A k \in DOMAIN e.pending : \E n \in DOMAIN doc[d].pending : e.pending[k] = doc[d].pending[n]
        /\ \A n \in DOMAIN doc[d].pending : doc[d].pending[n].batch # f.batch =>
             \E k \in DOMAIN e.pending : e.pending[k] = doc[d].pending[n]
    BY <1>9 DEF AckApplied
  <2>3. \A k \in DOMAIN e.pending : \E n \in DOMAIN doc[d].pending : KeepsBatch(doc[d], e, n, k)
    BY <2>2 DEF KeepsBatch
  <2>4. ASSUME NEW n \in DOMAIN doc[d].pending, doc[d].pending[n].batch \notin Acked(d)
        PROVE  \E k : KeepsBatch(doc[d], e, n, k)
    <3>1. PICK k \in DOMAIN e.pending : e.pending[k] = doc[d].pending[n]  BY <2>1, <2>2, <2>4
    <3> QED  BY <3>1 DEF KeepsBatch
  <2> QED  BY <1>0, <2>2, <2>3, <2>4
<1>10. CASE f \in StateFrames(L) /\ StateApplied(L, d, doc[d], f, e)
  <2>1. e.written = doc[d].written /\ Now(d, e) >= Now(d, doc[d])  BY <1>10 DEF StateApplied
  <2>2. /\ \A k \in DOMAIN e.pending :
            \/ \E n \in DOMAIN doc[d].pending : KeepsBatch(doc[d], e, n, k)
            \/ /\ e.pending[k].batch > Now(d, doc[d])
               /\ \A x \in ToSet(e.pending[k].ops) : x.op = "delete" => x.hlc <= server'.rows[x.id].del
        /\ \A n \in DOMAIN doc[d].pending : KeepsBatch(doc[d], e, n, n)
    BY <1>0, <1>2, <1>10, StateQueue
  <2> QED  BY <2>1, <2>2
<1> QED  BY <1>1, <1>8, <1>9, <1>10 DEF FrameTaken

\* The server starts again.
LEMMA RestartGoes ==
  ASSUME NEW L, Shapes(L), NEW kind, Restart(kind), epoch' = 0
  PROVE  Steady(L)
<1>0. DocShapes(L) /\ server \in Tables(L)  BY DEF Shapes, RoomShapes
<1>1. /\ sock' = [d \in Devices |-> NoSocket] /\ publishing' = {} /\ saved' = saved
      /\ doc' = [d \in Devices |-> Landed(doc[d])]
  BY DEF Restart, Reload
<1>2. server' = server  BY RestartBringsNoRows
<1>3. ASSUME NEW d \in Devices PROVE Goes(L, d)
  <2>1. doc[d] \in Docs(d, L)  BY <1>0 DEF DocShapes
  <2>2. PICK e : e = Landed(doc[d])  OBVIOUS
  <2>3. /\ e.written = doc[d].written /\ Now(d, e) = Now(d, doc[d]) /\ Now(d, doc[d]) \in Nat
        /\ DOMAIN e.pending = DOMAIN doc[d].pending
        /\ \A n \in DOMAIN doc[d].pending : KeepsBatch(doc[d], e, n, n)
    BY <2>1, <2>2, LandedQueue, QueueParts
  <2>4. doc'[d] = e /\ sock'[d] = NoSocket /\ saved'[d].doc = saved[d].doc  BY <1>1, <2>2
  <2>5. ToSet(sock'[d].down) = {} /\ ToSet(sock'[d].up) = {}  BY <2>4 DEF NoSocket, ToSet
  <2>6. /\ Now(d, doc'[d]) >= Now(d, doc[d]) /\ doc'[d].written = doc[d].written
        /\ \A k \in DOMAIN doc'[d].pending :
             \E n \in DOMAIN doc[d].pending : KeepsBatch(doc[d], doc'[d], n, k)
        /\ \A n \in DOMAIN doc[d].pending : \E k : KeepsBatch(doc[d], doc'[d], n, k)
    BY <2>3, <2>4
  <2>7. publishing' = {}  BY <1>1
  <2> QED  BY <2>4, <2>5, <2>6, <2>7, QueueGoes
<1>4. Forward(L, server.rows, server'.rows)  BY <1>0, <1>2, ForwardIsReflexive
<1> QED  BY <1>3, <1>4 DEF Steady

\* A tombstone the replica shows is the table's, or one of its own deletes.
LEMMA ShownTombstone ==
  ASSUME NEW L, NEW d \in Devices, NEW dc \in Docs(d, L), NEW R \in [Ids -> Rows(L)], NEW A,
         WritesSafe(R, dc, A), \A i \in Ids : dc.rows[i].del <= R[i].del, NEW i \in Ids
  PROVE  \/ View(dc, i).del <= R[i].del
         \/ \E y \in dc.written : y.op = "delete" /\ y.id = i /\ y.hlc >= View(dc, i).del
<1>1. PICK row \in Rows(L), own \in Seq(Ops(L)) : row = dc.rows[i] /\ own = PendingOps(dc, i)
  BY DocParts, PendingOpsFacts
<1>2. ToSet(own) = {op \in OpsOf(dc.pending) : op.id = i}  BY <1>1, PendingOpsFacts
<1>3. View(dc, i).del = ApplyOps(row, own).del  BY <1>1 DEF View
<1>4. PICK v : v = ApplyOps(row, own).del  OBVIOUS
<1>5. CASE v = row.del  BY <1>1, <1>3, <1>4, <1>5
<1>6. CASE \E p \in ToSet(own) : p.op = "delete" /\ p.hlc = v
  <2>1. PICK p \in OpsOf(dc.pending) : p.op = "delete" /\ p.hlc = v /\ p.id = i  BY <1>2, <1>6
  <2>2. Deletion(R, dc, p)  BY <2>1 DEF WritesSafe
  <2> QED  BY <1>3, <1>4, <2>1, <2>2 DEF Deletion
<1> QED  BY <1>4, <1>5, <1>6, TombstoneComesFrom

\* Compaction keeps every write that was safe.
LEMMA CompactionIsSafe ==
  ASSUME NEW L, L \subseteq Pairs, NoClears(L), OneValue(L), NEW d \in Devices, NEW dc \in Docs(d, L), NEW c,
         CompactedTo(L, d, dc, c), NEW R \in [Ids -> Rows(L)], NEW A \in SUBSET Nat,
         \A b \in A : b <= Now(d, dc), \A i \in Ids : dc.rows[i].del <= R[i].del, WritesSafe(R, dc, A)
  PROVE  WritesSafe(R, c, A)
<1>1. CASE c = dc  BY <1>1
<1>2. CASE /\ OpsOf(c.pending) = AllMerged(dc)
           /\ \A n \in DOMAIN c.pending : c.pending[n].batch > Now(d, dc)
  <2>0. /\ c \in Docs(d, L) /\ c.written = dc.written
        /\ \A n \in DOMAIN c.pending : c.pending[n].batch \in Nat
        /\ Now(d, dc) \in Nat /\ dc.written \subseteq Ops(L)
        /\ OpsOf(dc.pending) \subseteq Ops(L)
    <3>1. c \in Docs(d, L) /\ c.written = dc.written  BY DEF CompactedTo, SameBut
    <3> QED  BY <3>1, QueueParts
  <2>1. ASSUME NEW x \in OpsOf(c.pending), x.op = "delete" PROVE Deletion(R, c, x)
    <3>1. PICK i \in NamedRows(dc) : x \in MergedOps(dc, i)  BY <1>2 DEF AllMerged
    <3>2. i \in Ids  BY DEF NamedRows
    <3>3. CASE View(dc, i).state = "missing"
      <4>1. x \in ToSet(PendingOps(dc, i))  BY <3>1, <3>3 DEF MergedOps
      <4>2. x \in OpsOf(dc.pending)  BY <4>1, PendingOpsFacts
      <4>3. Deletion(R, dc, x)  BY <2>1, <4>2 DEF WritesSafe
      <4> QED  BY <2>0, <4>3 DEF Deletion
    <3>4. CASE View(dc, i).state # "missing"
      <4>1. PICK v : v = View(dc, i)  OBVIOUS
      <4>2. x = SeedOp(i, v)  BY <3>1, <3>4, <4>1 DEF MergedOps
      <4>3. x.id = i /\ x.hlc = v.del
        <5>1. CASE v.state = "deleted"  BY <4>2, <5>1 DEF SeedOp
        <5>2. CASE v.state # "deleted"
          <6>1. x.op = "upsert"  BY <4>2, <5>2 DEF SeedOp
          <6> QED  BY <2>1, <6>1
        <5> QED  BY <5>1, <5>2
      <4>4. v.del <= R[i].del \/ \E y \in dc.written : y.op = "delete" /\ y.id = i /\ y.hlc >= v.del
        BY <3>2, <4>1, ShownTombstone
      <4> QED  BY <2>0, <4>3, <4>4 DEF Deletion
    <3> QED  BY <3>3, <3>4
  <2>2. ASSUME NEW op \in c.written PROVE Plain(op) /\ Safe(R, c, A, op)
    <3>1. Plain(op) /\ Safe(R, dc, A, op)  BY <2>0 DEF WritesSafe
    <3>2. op \in Ops(L) /\ op.id \in Ids /\ op.hlc \in Nat
      <4>1. op \in Ops(L)  BY <2>0
      <4> QED  BY <4>1, OpParts
    <3>3. CASE Overruled(dc, op)  BY <2>0, <3>1, <3>3 DEF Overruled, Safe
    <3>4. CASE Absorbed(R[op.id], op)  BY <3>1, <3>4 DEF Safe
    <3>5. ASSUME NEW n \in DOMAIN dc.pending, NEW p \in ToSet(dc.pending[n].ops), Covers(p, op)
          PROVE  Safe(R, c, A, op)
      <4>1. PICK i \in Ids : i = op.id  BY <3>2
      <4>2. p \in OpsOf(dc.pending) /\ p.id = i  BY <3>5, <4>1 DEF OpsOf, Covers
      <4>3. PICK row \in Rows(L), own \in Seq(Ops(L)) : row = dc.rows[i] /\ own = PendingOps(dc, i)
        BY DocParts, PendingOpsFacts
      <4>4. p \in ToSet(own)  BY <4>2, <4>3, PendingOpsFacts
      <4>5. PICK v \in Rows(L) : v = View(dc, i)  BY ViewIsARow
      <4>6. v = ApplyOps(row, own)  BY <4>3, <4>5 DEF View
      <4>7. Absorbed(v, op)  BY <3>2, <3>5, <4>4, <4>6, AppliedTakesIn
      <4>8. v.state # "missing"  BY <4>7 DEF Absorbed
      <4>9. i \in NamedRows(dc)
        <5>1. own # <<>>  BY <4>4 DEF ToSet
        <5> QED  BY <4>3, <5>1 DEF NamedRows
      <4>10. SeedOp(i, v) \in OpsOf(c.pending)  BY <1>2, <4>5, <4>8, <4>9 DEF AllMerged, MergedOps
      <4>11. PICK k \in DOMAIN c.pending : SeedOp(i, v) \in ToSet(c.pending[k].ops)
        BY <4>10 DEF OpsOf
      <4>12. c.pending[k].batch \notin A
        <5>1. c.pending[k].batch > Now(d, dc)  BY <1>2
        <5>2. c.pending[k].batch \in Nat  BY <2>0
        <5>3. \A b \in A : b \in Nat /\ b <= Now(d, dc)  OBVIOUS
        <5> QED  BY <2>0, <5>1, <5>2, <5>3
      <4>13. CASE Covers(SeedOp(i, v), op)  BY <4>11, <4>12, <4>13 DEF Safe
      <4>14. CASE op.op = "upsert" /\ op.hlc <= v.del
        <5>1. v.del \in Nat /\ R[i] \in Rows(L)  BY RowParts
        <5>2. R[i].del \in Nat /\ (R[i].state = "missing" => R[i].del = 0)  BY <5>1, RowParts
        <5>3. CASE v.del <= R[i].del
          <6>1. op.hlc <= R[i].del  BY <3>2, <4>14, <5>1, <5>2, <5>3
          <6>2. \A f \in DOMAIN op.set : op.set[f].clock = op.hlc  BY <3>1 DEF Plain
          <6>3. op.hlc # 0
            <7>1. PICK f \in DOMAIN op.set : op.set[f].clock = op.hlc  BY <3>2, <4>14, OpParts
            <7>2. op.set[f].clock # 0  BY <3>2, OpParts
            <7> QED  BY <7>1, <7>2
          <6>4. R[i].state # "missing"  BY <3>2, <5>2, <6>1, <6>3
          <6>5. Absorbed(R[i], op)  BY <4>14, <6>1, <6>2, <6>4 DEF Absorbed, Holds
          <6> QED  BY <4>1, <6>5 DEF Safe
        <5>4. CASE \E y \in dc.written : y.op = "delete" /\ y.id = i /\ y.hlc >= v.del
          <6>1. PICK y \in dc.written : y.op = "delete" /\ y.id = i /\ y.hlc >= v.del  BY <5>4
          <6>2. y.hlc \in Nat
            <7>1. y \in Ops(L)  BY <2>0
            <7> QED  BY <7>1, OpParts
          <6>3. y.hlc >= op.hlc  BY <3>2, <4>14, <5>1, <6>1, <6>2
          <6>4. Overruled(c, op)  BY <2>0, <4>1, <4>14, <6>1, <6>3 DEF Overruled
          <6> QED  BY <6>4 DEF Safe
        <5> QED  BY <4>5, <5>3, <5>4, ShownTombstone
      <4> QED  BY <3>1, <3>2, <4>1, <4>7, <4>13, <4>14, SeedCovers
    <3> QED  BY <3>1, <3>3, <3>4, <3>5 DEF Safe
  <2> QED  BY <2>1, <2>2 DEF WritesSafe
<1> QED  BY <1>1, <1>2 DEF CompactedTo

\* What is stored of a replica keeps what the replica keeps.
LEMMA KeptIsSafe ==
  ASSUME NEW L, NEW d, NEW c \in Docs(d, L), NEW k, k.pending = Landed(c).pending, k.written = c.written,
         NEW R, NEW A, WritesSafe(R, c, A)
  PROVE  WritesSafe(R, k, {})
<1>1. /\ DOMAIN k.pending = DOMAIN c.pending /\ OpsOf(k.pending) = OpsOf(c.pending)
      /\ \A n \in DOMAIN c.pending : k.pending[n].ops = c.pending[n].ops
  BY LandedQueue DEF KeepsBatch
<1>2. \A x \in OpsOf(k.pending) : x.op = "delete" => Deletion(R, k, x)
  BY <1>1 DEF WritesSafe, Deletion
<1>3. \A op \in k.written : Plain(op) /\ Safe(R, k, {}, op)
  <2>1. ASSUME NEW op \in k.written PROVE Plain(op) /\ Safe(R, k, {}, op)
    <3>1. Plain(op) /\ Safe(R, c, A, op)  BY DEF WritesSafe
    <3> QED  BY <1>1, <3>1 DEF Safe, Overruled
  <2> QED  BY <2>1
<1> QED  BY <1>2, <1>3 DEF WritesSafe

\* A step of one device that leaves the table and the other devices alone.
LEMMA OthersDeliver ==
  ASSUME NEW L, Shapes(L), Shapes(L)', NEW d \in Devices, server' = server,
         \A e \in Devices : e # d => doc'[e] = doc[e] /\ saved'[e].doc = saved[e].doc /\ sock'[e] = sock[e],
         \A q \in publishing' : q.to \in Devices => q \in publishing,
         \A e \in Devices : Delivery(e), NEW e \in Devices, e # d
  PROVE  Delivery(e)'
<1>1. /\ \A g \in ToSet(sock[e].down) : g.t = "ack" => MayAck(L, e, g.batch)
      /\ \A q \in publishing : q.to = e => MayAck(L, e, q.batch)
  BY AckedMay
<1>2. sock'[e] = sock[e] /\ \A q \in publishing' : q.to = e => q \in publishing  OBVIOUS
<1>3. Goes(L, e)  BY <1>1, <1>2, StillGoes
<1>4. server \in Tables(L)  BY DEF Shapes, RoomShapes
<1>5. Forward(L, server.rows, server'.rows)  BY <1>4, ForwardIsReflexive
<1> QED  BY <1>3, <1>5, DeliveryGoes

\* A replica is saved.
LEMMA SaveSnapshotDelivers ==
  ASSUME NEW L, L \subseteq Pairs, NoClears(L), OneValue(L), Shapes(L), Shapes(L)', CopiesAreOlder, epoch = 0,
         \A e \in Devices : Delivery(e), NEW d \in Devices, NEW now \in Nat, SaveSnapshot(d, now)
  PROVE  \A e \in Devices : Delivery(e)'
<1>0. /\ DocShapes(L) /\ RoomShapes(L) /\ DOMAIN doc = Devices /\ DOMAIN saved = Devices
      /\ doc[d] \in Docs(d, L) /\ server.rows \in [Ids -> Rows(L)]
  BY DEF Shapes, DocShapes, RoomShapes, Tables
<1>1. PICK c, k : Snapshot(L, d, c, k)  BY <1>0, SaveSnapshotEffect
<1>2. /\ CompactedTo(L, d, doc[d], c) /\ Redoc(L, d, c) /\ k \in Docs(d, L) /\ SameBut(c, k)
      /\ k.pending = Landed(c).pending
      /\ saved' = [saved EXCEPT ![d] = [doc |-> k, owing |-> Owing(d) \/ d \in torn]]
  BY <1>1 DEF Snapshot
<1>3. UNCHANGED <<server, sock, publishing>>  BY DEF SaveSnapshot, roomVars
<1>4. /\ doc'[d] = c /\ saved'[d].doc = k
      /\ \A x \in Devices : x # d => doc'[x] = doc[x] /\ saved'[x].doc = saved[x].doc
  BY <1>0, <1>2, RedocFacts
<1>5. /\ c \in Docs(d, L) /\ Now(d, c) >= Now(d, doc[d]) /\ Now(d, doc[d]) \in Nat /\ Now(d, c) \in Nat
  BY <1>0, <1>2, QueueParts DEF CompactedTo
<1>6. /\ Acked(d) \subseteq Nat /\ \A f \in Ups(d) : f.batch \in Nat  BY <1>0, NamesAreNumbers
<1>7. /\ NamesOf(d) /\ WritesSafe(server.rows, doc[d], Acked(d))  BY DEF Delivery
<1>8. Acked(d)' = Acked(d) /\ Ups(d)' = Ups(d)  BY <1>3 DEF Acked, Ups
<1>9. NamesOf(d)'
  <2>1. \A b \in Acked(d) : b <= Now(d, c)  BY <1>5, <1>6, <1>7 DEF NamesOf
  <2>2. ASSUME NEW f \in Ups(d)
        PROVE  /\ f.batch <= Now(d, c)
               /\ \A n \in DOMAIN c.pending : c.pending[n].batch = f.batch => c.pending[n].ops = f.ops
    <3>1. /\ f.batch \in Nat /\ f.batch <= Now(d, doc[d])
          /\ \A n \in DOMAIN doc[d].pending : doc[d].pending[n].batch = f.batch => doc[d].pending[n].ops = f.ops
      BY <1>6, <1>7 DEF NamesOf
    <3>2. f.batch <= Now(d, c)  BY <1>5, <3>1
    <3>3. CASE c = doc[d]  BY <3>1, <3>2, <3>3
    <3>4. CASE \A n \in DOMAIN c.pending : c.pending[n].batch > Now(d, doc[d])
      BY <1>5, <3>1, <3>2, <3>4
    <3> QED  BY <1>2, <3>3, <3>4 DEF CompactedTo
  <2> QED  BY <1>4, <1>8, <2>1, <2>2 DEF NamesOf
<1>10. WritesSafe(server.rows, c, Acked(d))
  <2>1. \A i \in Ids : doc[d].rows[i].del <= server.rows[i].del  BY DEF CopiesAreOlder, OlderRow, Older
  <2>2. \A b \in Acked(d) : b <= Now(d, doc[d])  BY <1>7 DEF NamesOf
  <2> QED  BY <1>0, <1>2, <1>6, <1>7, <2>1, <2>2, CompactionIsSafe
<1>11. WritesSafe(server.rows, k, {})
  <2>1. k.written = c.written  BY <1>2 DEF SameBut
  <2> QED  BY <1>2, <1>5, <1>10, <2>1, KeptIsSafe
<1>12. WritesSafe(server'.rows, doc'[d], Acked(d)') /\ WritesSafe(server'.rows, saved'[d].doc, {})
  BY <1>3, <1>4, <1>8, <1>10, <1>11
<1>13. Delivery(d)'  BY <1>9, <1>12 DEF Delivery
<1> QED  BY <1>3, <1>4, <1>13, OthersDeliver

\* A process dies and its replica is read back from the snapshot.
LEMMA CrashDelivers ==
  ASSUME NEW L, L \subseteq Pairs, NoClears(L), OneValue(L), Shapes(L), Shapes(L)', CopiesAreOlder, epoch = 0,
         \A e \in Devices : Delivery(e), NEW d \in Devices, NEW now \in Nat, Crash(d, now)
  PROVE  \A e \in Devices : Delivery(e)'
<1>0. /\ DocShapes(L) /\ RoomShapes(L) /\ DOMAIN doc = Devices /\ DOMAIN saved = Devices
      /\ saved[d] \in SavedDocs(d, L) /\ server.rows \in [Ids -> Rows(L)] /\ sock \in [Devices -> Sockets(L)]
  BY DEF Shapes, DocShapes, RoomShapes, Tables
<1>1. PICK c, k : Restored(L, d, c, k)  BY <1>0, CrashEffect
<1>2. /\ CompactedTo(L, d, saved[d].doc, c) /\ Redoc(L, d, c) /\ k \in Docs(d, L) /\ SameBut(c, k)
      /\ k.pending = Landed(c).pending
      /\ saved' = [saved EXCEPT ![d].doc = k]
  BY <1>1 DEF Restored
<1>3. saved[d] \in [doc : Docs(d, L), owing : BOOLEAN] /\ saved[d].doc \in Docs(d, L)
  BY <1>0 DEF SavedDocs
<1>4. /\ doc'[d] = c /\ saved'[d].doc = k
      /\ \A x \in Devices : x # d => doc'[x] = doc[x] /\ saved'[x].doc = saved[x].doc
  BY <1>0, <1>2, <1>3, RedocFacts
<1>5. Disconnect(d)  BY DEF Crash
<1>6. /\ server' = server /\ Resock(L, d, NoSocket) /\ \A p \in publishing' : p.to # d
  BY <1>0, <1>5, DisconnectEffect
<1>7. sock'[d] = NoSocket /\ \A x \in Devices : x # d => sock'[x] = sock[x]  BY <1>0, <1>6, ResockFacts
<1>8. Acked(d)' = {} /\ Ups(d)' = {}
  <2>1. ToSet(sock'[d].down) = {} /\ ToSet(sock'[d].up) = {}  BY <1>7 DEF NoSocket, ToSet
  <2> QED  BY <1>6, <2>1 DEF Acked, Ups
<1>9. WritesSafe(server.rows, c, {})
  <2>1. \A i \in Ids : saved[d].doc.rows[i].del <= server.rows[i].del  BY DEF CopiesAreOlder, OlderRow, Older
  <2>2. WritesSafe(server.rows, saved[d].doc, {})  BY DEF Delivery
  <2>3. {} \in SUBSET Nat  OBVIOUS
  <2> QED  BY <1>0, <1>2, <1>3, <2>1, <2>2, <2>3, CompactionIsSafe
<1>10. WritesSafe(server.rows, k, {})
  <2>1. k.written = c.written /\ c \in Docs(d, L)  BY <1>2 DEF SameBut, CompactedTo
  <2> QED  BY <1>2, <1>9, <2>1, KeptIsSafe
<1>11. NamesOf(d)'  BY <1>8 DEF NamesOf
<1>12. WritesSafe(server'.rows, doc'[d], Acked(d)') /\ WritesSafe(server'.rows, saved'[d].doc, {})
  BY <1>4, <1>6, <1>8, <1>9, <1>10
<1>13. Delivery(d)'  BY <1>11, <1>12 DEF Delivery
<1>14. \A q \in publishing' : q.to \in Devices => q \in publishing
  <2>1. publishing' = {IF p.to = d THEN [p EXCEPT !.to = NoDevice] ELSE p : p \in publishing}
    BY <1>5 DEF Disconnect
  <2>2. NoDevice \notin Devices /\ \A p \in publishing : [p EXCEPT !.to = NoDevice].to = NoDevice
    <3>1. \A p \in publishing : p \in InHand(L)  BY <1>0 DEF RoomShapes
    <3> QED  BY <3>1, RegistryRoomAssumption DEF InHand
  <2> QED  BY <2>1, <2>2
<1> QED  BY <1>4, <1>6, <1>7, <1>13, <1>14, OthersDeliver

\* A replica writes.
LEMMA LocalWriteDelivers ==
  ASSUME NEW L, L \subseteq Pairs, Shapes(L), Shapes(L)', \A e \in Devices : Delivery(e),
         NEW d \in Devices, NEW now \in Nat, NEW kind \in Kinds,
         NEW ids \in (SUBSET Ids) \ {{}}, NEW F \in (SUBSET Fields) \ {{}},
         LocalWrite(d, now, kind, ids, F), PairOf(d, now, kind) \in L
  PROVE  \A e \in Devices : Delivery(e)'
<1>0. /\ RoomShapes(L) /\ DocShapes(L) /\ ClockShapes /\ DOMAIN doc = Devices
      /\ doc[d] \in Docs(d, L) /\ writes[d] \in Nat
  BY DEF Shapes, DocShapes, ClockShapes
<1>1. PICK e, b : Written(L, d, now, e, b)  BY <1>0, LocalWriteEffect DEF PairOf
<1>2. /\ Redoc(L, d, e) /\ e.pending = Append(doc[d].pending, b)
      /\ b \in Batches(L) /\ b.batch > Now(d, doc[d]) /\ Now(d, e) >= StampOf(d, now)
      /\ Stamped(L, StampOf(d, now), b.ops) /\ StampOf(d, now) > Now(d, doc[d])
      /\ e.written = doc[d].written \cup {op \in ToSet(b.ops) : op.op # "update"}
  BY <1>1 DEF Written
<1>3. UNCHANGED <<server, sock, publishing, saved>>  BY DEF LocalWrite, roomVars
<1>4. doc'[d] = e /\ \A x \in Devices : x # d => doc'[x] = doc[x]
  <2>1. DOMAIN doc = Devices /\ Redoc(L, d, e)  BY <1>0, <1>2
  <2> HIDE <1>0, <1>2
  <2> QED  BY <2>1, RedocFacts
<1>5. PICK p \in Seq(Batches(L)) : p = doc[d].pending  BY <1>0, DocParts
<1>6. PICK q : q = e.pending  OBVIOUS
<1>7. /\ DOMAIN q = 1 .. Len(p) + 1 /\ DOMAIN p = 1 .. Len(p) /\ Len(p) \in Nat
      /\ q[Len(p) + 1] = b /\ \A n \in 1 .. Len(p) : q[n] = p[n]
  BY <1>2, <1>5, <1>6
<1>8. OpsOf(q) = OpsOf(p) \cup ToSet(b.ops)  BY <1>2, <1>5, <1>6, OpsOfAppend
<1>9. /\ b.batch \in Nat /\ b.ops \in Seq(Ops(L)) /\ ToSet(b.ops) \subseteq Ops(L)
      /\ \A o \in ToSet(b.ops) : o.hlc \in Nat
  <2>1. b.batch \in Nat /\ b.ops \in Seq(Ops(L))  BY <1>2 DEF Batches
  <2>2. ToSet(b.ops) \subseteq Ops(L)  BY <2>1, ToSetOfSeq
  <2> QED  BY <2>1, <2>2, OpParts
<1>10. /\ Acked(d) \subseteq Nat /\ \A f \in Ups(d) : f.batch \in Nat  BY <1>0, NamesAreNumbers
<1>11. /\ NamesOf(d) /\ WritesSafe(server.rows, doc[d], Acked(d)) /\ WritesSafe(server.rows, saved[d].doc, {})
  BY DEF Delivery
<1>12. Acked(d)' = Acked(d) /\ Ups(d)' = Ups(d)  BY <1>3 DEF Acked, Ups
<1>13. Now(d, doc[d]) \in Nat /\ Now(d, e) \in Nat /\ Now(d, e) >= Now(d, doc[d])
  <2>1. e \in Docs(d, L)  BY <1>2 DEF Redoc
  <2>2. Now(d, doc[d]) \in Nat /\ Now(d, e) \in Nat  BY <1>0, <2>1, QueueParts
  <2>3. StampOf(d, now) \in Nat  BY <1>0, TickFacts DEF StampOf
  <2> QED  BY <1>2, <2>2, <2>3
<1>14. NamesOf(d)'
  <2>1. \A a \in Acked(d) : a <= Now(d, e)  BY <1>10, <1>11, <1>13 DEF NamesOf
  <2>2. ASSUME NEW f \in Ups(d)
        PROVE  /\ f.batch <= Now(d, e)
               /\ \A n \in DOMAIN e.pending : e.pending[n].batch = f.batch => e.pending[n].ops = f.ops
    <3>1. /\ f.batch \in Nat /\ f.batch <= Now(d, doc[d])
          /\ \A n \in DOMAIN p : p[n].batch = f.batch => p[n].ops = f.ops
      BY <1>5, <1>10, <1>11 DEF NamesOf
    <3>2. f.batch <= Now(d, e) /\ f.batch # b.batch  BY <1>2, <1>9, <1>13, <3>1
    <3>3. \A n \in DOMAIN q : (n \in DOMAIN p /\ q[n] = p[n]) \/ q[n] = b  BY <1>7
    <3> QED  BY <1>6, <3>1, <3>2, <3>3
  <2> QED  BY <1>4, <1>12, <2>1, <2>2 DEF NamesOf
<1>15. \A x \in OpsOf(q) : x.op = "delete" => Deletion(server.rows, e, x)
  <2>1. ASSUME NEW x \in OpsOf(p), x.op = "delete" PROVE Deletion(server.rows, e, x)
    <3>1. Deletion(server.rows, doc[d], x)  BY <1>5, <1>11, <2>1 DEF WritesSafe
    <3> QED  BY <1>2, <3>1 DEF Deletion
  <2>2. ASSUME NEW x \in ToSet(b.ops), x.op = "delete" PROVE Deletion(server.rows, e, x)
    <3>1. x \in e.written /\ x.hlc >= x.hlc  BY <1>2, <1>9, <2>2
    <3> QED  BY <2>2, <3>1 DEF Deletion
  <2> QED  BY <1>8, <2>1, <2>2
<1>16. ASSUME NEW op \in e.written PROVE Plain(op) /\ Safe(server.rows, e, Acked(d), op)
  <2>1. CASE op \in doc[d].written
    <3>1. Plain(op) /\ Safe(server.rows, doc[d], Acked(d), op)  BY <1>11, <2>1 DEF WritesSafe
    <3>2. CASE Overruled(doc[d], op)  BY <1>2, <3>1, <3>2 DEF Safe, Overruled
    <3>3. CASE Absorbed(server.rows[op.id], op)  BY <3>1, <3>3 DEF Safe
    <3>4. ASSUME NEW n \in DOMAIN p, p[n].batch \notin Acked(d), \E x \in ToSet(p[n].ops) : Covers(x, op)
          PROVE  Safe(server.rows, e, Acked(d), op)
      <4>1. n \in DOMAIN q /\ q[n] = p[n]  BY <1>7
      <4> QED  BY <1>6, <3>4, <4>1 DEF Safe
    <3> QED  BY <1>5, <3>1, <3>2, <3>3, <3>4 DEF Safe
  <2>2. CASE op \in ToSet(b.ops) /\ op.op # "update"
    <3>1. Plain(op)  BY <1>2, <2>2 DEF Stamped, Plain
    <3>2. Covers(op, op)  BY <1>9, <2>2, CoversItself
    <3>3. b.batch \notin Acked(d)  BY <1>2, <1>9, <1>10, <1>11, <1>13 DEF NamesOf
    <3>4. Len(p) + 1 \in DOMAIN q  BY <1>7
    <3> QED  BY <1>6, <1>7, <2>2, <3>1, <3>2, <3>3, <3>4 DEF Safe
  <2> QED  BY <1>2, <2>1, <2>2
<1>17. WritesSafe(server'.rows, doc'[d], Acked(d)') /\ WritesSafe(server'.rows, saved'[d].doc, {})
  <2>1. WritesSafe(server.rows, e, Acked(d))  BY <1>6, <1>15, <1>16 DEF WritesSafe
  <2> QED  BY <1>3, <1>4, <1>11, <1>12, <2>1
<1>18. Delivery(d)'  BY <1>14, <1>17 DEF Delivery
<1> QED  BY <1>3, <1>4, <1>18, OthersDeliver

-----------------------------------------------------------------------------
(* The clocks in use: no two writes have the same. *)

\* A clock of the device: of a reading its wall clock has passed, or not newer than its
\* replica's.
Used(d, c) ==
  \E ms \in Nat : \E k \in 0 .. Counters - 1 :
    c = EncodeHlc(ms, k, Rank[d]) /\ (ms < wall[d] \/ c <= Now(d, doc[d]))

Sound(L) ==
  /\ L \subseteq Pairs /\ Shapes(L) /\ OneValue(L) /\ NoClears(L)
  /\ \A p \in L : \E d \in Devices : Used(d, p[1])

\* The writes in the state have clocks of their own, and every replica's are safe.
WritesHold == \E L : Sound(L) /\ \A d \in Devices : Delivery(d)

\* Two devices have no clock in common.
LEMMA ClocksHaveOwners ==
  ASSUME NEW m \in Nat, NEW c \in 0 .. Counters - 1, NEW n \in Nat, NEW e \in 0 .. Counters - 1,
         NEW r \in 0 .. Ranks - 1, NEW s \in 0 .. Ranks - 1, r # s
  PROVE  EncodeHlc(m, c, r) # EncodeHlc(n, e, s)
<1>0. Counters \in Nat /\ Ranks \in Nat /\ Ranks >= 1  BY RegistryRowAssumption
<1>1. PICK a \in Nat, b \in Nat : a = m * Counters + c /\ b = n * Counters + e
  <2>1. m * Counters \in Nat /\ n * Counters \in Nat  BY <1>0
  <2> QED  BY <1>0, <2>1
<1>2. ASSUME NEW x \in Nat, NEW y \in Nat, x > y, NEW p \in 0 .. Ranks - 1, NEW q \in 0 .. Ranks - 1
      PROVE  x * Ranks + p # y * Ranks + q
  <2>1. PICK k \in Nat : x = y + 1 + k
    <3>1. x - y - 1 \in Nat /\ x = y + 1 + (x - y - 1)  BY <1>2
    <3> QED  BY <3>1
  <2>2. (y + 1 + k) * Ranks = y * Ranks + Ranks + k * Ranks  BY <1>0
  <2>3. x * Ranks \in Nat /\ y * Ranks \in Nat /\ k * Ranks \in Nat  BY <1>0
  <2>4. PICK u \in Nat, v \in Nat, w \in Nat : u = y * Ranks /\ v = k * Ranks /\ w = x * Ranks  BY <2>3
  <2>5. w = u + Ranks + v  BY <2>1, <2>2, <2>4
  <2>6. w + p # u + q  BY <1>0, <2>5
  <2> QED  BY <2>4, <2>6
<1>3. a * Ranks + r # b * Ranks + s
  <2>1. CASE a > b  BY <1>2, <2>1
  <2>2. CASE b > a
    <3>1. b * Ranks + s # a * Ranks + r  BY <1>2, <2>2
    <3> QED  BY <3>1
  <2>3. CASE a = b
    <3>1. PICK u \in Nat : u = a * Ranks  BY <1>0
    <3>2. u + r # u + s  OBVIOUS
    <3> QED  BY <2>3, <3>1, <3>2
  <2> QED  BY <2>1, <2>2, <2>3
<1> QED  BY <1>1, <1>3 DEF EncodeHlc

\* Clocks of earlier readings are older.
LEMMA EarlierReadings ==
  ASSUME NEW m \in Nat, NEW c \in 0 .. Counters - 1, NEW n \in Nat, NEW e \in 0 .. Counters - 1,
         NEW r \in 0 .. Ranks - 1, EncodeHlc(n, e, r) <= EncodeHlc(m, c, r)
  PROVE  n <= m
<1>1. SUFFICES ASSUME n > m PROVE FALSE  OBVIOUS
<1>2. EncodeHlc(n, e, r) > EncodeHlc(m, c, r)  BY <1>1, EncodedOrder
<1>3. \A j \in Nat, k \in 0 .. Counters - 1 : EncodeHlc(j, k, r) \in Nat
  BY RegistryRowAssumption DEF EncodeHlc
<1>4. PICK x \in Nat, y \in Nat : x = EncodeHlc(n, e, r) /\ y = EncodeHlc(m, c, r)  BY <1>3
<1>5. x > y /\ x <= y  BY <1>2, <1>4
<1> QED  BY <1>5

\* A stamp is a clock no write had.
LEMMA StampIsUnused ==
  ASSUME NEW L, Shapes(L), NEW d \in Devices, NEW now \in Nat, now >= wall[d],
         NEW e \in Devices, NEW c, Used(e, c)
  PROVE  c # StampOf(d, now)
<1>0. /\ doc[d] \in Docs(d, L) /\ wall[d] \in Nat
      /\ Rank[d] \in 0 .. Ranks - 1 /\ Rank[e] \in 0 .. Ranks - 1 /\ (d # e => Rank[d] # Rank[e])
  BY RegistrySyncAssumption DEF Shapes, DocShapes, ClockShapes
<1>1. PICK t : t = Tick(doc[d], now)  OBVIOUS
<1>2. /\ t \in Docs(d, L) /\ t.clock.ms >= now /\ Now(d, t) > Now(d, doc[d])
      /\ Now(d, t) \in Nat /\ Now(d, doc[d]) \in Nat
  BY <1>0, <1>1, TickFacts
<1>3. t.clock.ms \in Nat /\ t.clock.counter \in 0 .. Counters - 1
  BY <1>2, DocParts DEF Clocks
<1>4. StampOf(d, now) = EncodeHlc(t.clock.ms, t.clock.counter, Rank[d]) /\ StampOf(d, now) = Now(d, t)
  BY <1>1 DEF StampOf, Now
<1>5. PICK ms \in Nat, k \in 0 .. Counters - 1 :
        c = EncodeHlc(ms, k, Rank[e]) /\ (ms < wall[e] \/ c <= Now(e, doc[e]))
  BY DEF Used
<1>6. CASE e # d  BY <1>0, <1>3, <1>4, <1>5, <1>6, ClocksHaveOwners
<1>7. CASE e = d /\ c <= Now(d, doc[d])
  <2>1. SUFFICES ASSUME c = Now(d, t) PROVE FALSE  BY <1>4
  <2> QED  BY <1>2, <1>7, <2>1
<1>8. CASE e = d /\ ms < wall[d]
  <2>1. SUFFICES ASSUME c = StampOf(d, now) PROVE FALSE  OBVIOUS
  <2>2. c \in Nat  BY <1>2, <1>4, <2>1
  <2>3. t.clock.ms <= ms
    <3>1. EncodeHlc(t.clock.ms, t.clock.counter, Rank[d]) <= EncodeHlc(ms, k, Rank[d])
      BY <1>4, <1>5, <1>8, <2>1, <2>2
    <3> QED  BY <1>0, <1>3, <3>1, EarlierReadings
  <2> QED  BY <1>0, <1>2, <1>3, <1>8, <2>3
<1> QED  BY <1>5, <1>6, <1>7, <1>8

\* More writes make more rows and operations.
LEMMA ShapesGrow ==
  ASSUME NEW L, NEW M, L \subseteq M, NoClears(M), Shapes(L)
  PROVE  Shapes(M)
<1>1. NoClears(L)  BY DEF NoClears
<1>2. \A row : row \in Rows(L) => row \in Rows(M)
  <2>1. SUFFICES ASSUME NEW row \in Rows(L) PROVE row \in Rows(M)  OBVIOUS
  <2>2. row \in Row /\ Shaped(row) /\ Made(row, L)  BY DEF Rows
  <2>3. Made(row, M)  BY <1>1, <2>2 DEF Made
  <2> QED  BY <2>2, <2>3 DEF Rows
<1>3. \A op : op \in Ops(L) => op \in Ops(M)
  <2>1. SUFFICES ASSUME NEW op \in Ops(L) PROVE op \in Ops(M)  OBVIOUS
  <2> QED  BY <1>1 DEF Ops
<1>4. Seq(Ops(L)) \subseteq Seq(Ops(M))  BY <1>3
<1>5. PartRows(L) \subseteq PartRows(M)
  <2>1. SUFFICES ASSUME NEW p \in PartRows(L) PROVE p \in PartRows(M)  OBVIOUS
  <2>2. PICK J \in SUBSET Ids : p \in [J -> Rows(L)]  BY DEF PartRows
  <2>3. p \in [J -> Rows(M)]  BY <1>2, <2>2
  <2> QED  BY <2>3 DEF PartRows
<1>6. /\ RowsFrames(L) \subseteq RowsFrames(M) /\ StateFrames(L) \subseteq StateFrames(M)
      /\ Pushes(L) \subseteq Pushes(M) /\ Batches(L) \subseteq Batches(M)
  <2>1. RowsFrames(L) \subseteq RowsFrames(M)  BY <1>5 DEF RowsFrames
  <2>2. StateFrames(L) \subseteq StateFrames(M)  BY <1>5 DEF StateFrames
  <2>3. Pushes(L) \subseteq Pushes(M)  BY <1>4 DEF Pushes
  <2>4. Batches(L) \subseteq Batches(M)  BY <1>4 DEF Batches
  <2> QED  BY <2>1, <2>2, <2>3, <2>4
<1>7. DownFrames(L) \subseteq DownFrames(M) /\ UpFrames(L) \subseteq UpFrames(M)
      /\ InHand(L) \subseteq InHand(M)
  BY <1>6 DEF DownFrames, UpFrames, InHand
<1>8. /\ Seq(DownFrames(L)) \subseteq Seq(DownFrames(M)) /\ Seq(UpFrames(L)) \subseteq Seq(UpFrames(M))
      /\ Seq(RowsFrames(L)) \subseteq Seq(RowsFrames(M)) /\ Seq(Pushes(L)) \subseteq Seq(Pushes(M))
      /\ Seq(Batches(L)) \subseteq Seq(Batches(M))
  BY <1>6, <1>7
<1>9. Sockets(L) \subseteq Sockets(M)  BY <1>8 DEF Sockets
<1>10. Tables(L) \subseteq Tables(M)
  <2>1. SUFFICES ASSUME NEW t \in Tables(L) PROVE t \in Tables(M)  OBVIOUS
  <2>2. t \in [rows : [Ids -> Rows(L)], seq : Nat] /\ \A i \in Ids : t.rows[i].seq <= t.seq  BY DEF Tables
  <2>3. t \in [rows : [Ids -> Rows(M)], seq : Nat]  BY <1>2, <2>2
  <2> QED  BY <2>2, <2>3 DEF Tables
<1>11. ASSUME NEW d PROVE Docs(d, L) \subseteq Docs(d, M)
  <2>1. SUFFICES ASSUME NEW dc \in Docs(d, L) PROVE dc \in Docs(d, M)  OBVIOUS
  <2>2. dc \in DocRecords(L) /\ Named(d, dc)  BY DEF Docs
  <2>3. SUBSET Ops(L) \subseteq SUBSET Ops(M) /\ [Ids -> Rows(L)] \subseteq [Ids -> Rows(M)]
    BY <1>2, <1>3
  <2>4. dc \in DocRecords(M)  BY <1>8, <2>2, <2>3 DEF DocRecords
  <2> QED  BY <2>2, <2>4 DEF Docs
<1>12. RoomShapes(M)
  <2>1. RoomShapes(L)  BY DEF Shapes
  <2>2. \A e \in Devices : sock[e] \in Sockets(M) /\ stale[e] \in Seq(Pushes(M))
    BY <1>8, <1>9, <2>1 DEF RoomShapes
  <2> QED  BY <1>7, <1>10, <2>1, <2>2 DEF RoomShapes
<1>13. DocShapes(M)
  <2>1. DocShapes(L)  BY DEF Shapes
  <2>2. ASSUME NEW d \in Devices PROVE doc[d] \in Docs(d, M) /\ saved[d] \in SavedDocs(d, M)
    <3>1. doc[d] \in Docs(d, L) /\ saved[d] \in SavedDocs(d, L)  BY <2>1 DEF DocShapes
    <3>2. saved[d] \in [doc : Docs(d, L), owing : BOOLEAN] /\ Landing(saved[d].doc)  BY <3>1 DEF SavedDocs
    <3>3. saved[d] \in [doc : Docs(d, M), owing : BOOLEAN]  BY <1>11, <3>2
    <3> QED  BY <1>11, <3>1, <3>2, <3>3 DEF SavedDocs
  <2> QED  BY <2>1, <2>2 DEF DocShapes
<1> QED  BY <1>12, <1>13 DEF Shapes

\* As long as no wall clock is set back and no replica's clock goes back, a used clock
\* stays used.
LEMMA ClocksStayUsed ==
  ASSUME NEW L, Shapes(L), Shapes(L)', NEW d \in Devices, NEW c, Used(d, c),
         wall'[d] = wall[d], Now(d, doc'[d]) >= Now(d, doc[d])
  PROVE  Used(d, c)'
<1>1. doc[d] \in Docs(d, L) /\ doc'[d] \in Docs(d, L)  BY DEF Shapes, DocShapes
<1>2. Now(d, doc[d]) \in Nat /\ Now(d, doc'[d]) \in Nat  BY <1>1, QueueParts
<1>3. PICK ms \in Nat, k \in 0 .. Counters - 1 :
        c = EncodeHlc(ms, k, Rank[d]) /\ (ms < wall[d] \/ c <= Now(d, doc[d]))
  BY DEF Used
<1>4. c \in Nat
  <2>1. Rank[d] \in Nat /\ Counters \in Nat /\ Ranks \in Nat
    BY RegistrySyncAssumption, RegistryRowAssumption
  <2> QED  BY <1>3, <2>1 DEF EncodeHlc
<1>5. ms < wall'[d] \/ c <= Now(d, doc'[d])  BY <1>2, <1>3, <1>4
<1> QED  BY <1>3, <1>5 DEF Used

\* A step that writes nothing keeps every delivery.
LEMMA SteadyStep ==
  ASSUME NEW L, Sound(L), Shapes(L)', \A d \in Devices : Delivery(d), Steady(L), wall' = wall
  PROVE  Sound(L)' /\ \A d \in Devices : Delivery(d)'
<1>1. Shapes(L)  BY DEF Sound
<1>2. \A d \in Devices : Delivery(d)'  BY <1>1, DeliveryGoes DEF Steady
<1>3. \A d \in Devices : Now(d, doc'[d]) >= Now(d, doc[d])  BY DEF Steady, Goes
<1>4. \A p \in L : \E d \in Devices : Used(d, p[1])'  BY <1>1, <1>3, ClocksStayUsed DEF Sound
<1> QED  BY <1>2, <1>4 DEF Sound

\* A replica is saved, and its clock with it.
LEMMA SaveSnapshotStep ==
  ASSUME NEW L, Sound(L), Shapes(L)', CopiesAreOlder, epoch = 0, \A d \in Devices : Delivery(d),
         NEW d \in Devices, NEW now \in Nat, SaveSnapshot(d, now)
  PROVE  Sound(L)' /\ \A e \in Devices : Delivery(e)'
<1>0. Shapes(L) /\ L \subseteq Pairs /\ OneValue(L) /\ NoClears(L)  BY DEF Sound
<1>1. \A e \in Devices : Delivery(e)'  BY <1>0, SaveSnapshotDelivers
<1>2. ASSUME NEW e \in Devices PROVE Now(e, doc'[e]) >= Now(e, doc[e])
  <2>0. DocShapes(L) /\ DOMAIN doc = Devices /\ doc[e] \in Docs(e, L)  BY <1>0 DEF Shapes, DocShapes
  <2>1. PICK c, k : Snapshot(L, d, c, k)  BY <1>0, <2>0, SaveSnapshotEffect
  <2>2. CompactedTo(L, d, doc[d], c) /\ Redoc(L, d, c)  BY <2>1 DEF Snapshot
  <2>3. doc'[d] = c /\ \A x \in Devices : x # d => doc'[x] = doc[x]  BY <2>0, <2>2, RedocFacts
  <2>4. Now(e, doc[e]) \in Nat  BY <2>0, QueueParts
  <2>5. CASE e = d  BY <2>2, <2>3, <2>5 DEF CompactedTo
  <2>6. CASE e # d
    <3>1. Now(e, doc'[e]) = Now(e, doc[e])  BY <2>3, <2>6
    <3> QED  BY <2>4, <3>1
  <2> QED  BY <2>5, <2>6
<1>3. wall' = wall  BY DEF SaveSnapshot, historyVars
<1>4. \A p \in L : \E e \in Devices : Used(e, p[1])'  BY <1>0, <1>2, <1>3, ClocksStayUsed DEF Sound
<1> QED  BY <1>1, <1>4 DEF Sound

\* A process starts after every reading its replica's clock had.
LEMMA CrashStep ==
  ASSUME "regress" \notin FaultKinds, NEW L, Sound(L), Shapes(L)', CopiesAreOlder, epoch = 0,
         \A d \in Devices : Delivery(d), NEW d \in Devices, NEW now \in Nat, Crash(d, now)
  PROVE  Sound(L)' /\ \A e \in Devices : Delivery(e)'
<1>0. /\ Shapes(L) /\ L \subseteq Pairs /\ OneValue(L) /\ NoClears(L)
      /\ DocShapes(L) /\ DOMAIN doc = Devices /\ doc[d] \in Docs(d, L) /\ wall \in [Devices -> Nat]
  BY DEF Sound, Shapes, DocShapes, ClockShapes
<1>1. \A e \in Devices : Delivery(e)'  BY <1>0, CrashDelivers
<1>2. doc[d].clock.ms \in Nat /\ doc[d].clock.counter \in 0 .. Counters - 1 /\ wall[d] \in Nat
  BY <1>0, DocParts DEF Clocks
<1>3. /\ wall'[d] = Greater(wall[d], doc[d].clock.ms + 1)
      /\ \A e \in Devices : e # d => wall'[e] = wall[e]
  BY <1>0 DEF Crash
<1>4. wall'[d] >= wall[d] /\ wall'[d] > doc[d].clock.ms  BY <1>2, <1>3 DEF Greater
<1>5. ASSUME NEW c, Used(d, c) PROVE Used(d, c)'
  <2>1. PICK ms \in Nat, k \in 0 .. Counters - 1 :
          c = EncodeHlc(ms, k, Rank[d]) /\ (ms < wall[d] \/ c <= Now(d, doc[d]))
    BY <1>5 DEF Used
  <2>2. wall'[d] \in Nat  BY <1>2, <1>3 DEF Greater
  <2>3. ms < wall'[d]
    <3>1. CASE ms < wall[d]  BY <1>2, <1>4, <2>2, <3>1
    <3>2. CASE c <= Now(d, doc[d])
      <4>1. Rank[d] \in 0 .. Ranks - 1  BY RegistrySyncAssumption
      <4>2. EncodeHlc(ms, k, Rank[d]) <= EncodeHlc(doc[d].clock.ms, doc[d].clock.counter, Rank[d])
        BY <2>1, <3>2 DEF Now
      <4>3. ms <= doc[d].clock.ms  BY <1>2, <4>1, <4>2, EarlierReadings
      <4> QED  BY <1>2, <1>4, <2>2, <4>3
    <3> QED  BY <2>1, <3>1, <3>2
  <2> QED  BY <2>1, <2>3 DEF Used
<1>6. ASSUME NEW e \in Devices, e # d, NEW c, Used(e, c) PROVE Used(e, c)'
  <2>1. PICK cc, k : Restored(L, d, cc, k)  BY <1>0, CrashEffect
  <2>2. Redoc(L, d, cc)  BY <2>1 DEF Restored
  <2>3. doc'[e] = doc[e]  BY <1>0, <1>6, <2>2, RedocFacts
  <2>4. wall'[e] = wall[e]  BY <1>3, <1>6
  <2> QED  BY <1>6, <2>3, <2>4 DEF Used
<1>7. \A p \in L : \E e \in Devices : Used(e, p[1])'  BY <1>5, <1>6 DEF Sound
<1> QED  BY <1>0, <1>1, <1>7 DEF Sound

\* What stands still holds.
LEMMA RestHolds ==
  ASSUME NEW L, Sound(L), \A d \in Devices : Delivery(d), AtRest
  PROVE  Sound(L)' /\ \A d \in Devices : Delivery(d)'
<1>1. Shapes(L)'  BY RestKeepsShapes DEF Sound
<1>2. UNCHANGED <<server, sock, publishing, doc, saved, wall>>  BY DEF AtRest
<1>3. \A p \in L : \E d \in Devices : Used(d, p[1])'  BY <1>2 DEF Sound, Used
<1>4. Sound(L)'  BY <1>1, <1>3 DEF Sound
<1>5. ASSUME NEW d \in Devices PROVE Delivery(d)'
  <2>1. Acked(d)' = Acked(d) /\ Ups(d)' = Ups(d)  BY <1>2 DEF Acked, Ups
  <2>2. NamesOf(d)'  BY <1>2, <2>1 DEF Delivery, NamesOf
  <2>3. WritesSafe(server'.rows, doc'[d], Acked(d)') /\ WritesSafe(server'.rows, saved'[d].doc, {})
    BY <1>2, <2>1 DEF Delivery
  <2> QED  BY <2>2, <2>3 DEF Delivery
<1> QED  BY <1>4, <1>5

\* Every step but a write.
LEMMA QuietStepHolds ==
  ASSUME "regress" \notin FaultKinds, NEW L, Sound(L), CopiesAreOlder, epoch = 0, epoch' = 0,
         \A d \in Devices : Delivery(d), Next, ~ Writing
  PROVE  Sound(L)' /\ \A d \in Devices : Delivery(d)'
<1>0. Shapes(L) /\ L \subseteq Pairs /\ OneValue(L) /\ ClockShapes  BY DEF Sound, Shapes
<1>1. Shapes(L)'  BY <1>0, QuietStepKeepsShapes
<1>2. ASSUME NEW d \in Devices, Serve(d) \/ Dial(d) \/ SkipFrame(d) \/ PushPending(d) \/ Cut(d)
      PROVE  Sound(L)' /\ \A e \in Devices : Delivery(e)'
  <2>1. Steady(L)  BY <1>0, <1>2, ServeGoes, DialGoes, SkipFrameGoes, PushPendingGoes, CutGoes
  <2>2. wall' = wall  BY <1>2 DEF Serve, Dial, SkipFrame, PushPending, Cut, historyVars
  <2> QED  BY <1>1, <2>1, <2>2, SteadyStep
<1>3. ASSUME NEW p \in publishing, Publish(p) PROVE Sound(L)' /\ \A e \in Devices : Delivery(e)'
  <2>1. Steady(L)  BY <1>0, <1>3, PublishGoes
  <2>2. wall' = wall  BY <1>3 DEF Publish
  <2> QED  BY <1>1, <2>1, <2>2, SteadyStep
<1>4. ASSUME NEW d \in Devices, NEW now \in Readings(d),
             \/ ReceiveState(d, now) \/ ReceiveFrame(d, now)
             \/ SaveSnapshot(d, now) \/ Crash(d, now)
      PROVE  Sound(L)' /\ \A e \in Devices : Delivery(e)'
  <2>1. now \in Nat  BY <1>0, ReadingsAreNat
  <2>2. CASE ReceiveState(d, now)
    <3>1. Steady(L)  BY <1>0, <2>1, <2>2, ReceiveStateGoes
    <3>2. wall' = wall  BY <2>2 DEF ReceiveState
    <3> QED  BY <1>1, <3>1, <3>2, SteadyStep
  <2>3. CASE ReceiveFrame(d, now)
    <3>1. Steady(L)  BY <1>0, <2>1, <2>3, ReceiveFrameGoes
    <3>2. wall' = wall  BY <2>3 DEF ReceiveFrame, historyVars
    <3> QED  BY <1>1, <3>1, <3>2, SteadyStep
  <2>4. CASE SaveSnapshot(d, now)  BY <1>1, <2>1, <2>4, SaveSnapshotStep
  <2>5. CASE Crash(d, now)  BY <1>1, <2>1, <2>5, CrashStep
  <2> QED  BY <1>4, <2>2, <2>3, <2>4, <2>5
<1>5. ASSUME NEW kind \in {"restart", "wipe"}, Restart(kind)
      PROVE  Sound(L)' /\ \A e \in Devices : Delivery(e)'
  <2>1. Steady(L)  BY <1>0, <1>5, RestartGoes
  <2>2. wall' = wall  BY <1>5 DEF Restart
  <2> QED  BY <1>1, <2>1, <2>2, SteadyStep
<1>6. ASSUME NEW d \in Devices, FillSlot(d) PROVE Sound(L)' /\ \A e \in Devices : Delivery(e)'
  BY <1>6, RestingIsRest, RestHolds DEF Resting
<1> QED  BY <1>2, <1>3, <1>4, <1>5, <1>6 DEF Next, Writing

\* A local write has a clock that no write had.
LEMMA LocalWriteHolds ==
  ASSUME "clear" \notin Kinds, NEW L, Sound(L), \A e \in Devices : Delivery(e),
         NEW d \in Devices, NEW now \in Readings(d), NEW kind \in Kinds,
         NEW ids \in (SUBSET Ids) \ {{}}, NEW F \in (SUBSET Fields) \ {{}},
         LocalWrite(d, now, kind, ids, F)
  PROVE  WritesHold'
<1>0. /\ Shapes(L) /\ L \subseteq Pairs /\ OneValue(L) /\ NoClears(L) /\ DocShapes(L) /\ ClockShapes
      /\ DOMAIN doc = Devices /\ doc[d] \in Docs(d, L) /\ writes[d] \in Nat
  BY DEF Sound, Shapes, DocShapes, ClockShapes
<1>1. now \in Nat /\ now >= wall[d]  BY <1>0, ReadingsAreNat
<1>2. PICK p : p = PairOf(d, now, kind)  OBVIOUS
<1>3. p \in Pairs  BY <1>0, <1>1, <1>2, StampIsAClock
<1>4. p[1] = StampOf(d, now) /\ p[2] # 0
  <2>1. kind # "clear"  OBVIOUS
  <2>2. p = <<StampOf(d, now), NameOf(d)>>  BY <1>2, <2>1 DEF PairOf
  <2>3. NameOf(d) # 0
    <3>1. Rank[d] \in Nat /\ Ranks \in Nat  BY RegistrySyncAssumption, RegistryRowAssumption
    <3>2. writes[d] * Ranks \in Nat  BY <1>0, <3>1
    <3> QED  BY <3>1, <3>2 DEF NameOf
  <2> QED  BY <2>2, <2>3
<1>5. PICK M : M = L \cup {p}  OBVIOUS
<1>6. M \subseteq Pairs /\ NoClears(M) /\ p \in M  BY <1>0, <1>3, <1>4, <1>5 DEF NoClears
<1>7. OneValue(M)
  <2>1. \A q \in L : q[1] # p[1]
    <3>1. ASSUME NEW q \in L PROVE q[1] # p[1]
      <4>1. PICK e \in Devices : Used(e, q[1])  BY DEF Sound
      <4> QED  BY <1>0, <1>1, <1>4, <4>1, StampIsUnused
    <3> QED  BY <3>1
  <2> QED  BY <1>0, <1>5, <2>1 DEF OneValue
<1>8. Shapes(M)  BY <1>0, <1>5, <1>6, ShapesGrow
<1>9. Shapes(M)'  BY <1>1, <1>2, <1>6, <1>8, LocalWriteKeepsShapes
<1>10. \A e \in Devices : Delivery(e)'  BY <1>1, <1>2, <1>6, <1>8, <1>9, LocalWriteDelivers
<1>11. /\ Now(d, doc'[d]) >= StampOf(d, now) /\ Now(d, doc'[d]) >= Now(d, doc[d])
       /\ \A x \in Devices : x # d => doc'[x] = doc[x]
  <2>0. doc[d] \in Docs(d, M)  BY <1>8 DEF Shapes, DocShapes
  <2>1. PICK e, b : Written(M, d, now, e, b)
    BY <1>0, <1>1, <1>2, <1>6, <2>0, LocalWriteEffect DEF PairOf
  <2>2. Redoc(M, d, e) /\ Now(d, e) >= StampOf(d, now) /\ StampOf(d, now) > Now(d, doc[d])
    BY <2>1 DEF Written
  <2>3. doc'[d] = e /\ \A x \in Devices : x # d => doc'[x] = doc[x]
    <3>1. DOMAIN doc = Devices /\ Redoc(M, d, e)  BY <1>0, <2>2
    <3> HIDE <1>0, <2>2
    <3> QED  BY <3>1, RedocFacts
  <2>4. StampOf(d, now) \in Nat /\ Now(d, doc[d]) \in Nat  BY <1>0, <1>1, TickFacts DEF StampOf
  <2>5. e \in Docs(d, M)  BY <2>2 DEF Redoc
  <2>6. Now(d, e) \in Nat  BY <2>5, QueueParts
  <2> QED  BY <2>2, <2>3, <2>4, <2>6
<1>12. wall' = wall  BY DEF LocalWrite
<1>13. \A q \in L : \E e \in Devices : Used(e, q[1])'
  <2>1. ASSUME NEW e \in Devices PROVE Now(e, doc'[e]) >= Now(e, doc[e])
    <3>1. CASE e = d  BY <1>11, <3>1
    <3>2. CASE e # d
      <4>1. doc[e] \in Docs(e, M)  BY <1>8 DEF Shapes, DocShapes
      <4>2. Now(e, doc[e]) \in Nat  BY <4>1, QueueParts
      <4>3. Now(e, doc'[e]) = Now(e, doc[e])  BY <1>11, <3>2
      <4> QED  BY <4>2, <4>3
    <3> QED  BY <3>1, <3>2
  <2> QED  BY <1>8, <1>9, <1>12, <2>1, ClocksStayUsed DEF Sound
<1>14. Used(d, p[1])'
  <2>1. PICK t : t = Tick(doc[d], now)  OBVIOUS
  <2>2. t \in Docs(d, L)  BY <1>0, <1>1, <2>1, TickFacts
  <2>3. t.clock.ms \in Nat /\ t.clock.counter \in 0 .. Counters - 1  BY <2>2, DocParts DEF Clocks
  <2>4. StampOf(d, now) = EncodeHlc(t.clock.ms, t.clock.counter, Rank[d])  BY <2>1 DEF StampOf, Now
  <2>5. StampOf(d, now) \in Nat /\ Now(d, doc'[d]) \in Nat
    <3>1. doc'[d] \in Docs(d, M)  BY <1>9 DEF Shapes, DocShapes
    <3>2. StampOf(d, now) \in Nat  BY <1>0, <1>1, TickFacts DEF StampOf
    <3> QED  BY <3>1, <3>2, QueueParts
  <2>6. StampOf(d, now) <= Now(d, doc'[d])  BY <1>11, <2>5
  <2> QED  BY <1>4, <2>3, <2>4, <2>6 DEF Used
<1>15. \A q \in M : \E e \in Devices : Used(e, q[1])'  BY <1>5, <1>13, <1>14
<1>16. Sound(M)'  BY <1>6, <1>7, <1>9, <1>15 DEF Sound
<1> QED  BY <1>10, <1>16 DEF WritesHold

\* Nothing is written at first.
LEMMA WritesHoldAtFirst ==
  ASSUME Init
  PROVE  WritesHold
<1>1. Shapes({})  BY ShapesStart
<1>2. Sound({})  BY <1>1 DEF Sound, OneValue, NoClears
<1>3. ASSUME NEW d \in Devices PROVE Delivery(d)
  <2>1. doc[d] = NewDoc /\ saved[d].doc = NewDoc /\ sock[d] = NoSocket /\ publishing = {}
    BY DEF Init, RoomInit
  <2>2. NewDoc.pending = <<>> /\ NewDoc.written = {}  BY DEF NewDoc
  <2>3. Acked(d) = {} /\ Ups(d) = {}
    <3>1. ToSet(sock[d].down) = {} /\ ToSet(sock[d].up) = {}  BY <2>1 DEF NoSocket, ToSet
    <3> QED  BY <2>1, <3>1 DEF Acked, Ups
  <2>4. NamesOf(d)  BY <2>3 DEF NamesOf
  <2>5. \A A : WritesSafe(server.rows, NewDoc, A)
    <3>1. OpsOf(NewDoc.pending) = {}  BY <2>2 DEF OpsOf
    <3> QED  BY <2>2, <3>1 DEF WritesSafe
  <2> QED  BY <2>1, <2>4, <2>5 DEF Delivery
<1> QED  BY <1>2, <1>3 DEF WritesHold

\* What is safe is taken in once the queue is pushed.
LEMMA SafeIsKept ==
  ASSUME WritesHold, NEW d \in Devices, NEW op \in doc[d].written
  PROVE  \/ Overruled(doc[d], op)
         \/ Absorbed(ApplyOps(server.rows[op.id], PendingOps(doc[d], op.id)), op)
<1>1. PICK L : Sound(L) /\ \A e \in Devices : Delivery(e)  BY DEF WritesHold
<1>2. OneValue(L) /\ doc[d] \in Docs(d, L) /\ server \in Tables(L)
  BY <1>1 DEF Sound, Shapes, DocShapes, RoomShapes
<1>3. op \in Ops(L) /\ op.id \in Ids
  <2>1. op \in Ops(L)  BY <1>2, QueueParts
  <2> QED  BY <2>1, OpParts
<1>4. Safe(server.rows, doc[d], Acked(d), op)  BY <1>1 DEF Delivery, WritesSafe
<1>5. PICK row \in Rows(L), own \in Seq(Ops(L)) :
        row = server.rows[op.id] /\ own = PendingOps(doc[d], op.id)
  BY <1>2, <1>3, PendingOpsFacts DEF Tables
<1>6. CASE Absorbed(row, op) \/ \E p \in ToSet(own) : Covers(p, op)
  BY <1>2, <1>3, <1>5, <1>6, AppliedTakesIn
<1>7. ASSUME NEW n \in DOMAIN doc[d].pending, NEW p \in ToSet(doc[d].pending[n].ops), Covers(p, op)
      PROVE  p \in ToSet(own)
  <2>1. p \in OpsOf(doc[d].pending) /\ p.id = op.id  BY <1>7 DEF OpsOf, Covers
  <2> QED  BY <1>2, <1>5, <2>1, PendingOpsFacts
<1> QED  BY <1>4, <1>5, <1>6, <1>7 DEF Safe

\* No write is lost on its way, whatever is cut off, crashes, is saved, compacted, merged
\* or broadcast: until a table is lost, what a device remembers to have issued the
\* server's row has taken in, or takes in once the device's queue is pushed, or the
\* device's own later delete overrules it.  It takes that no field is cleared, which a
\* compacted queue cannot say, and that no process starts on a wall clock set back.
THEOREM WritesAreKept ==
  ASSUME "clear" \notin Kinds, "regress" \notin FaultKinds
  PROVE  Spec => []WriteIsKept
<1> DEFINE Inv == epoch = 0 => WritesHold
<1>1. Init => Inv  BY WritesHoldAtFirst
<1>2. Shapes(Pairs) /\ CopiesAreOlder /\ Inv /\ [Next]_vars => Inv'
  <2> SUFFICES ASSUME Shapes(Pairs), CopiesAreOlder, Inv, [Next]_vars, epoch' = 0 PROVE WritesHold'
    OBVIOUS
  <2>1. epoch = 0  BY HistoryStays
  <2>2. PICK L : Sound(L) /\ \A d \in Devices : Delivery(d)  BY <2>1 DEF WritesHold
  <2>3. CASE UNCHANGED vars
    <3>1. Sound(L)' /\ \A d \in Devices : Delivery(d)'  BY <2>2, <2>3, RestingIsRest, RestHolds DEF Resting
    <3> QED  BY <3>1 DEF WritesHold
  <2>4. CASE Next /\ ~ Writing
    <3>1. Sound(L)' /\ \A d \in Devices : Delivery(d)'  BY <2>1, <2>2, <2>4, QuietStepHolds
    <3> QED  BY <3>1 DEF WritesHold
  <2>5. CASE Writing
    <3>1. PICK d \in Devices : \E now \in Readings(d) : \E kind \in Kinds :
            \E ids \in (SUBSET Ids) \ {{}} : \E F \in (SUBSET Fields) \ {{}} :
              LocalWrite(d, now, kind, ids, F)
      BY <2>5 DEF Writing
    <3>2. PICK now \in Readings(d), kind \in Kinds : \E ids \in (SUBSET Ids) \ {{}} :
            \E F \in (SUBSET Fields) \ {{}} : LocalWrite(d, now, kind, ids, F)
      BY <3>1
    <3> QED  BY <2>2, <3>2, LocalWriteHolds
  <2> QED  BY <2>3, <2>4, <2>5
<1>3. Inv => WriteIsKept  BY SafeIsKept DEF WriteIsKept
<1> HIDE DEF Inv
<1> QED  BY <1>1, <1>2, <1>3, ShapesAlways, CopiesAlwaysOlder, PTL DEF Spec

===============================================================================
