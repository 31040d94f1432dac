---------------------------- MODULE ChatSyncProofs ---------------------------
(***************************************************************************)
(* chat2 sync, for every set of devices and for every bound: the log of    *)
(* the room first, then the rooms and clients around it.                   *)
(*                                                                         *)
(* Shapes(M) says what the state is made of, M being the operations there  *)
(* are.  Every step but a commit keeps Shapes(M), a commit adds its own    *)
(* operation to M.  With all operations for M it is a type invariant; with *)
(* those committed so far it says that nobody knows of an operation before *)
(* it is made.                                                             *)
(*                                                                         *)
(* What a sequence holds matters here, its order does not: a queue, a      *)
(* socket's frames and the pushes of dead sockets are looked at as sets.   *)
(***************************************************************************)
EXTENDS ChatSync, SequenceLemmas, TLAPS

-----------------------------------------------------------------------------
(* The log: its types, the shape of its table, and the refinement of TrimmedLog *)

\* One transaction of the log: what a step of LogNext does.
LEMMA AppendKeepsTypes ==
  ASSUME LogTypeOK, NEW d \in Devices, NEW b \in BatchIds, NEW p \in Payload,
         AppendRow(d, b, p)
  PROVE  LogTypeOK'
<1> DEFINE row == [device |-> d, batch |-> b, ops |-> p]
<1>1. row \in Row
  BY DEF Row
<1>2. /\ headSeq' = headSeq + 1
      /\ headSeq' \in Nat
      /\ seqFloor' \in Nat
      /\ checkpoint' \in Checkpoint
  BY DEF AppendRow, LogTypeOK
<1>3. rows' = [s \in DOMAIN rows \cup {headSeq + 1} |->
                 IF s = headSeq + 1 THEN row ELSE rows[s]]
  BY DEF AppendRow
<1>4. rows' \in [DOMAIN rows' -> Row]
  BY <1>1, <1>3 DEF LogTypeOK
<1>5. accepted' = [s \in 1 .. headSeq + 1 |->
                     IF s = headSeq + 1 THEN row ELSE accepted[s]]
  BY DEF AppendRow
<1>6. accepted' \in [1 .. headSeq' -> Row]
  BY <1>1, <1>2, <1>5 DEF LogTypeOK
<1>7. QED
  BY <1>2, <1>4, <1>6 DEF LogTypeOK

LEMMA CommitKeepsTypes ==
  ASSUME LogTypeOK, NEW n \in 0 .. MaxSeq, NEW p \in Payload, NEW f \in Payload,
         CommitCheckpoint(n, p, f)
  PROVE  LogTypeOK'
<1>1. checkpoint' \in Checkpoint
  BY DEF CommitCheckpoint, Checkpoint
<1>2. rows' \in [DOMAIN rows' -> Row]
  BY DEF CommitCheckpoint, LogTypeOK
<1>3. QED
  BY <1>1, <1>2 DEF CommitCheckpoint, LogTypeOK

\* The tables keep their types through appends and checkpoints.
THEOREM TypeCorrect == LogSpec => []LogTypeOK
<1>1. LogInit => LogTypeOK
  BY DEF LogInit, LogTypeOK, NoCheckpoint, Checkpoint, Payload, Row
<1>2. LogTypeOK /\ [LogNext]_logVars => LogTypeOK'
  <2> SUFFICES ASSUME LogTypeOK, [LogNext]_logVars PROVE LogTypeOK'
    OBVIOUS
  <2>1. CASE \E d \in Devices, b \in BatchIds, p \in Payload : AppendRow(d, b, p)
    BY <2>1, AppendKeepsTypes
  <2>2. CASE \E n \in 0 .. MaxSeq, p, f \in Payload : CommitCheckpoint(n, p, f)
    BY <2>2, CommitKeepsTypes
  <2>3. CASE UNCHANGED logVars
    BY <2>3 DEF LogTypeOK, logVars
  <2>4. QED
    BY <2>1, <2>2, <2>3 DEF LogNext
<1>3. QED
  BY <1>1, <1>2, PTL DEF LogSpec
-----------------------------------------------------------------------------
(***************************************************************************)
(* The inductive invariant.  LogIsSuffix is what makes the others          *)
(* inductive: an append writes a sequence number no live row has, because  *)
(* the live rows end at the head.                                          *)
(***************************************************************************)

LogInv == LogTypeOK /\ LogIsSuffix /\ RowsAreHistory /\ BatchIsUnique /\ PrunedIsCovered

LEMMA AppendKeepsInv ==
  ASSUME LogInv, NEW d \in Devices, NEW b \in BatchIds, NEW p \in Payload,
         AppendRow(d, b, p)
  PROVE  LogInv'
<1> DEFINE row == [device |-> d, batch |-> b, ops |-> p]
<1>1. /\ headSeq' = headSeq + 1
      /\ seqFloor' = seqFloor
      /\ checkpoint' = checkpoint
      /\ rows' = [s \in DOMAIN rows \cup {headSeq + 1} |->
                    IF s = headSeq + 1 THEN row ELSE rows[s]]
      /\ accepted' = [s \in 1 .. headSeq + 1 |->
                        IF s = headSeq + 1 THEN row ELSE accepted[s]]
  BY DEF AppendRow
<1>2. /\ headSeq \in Nat
      /\ seqFloor \in Nat
      /\ DOMAIN rows = (seqFloor + 1) .. headSeq
      /\ seqFloor <= headSeq
      /\ DOMAIN accepted = 1 .. headSeq
  BY DEF LogInv, LogTypeOK, LogIsSuffix
<1>3. LogTypeOK'
  BY AppendKeepsTypes DEF LogInv
<1>4. LogIsSuffix'
  BY <1>1, <1>2 DEF LogInv, LogIsSuffix
<1>5. RowsAreHistory'
  BY <1>1, <1>2 DEF LogInv, RowsAreHistory
<1>6. BatchIsUnique'
  <2>1. \A s \in DOMAIN rows : rows[s].batch # b
    BY DEF AppendRow, IsReplay
  <2>2. ASSUME NEW s \in DOMAIN rows', NEW t \in DOMAIN rows',
               rows'[s].batch = rows'[t].batch
        PROVE  s = t
    <3>1. CASE s = headSeq + 1 /\ t # headSeq + 1
      BY <1>1, <2>1, <2>2, <3>1
    <3>2. CASE s # headSeq + 1 /\ t = headSeq + 1
      BY <1>1, <2>1, <2>2, <3>2
    <3>3. CASE s # headSeq + 1 /\ t # headSeq + 1
      BY <1>1, <2>2, <3>3 DEF LogInv, BatchIsUnique
    <3>4. QED
      BY <3>1, <3>2, <3>3
  <2>3. QED
    BY <2>2 DEF BatchIsUnique
<1>7. PrunedIsCovered'
  BY <1>1, <1>2 DEF LogInv, PrunedIsCovered
<1>8. QED
  BY <1>3, <1>4, <1>5, <1>6, <1>7 DEF LogInv

LEMMA CommitKeepsInv ==
  ASSUME LogInv, NEW n \in 0 .. MaxSeq, NEW p \in Payload, NEW f \in Payload,
         CommitCheckpoint(n, p, f)
  PROVE  LogInv'
<1>1. /\ headSeq' = headSeq
      /\ accepted' = accepted
      /\ seqFloor' = n
      /\ checkpoint'.seq = n
      /\ checkpoint'.stored
      /\ rows' = [s \in {r \in DOMAIN rows : r > n} |-> rows[s]]
      /\ seqFloor <= n
      /\ n <= headSeq
  BY DEF CommitCheckpoint, FloorRegression, AheadOfHead, LogInv, LogTypeOK
<1>2. /\ headSeq \in Nat
      /\ seqFloor \in Nat
      /\ DOMAIN rows = (seqFloor + 1) .. headSeq
  BY DEF LogInv, LogTypeOK, LogIsSuffix
<1>3. LogTypeOK'
  BY CommitKeepsTypes DEF LogInv
<1>4. LogIsSuffix'
  BY <1>1, <1>2 DEF LogIsSuffix
<1>5. RowsAreHistory'
  BY <1>1 DEF LogInv, RowsAreHistory
<1>6. BatchIsUnique'
  BY <1>1 DEF LogInv, BatchIsUnique
<1>7. PrunedIsCovered'
  BY <1>1, <1>2 DEF PrunedIsCovered
<1>8. QED
  BY <1>3, <1>4, <1>5, <1>6, <1>7 DEF LogInv

\* The log's safety: no hole, nothing rewritten, no batch stored twice among
\* the live rows, and no row pruned without a stored checkpoint above it.
THEOREM LogSafe == LogSpec => []LogInv
<1>1. LogInit => LogInv
  BY DEF LogInit, LogInv, LogTypeOK, LogIsSuffix, RowsAreHistory, BatchIsUnique,
         PrunedIsCovered, NoCheckpoint, Checkpoint, Payload, Row
<1>2. LogInv /\ [LogNext]_logVars => LogInv'
  <2> SUFFICES ASSUME LogInv, [LogNext]_logVars PROVE LogInv'
    OBVIOUS
  <2>1. CASE \E d \in Devices, b \in BatchIds, p \in Payload : AppendRow(d, b, p)
    BY <2>1, AppendKeepsInv
  <2>2. CASE \E n \in 0 .. MaxSeq, p, f \in Payload : CommitCheckpoint(n, p, f)
    BY <2>2, CommitKeepsInv
  <2>3. CASE UNCHANGED logVars
    BY <2>3 DEF LogInv, LogTypeOK, LogIsSuffix, RowsAreHistory, BatchIsUnique,
                PrunedIsCovered, logVars
  <2>4. QED
    BY <2>1, <2>2, <2>3 DEF LogNext
<1>3. QED
  BY <1>1, <1>2, PTL DEF LogSpec

\* The live rows are the suffix of the log above the checkpoint.
COROLLARY LogIsAlwaysSuffix == LogSpec => []LogIsSuffix
<1>1. LogInv => LogIsSuffix
  BY DEF LogInv
<1>2. QED
  BY <1>1, LogSafe, PTL

\* The live rows are the acknowledged ones, one to a batch, and a row leaves the table
\* only under a stored checkpoint.
COROLLARY LogIsAlwaysHonest == LogSpec => []LogIsHonest
<1>1. LogInv => LogIsHonest
  BY DEF LogInv, LogIsHonest
<1>2. QED
  BY <1>1, LogSafe, PTL

\* Head and floor are monotone in every step: the guard of commit_checkpoint
\* refuses a regression, and an append adds one.
THEOREM ForwardOnly == LogSpec => LogMovesForward
<1>1. ASSUME LogInv, NEW d \in Devices, NEW b \in BatchIds, NEW p \in Payload,
             AppendRow(d, b, p)
      PROVE  headSeq' >= headSeq /\ seqFloor' >= seqFloor
  BY <1>1 DEF LogInv, LogTypeOK, AppendRow
<1>2. ASSUME LogInv, NEW n \in 0 .. MaxSeq, NEW p \in Payload, NEW f \in Payload,
             CommitCheckpoint(n, p, f)
      PROVE  headSeq' >= headSeq /\ seqFloor' >= seqFloor
  BY <1>2 DEF LogInv, LogTypeOK, CommitCheckpoint, FloorRegression
<1>3. LogInv /\ [LogNext]_logVars
        => [headSeq' >= headSeq /\ seqFloor' >= seqFloor]_logVars
  BY <1>1, <1>2 DEF LogNext
<1>4. QED
  BY <1>3, LogSafe, PTL DEF LogSpec, LogMovesForward

-----------------------------------------------------------------------------
(***************************************************************************)
(* Refinement.  An append of the table is a Write, a committed checkpoint  *)
(* is a Forget of the prefix it covers.                                    *)
(***************************************************************************)

LEMMA AppendIsWrite ==
  ASSUME LogInv, NEW d \in Devices, NEW b \in BatchIds, NEW p \in Payload,
         AppendRow(d, b, p)
  PROVE  Promise!Next
<1> DEFINE row == [device |-> d, batch |-> b, ops |-> p]
<1>1. /\ headSeq' = headSeq + 1
      /\ rows' = [s \in DOMAIN rows \cup {headSeq + 1} |->
                    IF s = headSeq + 1 THEN row ELSE rows[s]]
  BY DEF AppendRow
<1>2. /\ headSeq \in Nat
      /\ seqFloor \in Nat
      /\ DOMAIN rows = (seqFloor + 1) .. headSeq
  BY DEF LogInv, LogTypeOK, LogIsSuffix
<1>3. row \in Row
  BY DEF Row
<1>4. ASSUME NEW s \in 1 .. headSeq, NEW f \in LogView[s]
      PROVE  BatchOf(f) # BatchOf(row)
  <2>1. s \in DOMAIN rows /\ f = rows[s]
    BY <1>4 DEF LogView
  <2>2. QED
    BY <2>1 DEF AppendRow, IsReplay, BatchOf
<1>5. LogView' = [s \in 1 .. headSeq + 1 |->
                    IF s = headSeq + 1 THEN {row} ELSE LogView[s]]
  <2>1. ASSUME NEW s \in 1 .. headSeq + 1
        PROVE  (IF s \in DOMAIN rows' THEN {rows'[s]} ELSE {})
                 = IF s = headSeq + 1 THEN {row} ELSE LogView[s]
    <3>1. CASE s = headSeq + 1
      BY <1>1, <3>1
    <3>2. CASE s # headSeq + 1
      <4>1. s \in 1 .. headSeq
        BY <1>2, <3>2
      <4>2. (s \in DOMAIN rows' <=> s \in DOMAIN rows)
              /\ (s \in DOMAIN rows => rows'[s] = rows[s])
        BY <1>1, <3>2
      <4>3. QED
        BY <3>2, <4>1, <4>2 DEF LogView
    <3>3. QED
      BY <3>1, <3>2
  <2>2. LogView' = [s \in 1 .. headSeq + 1 |->
                      IF s \in DOMAIN rows' THEN {rows'[s]} ELSE {}]
    BY <1>1 DEF LogView
  <2>3. QED
    BY <2>1, <2>2
<1>6. Promise!Write(row)
  BY <1>1, <1>4, <1>5 DEF Promise!Write
<1>7. QED
  BY <1>3, <1>6 DEF Promise!Next

LEMMA CommitIsForget ==
  ASSUME LogInv, NEW n \in 0 .. MaxSeq, NEW p \in Payload, NEW f \in Payload,
         CommitCheckpoint(n, p, f)
  PROVE  Promise!Next
<1>1. /\ headSeq' = headSeq
      /\ rows' = [s \in {r \in DOMAIN rows : r > n} |-> rows[s]]
      /\ n \in 0 .. headSeq
  BY DEF CommitCheckpoint, AheadOfHead, LogInv, LogTypeOK
<1>2. headSeq \in Nat
  BY DEF LogInv, LogTypeOK
<1>3. LogView' = [s \in 1 .. headSeq |-> IF s <= n THEN {} ELSE LogView[s]]
  BY <1>1, <1>2 DEF LogView
<1>4. Promise!Forget(n)
  BY <1>1, <1>3 DEF Promise!Forget
<1>5. QED
  BY <1>1, <1>4 DEF Promise!Next

\* The table implements the write-once, prefix-forgetting log.
THEOREM LogImplementsPromise == LogSpec => ImplementsTrimmedLog
<1>1. LogInit => Promise!Init
  BY DEF LogInit, LogView, Promise!Init
<1>2. LogInv /\ [LogNext]_logVars => [Promise!Next]_Promise!vars
  <2> SUFFICES ASSUME LogInv, [LogNext]_logVars
               PROVE  Promise!Next \/ UNCHANGED Promise!vars
    BY DEF Promise!vars
  <2>1. CASE \E d \in Devices, b \in BatchIds, p \in Payload : AppendRow(d, b, p)
    BY <2>1, AppendIsWrite
  <2>2. CASE \E n \in 0 .. MaxSeq, p, f \in Payload : CommitCheckpoint(n, p, f)
    BY <2>2, CommitIsForget
  <2>3. CASE UNCHANGED logVars
    BY <2>3 DEF logVars, LogView, Promise!vars
  <2>4. QED
    BY <2>1, <2>2, <2>3 DEF LogNext
<1>3. QED
  BY <1>1, <1>2, LogSafe, PTL DEF LogSpec, Promise!Spec, ImplementsTrimmedLog

-----------------------------------------------------------------------------
(* What the state is made of *)

Names == Devices \X (Nat \ {0})

Batches(M) == [id : Names, ops : SUBSET M]

Requests == [kind : {"rowsReq"}, after : Nat, excludeOwn : BOOLEAN]
Pushes(M) == [kind : {"push"}, batch : Batches(M)]
UpFrames(M) == {Hello} \cup Requests \cup Pushes(M)

Counts == [head : Nat, stored : BOOLEAN, ckptSeq : Nat]

RowFrames(M) == [kind : {"row"}, seq : Nat, ops : SUBSET M]
AckFrames == [kind : {"ack"}, id : Names, seq : Nat]
StateFrames(M) == [kind : {"state"}, stats : Counts, frontier : SUBSET M]
DoneFrames == [kind : {"rowsDone"}, head : Nat]
DownFrames(M) == RowFrames(M) \cup AckFrames \cup StateFrames(M) \cup DoneFrames

RoomEvents(M) == [origin : Devices \cup {DeadSocket}, frame : RowFrames(M) \cup AckFrames]

Socks(M) ==
  [open : BOOLEAN, ready : BOOLEAN, owes : {"nothing", "state", "rowsDone"}, stats : Counts,
   up : Seq(UpFrames(M)), bcast : Seq(RoomEvents(M)), down : Seq(DownFrames(M))]

Clients(M) ==
  [phase : Phases, cursor : Nat, base : Nat, joined : BOOLEAN, after : Nat,
   pending : Seq(Batches(M)), nudged : BOOLEAN]

Stores(M) == [doc : SUBSET M, cursor : Nat]

Jobs(M) == [stage : {"none", "cursor", "snapshot", "sent"}, seq : Nat, ops : SUBSET M, frontier : SUBSET M]

LogOf(M) ==
  /\ \A s \in 1 .. headSeq : accepted[s].ops \subseteq M
  /\ checkpoint.ops \subseteq M /\ checkpoint.frontier \subseteq M

Shapes(M) ==
  /\ LogOf(M)
  /\ sock \in [Devices -> Socks(M)]
  /\ stale \in [Devices -> Seq(Pushes(M))]
  /\ client \in [Devices -> Clients(M)]
  /\ doc \in [Devices -> SUBSET M]
  /\ disk \in [Devices -> Stores(M)]
  /\ saving \in [Devices -> SUBSET SUBSET M]
  /\ job \in [Devices -> Jobs(M)]
  /\ adrift \in [Devices -> SUBSET Jobs(M)]
  /\ commits \in [Devices -> Nat] /\ minted \in [Devices -> Nat]
  /\ faults \in Nat /\ checkpoints \in Nat

\* The operation every device's document may start with is there from the start.
Basic(M) == M \subseteq Ops /\ \A d \in Devices : <<d, 0>> \in M

-----------------------------------------------------------------------------
(* Sequences and records *)

LEMMA SeqOfMore ==
  ASSUME NEW S, NEW T, S \subseteq T
  PROVE  Seq(S) \subseteq Seq(T)
<1>1. ASSUME NEW s \in Seq(S) PROVE s \in Seq(T)
  <2>1. s \in [1 .. Len(s) -> S] /\ Len(s) \in Nat  OBVIOUS
  <2> QED  BY <2>1
<1> QED  BY <1>1

LEMMA SockParts ==
  ASSUME NEW M, NEW s \in Socks(M)
  PROVE  /\ s.open \in BOOLEAN /\ s.ready \in BOOLEAN /\ s.owes \in {"nothing", "state", "rowsDone"}
         /\ s.stats \in Counts /\ s.stats.head \in Nat /\ s.stats.stored \in BOOLEAN /\ s.stats.ckptSeq \in Nat
         /\ s.up \in Seq(UpFrames(M)) /\ s.bcast \in Seq(RoomEvents(M)) /\ s.down \in Seq(DownFrames(M))
         /\ Len(s.up) \in Nat
         /\ ToSet(s.up) \subseteq UpFrames(M) /\ ToSet(s.bcast) \subseteq RoomEvents(M)
         /\ ToSet(s.down) \subseteq DownFrames(M)
<1>1. /\ s.open \in BOOLEAN /\ s.ready \in BOOLEAN /\ s.owes \in {"nothing", "state", "rowsDone"}
      /\ s.stats \in Counts
      /\ s.up \in Seq(UpFrames(M)) /\ s.bcast \in Seq(RoomEvents(M)) /\ s.down \in Seq(DownFrames(M))
  BY DEF Socks
<1>2. s.stats.head \in Nat /\ s.stats.stored \in BOOLEAN /\ s.stats.ckptSeq \in Nat  BY <1>1 DEF Counts
<1>3. /\ ToSet(s.up) \subseteq UpFrames(M) /\ ToSet(s.bcast) \subseteq RoomEvents(M)
      /\ ToSet(s.down) \subseteq DownFrames(M)
  BY <1>1, ToSetOfSeq
<1> QED  BY <1>1, <1>2, <1>3

LEMMA ClientParts ==
  ASSUME NEW M, NEW c \in Clients(M)
  PROVE  /\ c.phase \in Phases /\ c.cursor \in Nat /\ c.base \in Nat /\ c.joined \in BOOLEAN
         /\ c.after \in Nat /\ c.pending \in Seq(Batches(M)) /\ c.nudged \in BOOLEAN
         /\ Len(c.pending) \in Nat /\ DOMAIN c.pending = 1 .. Len(c.pending)
         /\ ToSet(c.pending) \subseteq Batches(M)
<1>1. /\ c.phase \in Phases /\ c.cursor \in Nat /\ c.base \in Nat /\ c.joined \in BOOLEAN
      /\ c.after \in Nat /\ c.pending \in Seq(Batches(M)) /\ c.nudged \in BOOLEAN
  BY DEF Clients
<1>2. ToSet(c.pending) \subseteq Batches(M)  BY <1>1, ToSetOfSeq
<1> QED  BY <1>1, <1>2

\* What a frame or an event is.
LEMMA FrameParts ==
  ASSUME NEW M
  PROVE  /\ \A f \in UpFrames(M) :
              /\ f.kind = "hello" => f = Hello
              /\ f.kind = "rowsReq" => f \in Requests /\ f.after \in Nat /\ f.excludeOwn \in BOOLEAN
              /\ f.kind = "push" => /\ f \in Pushes(M) /\ f.batch \in Batches(M)
                                    /\ f.batch.id \in Names /\ f.batch.ops \in SUBSET M
              /\ f.kind \in {"hello", "rowsReq", "push"}
         /\ \A f \in DownFrames(M) :
              /\ f.kind = "row" => f \in RowFrames(M) /\ f.seq \in Nat /\ f.ops \in SUBSET M
              /\ f.kind = "ack" => f \in AckFrames /\ f.seq \in Nat /\ f.id \in Names
              /\ f.kind = "state" => /\ f \in StateFrames(M) /\ f.stats \in Counts /\ f.frontier \in SUBSET M
                                     /\ f.stats.head \in Nat /\ f.stats.stored \in BOOLEAN /\ f.stats.ckptSeq \in Nat
              /\ f.kind = "rowsDone" => f \in DoneFrames
         /\ \A e \in RoomEvents(M) :
              /\ e.frame \in DownFrames(M) /\ e.frame.kind \in {"row", "ack"}
              /\ e.origin \in Devices \cup {DeadSocket}
<1>1. \A f \in UpFrames(M) :
        /\ f.kind = "hello" => f = Hello
        /\ f.kind = "rowsReq" => f \in Requests /\ f.after \in Nat /\ f.excludeOwn \in BOOLEAN
        /\ f.kind = "push" => f \in Pushes(M) /\ f.batch \in Batches(M)
        /\ f.kind \in {"hello", "rowsReq", "push"}
  BY DEF UpFrames, Hello, Requests, Pushes
<1>2. \A b \in Batches(M) : b.id \in Names /\ b.ops \in SUBSET M  BY DEF Batches
<1>3. \A f \in DownFrames(M) :
        /\ f.kind = "row" => f \in RowFrames(M) /\ f.seq \in Nat /\ f.ops \in SUBSET M
        /\ f.kind = "ack" => f \in AckFrames /\ f.seq \in Nat /\ f.id \in Names
        /\ f.kind = "state" => f \in StateFrames(M) /\ f.stats \in Counts /\ f.frontier \in SUBSET M
        /\ f.kind = "rowsDone" => f \in DoneFrames
  BY DEF DownFrames, RowFrames, AckFrames, StateFrames, DoneFrames
<1>4. \A c \in Counts : c.head \in Nat /\ c.stored \in BOOLEAN /\ c.ckptSeq \in Nat  BY DEF Counts
<1>5. \A e \in RoomEvents(M) :
        /\ e.frame \in DownFrames(M) /\ e.frame.kind \in {"row", "ack"}
        /\ e.origin \in Devices \cup {DeadSocket}
  BY DEF RoomEvents, DownFrames, RowFrames, AckFrames
<1> QED  BY <1>1, <1>2, <1>3, <1>4, <1>5

LEMMA ShapeParts ==
  ASSUME NEW M, Shapes(M), NEW d \in Devices
  PROVE  /\ sock[d] \in Socks(M) /\ stale[d] \in Seq(Pushes(M)) /\ client[d] \in Clients(M)
         /\ doc[d] \subseteq M /\ disk[d] \in Stores(M) /\ saving[d] \subseteq SUBSET M /\ job[d] \in Jobs(M)
         /\ adrift[d] \subseteq Jobs(M)
         /\ disk[d].doc \subseteq M /\ disk[d].cursor \in Nat
         /\ job[d].stage \in {"none", "cursor", "snapshot", "sent"} /\ job[d].seq \in Nat
         /\ job[d].ops \subseteq M /\ job[d].frontier \subseteq M
         /\ commits[d] \in Nat /\ minted[d] \in Nat
         /\ ToSet(stale[d]) \subseteq Pushes(M)
<1>1. /\ sock[d] \in Socks(M) /\ stale[d] \in Seq(Pushes(M)) /\ client[d] \in Clients(M)
      /\ doc[d] \subseteq M /\ disk[d] \in Stores(M) /\ saving[d] \subseteq SUBSET M /\ job[d] \in Jobs(M)
         /\ adrift[d] \subseteq Jobs(M)
      /\ commits[d] \in Nat /\ minted[d] \in Nat
  BY DEF Shapes
<1>2. disk[d].doc \subseteq M /\ disk[d].cursor \in Nat  BY <1>1 DEF Stores
<1>3. /\ job[d].stage \in {"none", "cursor", "snapshot", "sent"} /\ job[d].seq \in Nat
      /\ job[d].ops \subseteq M /\ job[d].frontier \subseteq M
  BY <1>1 DEF Jobs
<1>4. ToSet(stale[d]) \subseteq Pushes(M)  BY <1>1, ToSetOfSeq
<1> QED  BY <1>1, <1>2, <1>3, <1>4

\* The frames the code makes.
LEMMA FramesMade ==
  ASSUME NEW M
  PROVE  /\ Hello \in UpFrames(M)
         /\ \A n \in Nat, x \in BOOLEAN : RowsReq(n, x) \in UpFrames(M)
         /\ \A b \in Batches(M) : Push(b) \in UpFrames(M) /\ Push(b) \in Pushes(M)
         /\ \A n \in Nat, o \in SUBSET M : RowFrame(n, o) \in DownFrames(M) /\ RowFrame(n, o) \in RowFrames(M)
         /\ \A i \in Names, n \in Nat : AckFrame(i, n) \in DownFrames(M) /\ AckFrame(i, n) \in AckFrames
         /\ \A c \in Counts, o \in SUBSET M : State(c, o) \in DownFrames(M)
         /\ \A n \in Nat : RowsDone(n) \in DownFrames(M)
         /\ \A g \in Devices \cup {DeadSocket}, n \in Nat, o \in SUBSET M : RowEvent(g, n, o) \in RoomEvents(M)
         /\ \A g \in Devices \cup {DeadSocket}, i \in Names, n \in Nat : AckEvent(g, i, n) \in RoomEvents(M)
         /\ NoStats \in Counts
<1>1. /\ Hello \in UpFrames(M)
      /\ \A n \in Nat, x \in BOOLEAN : RowsReq(n, x) \in UpFrames(M)
      /\ \A b \in Batches(M) : Push(b) \in UpFrames(M) /\ Push(b) \in Pushes(M)
  BY DEF UpFrames, RowsReq, Requests, Push, Pushes
<1>2. /\ \A n \in Nat, o \in SUBSET M : RowFrame(n, o) \in RowFrames(M)
      /\ \A i \in Names, n \in Nat : AckFrame(i, n) \in AckFrames
      /\ \A c \in Counts, o \in SUBSET M : State(c, o) \in StateFrames(M)
      /\ \A n \in Nat : RowsDone(n) \in DoneFrames
  BY DEF RowFrame, RowFrames, AckFrame, AckFrames, State, StateFrames, RowsDone, DoneFrames
<1>3. NoStats \in Counts  BY DEF NoStats, Counts
<1>4. /\ \A g \in Devices \cup {DeadSocket}, n \in Nat, o \in SUBSET M : RowEvent(g, n, o) \in RoomEvents(M)
      /\ \A g \in Devices \cup {DeadSocket}, i \in Names, n \in Nat : AckEvent(g, i, n) \in RoomEvents(M)
  BY <1>2 DEF RowEvent, AckEvent, RoomEvents
<1> QED  BY <1>1, <1>2, <1>3, <1>4 DEF DownFrames

LEMMA NoSocketIsASocket ==
  ASSUME NEW M
  PROVE  /\ NoSocket \in Socks(M)
         /\ ToSet(NoSocket.up) = {} /\ ToSet(NoSocket.down) = {} /\ ToSet(NoSocket.bcast) = {}
<1>1. NoStats \in Counts  BY FramesMade
<1> QED  BY <1>1 DEF NoSocket, Socks, ToSet

-----------------------------------------------------------------------------
(***************************************************************************)
(* What the steps do.  Of a socket a lemma says what each part holds after *)
(* the step; the other devices' parts stay.                                *)
(***************************************************************************)

\* A step of the hub's loop for one socket.
LoopStep(M, d, s) ==
  /\ s \in Socks(M)
  /\ sock' = [sock EXCEPT ![d] = s]
  /\ UNCHANGED <<stale, logVars, client, doc, disk, saving, job, engineVars>>

LEMMA LoopKeepsShapes ==
  ASSUME NEW M, Shapes(M), NEW d \in Devices, NEW s, LoopStep(M, d, s)
  PROVE  /\ Shapes(M)' /\ sock'[d] = s
         /\ \A e \in Devices : e # d => sock'[e] = sock[e]
<1>1. sock' \in [Devices -> Socks(M)] /\ sock'[d] = s /\ \A e \in Devices : e # d => sock'[e] = sock[e]
  BY DEF LoopStep, Shapes
<1>2. LogOf(M)'  BY DEF Shapes, LogOf, LoopStep, logVars
<1> QED  BY <1>1, <1>2 DEF Shapes, LoopStep, engineVars

Untouched == UNCHANGED <<client, doc, disk, saving, job, engineVars>>

LEMMA ServeEventEffect ==
  ASSUME NEW M, Shapes(M), NEW d \in Devices, ServeEvent(d), Untouched
  PROVE  \E s : /\ LoopStep(M, d, s)
                /\ sock[d].open /\ s.open = sock[d].open /\ s.ready = sock[d].ready
                /\ s.owes = sock[d].owes /\ s.stats = sock[d].stats /\ s.up = sock[d].up
                /\ \E e \in RoomEvents(M) :
                     /\ ToSet(sock[d].bcast) = {e} \cup ToSet(s.bcast)
                     /\ ToSet(s.down) = IF Delivered(d, e) THEN ToSet(sock[d].down) \cup {e.frame}
                                        ELSE ToSet(sock[d].down)
<1>0. PICK o \in Socks(M) : o = sock[d]  BY ShapeParts
<1>1. PICK b \in Seq(RoomEvents(M)), w \in Seq(DownFrames(M)) : b = sock[d].bcast /\ w = sock[d].down /\ b # <<>>
  BY ShapeParts, SockParts DEF ServeEvent
<1>2. PICK e : e = Head(b)  OBVIOUS
<1>3. Tail(b) \in Seq(RoomEvents(M)) /\ e \in RoomEvents(M) /\ ToSet(b) = {e} \cup ToSet(Tail(b))
  BY <1>1, <1>2, ToSetOfTail
<1>4. e.frame \in DownFrames(M)  BY <1>3, FrameParts
<1>5. PICK v : v = IF Delivered(d, e) THEN Append(w, e.frame) ELSE w  OBVIOUS
<1>6. /\ v \in Seq(DownFrames(M))
      /\ ToSet(v) = IF Delivered(d, e) THEN ToSet(w) \cup {e.frame} ELSE ToSet(w)
  <2>1. PICK f \in DownFrames(M) : f = e.frame  BY <1>4
  <2>2. Append(w, f) \in Seq(DownFrames(M)) /\ ToSet(Append(w, f)) = ToSet(w) \cup {f}  BY ToSetOfAppend
  <2> QED  BY <1>5, <2>1, <2>2
<1>7. PICK s : s = [o EXCEPT !.bcast = Tail(b), !.down = v]  OBVIOUS
<1>8. sock' = [sock EXCEPT ![d] = s]  BY <1>1, <1>2, <1>5, <1>7, <1>0 DEF ServeEvent, Shapes
<1>9. /\ s \in Socks(M) /\ s.open = sock[d].open /\ s.ready = sock[d].ready /\ s.owes = sock[d].owes
      /\ s.stats = sock[d].stats /\ s.up = sock[d].up /\ s.bcast = Tail(b) /\ s.down = v
  BY <1>3, <1>6, <1>7, <1>0 DEF Socks
<1>10. LoopStep(M, d, s) /\ sock[d].open
  BY <1>8, <1>9 DEF LoopStep, Untouched, ServeEvent, CanServe
<1> QED  BY <1>1, <1>3, <1>6, <1>9, <1>10

LEMMA CloseLaggedEffect ==
  ASSUME NEW M, Shapes(M), NEW d \in Devices, CloseLagged(d), Untouched
  PROVE  \E s : /\ LoopStep(M, d, s)
                /\ ~ s.open /\ s.ready = sock[d].ready /\ sock[d].open
                /\ s.owes = sock[d].owes /\ s.stats = sock[d].stats /\ s.down = sock[d].down
                /\ s.up = <<>> /\ s.bcast = <<>>
<1>0. PICK o \in Socks(M) : o = sock[d]  BY ShapeParts
<1>1. PICK s : s = [o EXCEPT !.open = FALSE, !.bcast = <<>>, !.up = <<>>]  OBVIOUS
<1>2. sock' = [sock EXCEPT ![d] = s]  BY <1>1, <1>0 DEF CloseLagged, Shapes
<1>3. /\ s \in Socks(M) /\ ~ s.open /\ s.ready = sock[d].ready /\ s.owes = sock[d].owes
      /\ s.stats = sock[d].stats /\ s.down = sock[d].down /\ s.up = <<>> /\ s.bcast = <<>>
  <2>1. <<>> \in Seq(UpFrames(M)) /\ <<>> \in Seq(RoomEvents(M))  OBVIOUS
  <2>2. o.ready \in BOOLEAN /\ o.owes \in {"nothing", "state", "rowsDone"}  BY DEF Socks
  <2> QED  BY <1>1, <1>0, <2>1, <2>2 DEF Socks
<1> QED  BY <1>2, <1>3 DEF LoopStep, Untouched, CloseLagged, CanServe

\* The head of what a client sent.
LEMMA NextFrameParts ==
  ASSUME NEW M, Shapes(M), NEW d \in Devices, NEW kind, NextFrame(d, kind)
  PROVE  /\ sock[d].open /\ sock[d].owes = "nothing" /\ sock[d].bcast = <<>>
         /\ Head(sock[d].up) \in UpFrames(M) /\ Head(sock[d].up).kind = kind
         /\ Head(sock[d].up) \in ToSet(sock[d].up)
         /\ Tail(sock[d].up) \in Seq(UpFrames(M))
         /\ Len(Tail(sock[d].up)) = Len(sock[d].up) - 1
         /\ ToSet(sock[d].up) = {Head(sock[d].up)} \cup ToSet(Tail(sock[d].up))
<1>1. sock[d].up \in Seq(UpFrames(M))  BY ShapeParts, SockParts
<1>2. PICK u \in Seq(UpFrames(M)) : u = sock[d].up  BY <1>1
<1>3. /\ Tail(u) \in Seq(UpFrames(M)) /\ Head(u) \in UpFrames(M) /\ Len(Tail(u)) = Len(u) - 1
      /\ ToSet(u) = {Head(u)} \cup ToSet(Tail(u))
  BY <1>2, ToSetOfTail DEF NextFrame
<1> QED  BY <1>2, <1>3 DEF NextFrame, CanServe

LEMMA StatsAreCounts ==
  ASSUME LogInv
  PROVE  Stats \in Counts /\ Stats.head = headSeq /\ Stats.stored = checkpoint.stored /\ Stats.ckptSeq = checkpoint.seq
BY DEF Stats, Counts, LogInv, LogTypeOK, Checkpoint

LEMMA HandleHelloEffect ==
  ASSUME NEW M, Shapes(M), LogInv, NEW d \in Devices, HandleHello(d), Untouched
  PROVE  \E s : /\ LoopStep(M, d, s) /\ NextFrame(d, "hello")
                /\ sock[d].open /\ s.open = sock[d].open /\ s.ready /\ s.owes = "state" /\ s.stats = Stats
                /\ s.down = sock[d].down /\ s.bcast = sock[d].bcast
                /\ s.up = Tail(sock[d].up)
<1>0. PICK o \in Socks(M) : o = sock[d]  BY ShapeParts
<1>1. PICK s : s = [o EXCEPT !.up = Tail(sock[d].up), !.ready = TRUE, !.owes = "state", !.stats = Stats]
  OBVIOUS
<1>2. sock' = [sock EXCEPT ![d] = s]  BY <1>1, <1>0 DEF HandleHello, Shapes
<1>3. Tail(sock[d].up) \in Seq(UpFrames(M))  BY NextFrameParts DEF HandleHello
<1>4. /\ s \in Socks(M) /\ s.open = sock[d].open /\ s.ready /\ s.owes = "state"
      /\ s.stats = Stats /\ s.down = sock[d].down /\ s.bcast = sock[d].bcast /\ s.up = Tail(sock[d].up)
  BY <1>1, <1>3, <1>0, StatsAreCounts DEF Socks
<1> QED  BY <1>2, <1>4 DEF LoopStep, Untouched, HandleHello, NextFrame, CanServe

LEMMA SendStateEffect ==
  ASSUME NEW M, Shapes(M), NEW d \in Devices, SendState(d), Untouched
  PROVE  \E s : /\ LoopStep(M, d, s) /\ sock[d].owes = "state"
                /\ sock[d].open /\ s.open = sock[d].open /\ s.ready = sock[d].ready /\ s.owes = "nothing"
                /\ s.stats = NoStats /\ s.up = sock[d].up /\ s.bcast = sock[d].bcast
                /\ ToSet(s.down) = ToSet(sock[d].down) \cup {State(sock[d].stats, checkpoint.frontier)}
<1>0. PICK o \in Socks(M) : o = sock[d]  BY ShapeParts
<1>1. PICK f : f = State(sock[d].stats, checkpoint.frontier)  OBVIOUS
<1>2. f \in DownFrames(M)
  <2>1. sock[d].stats \in Counts /\ checkpoint.frontier \in SUBSET M  BY ShapeParts, SockParts DEF Shapes, LogOf
  <2> QED  BY <1>1, <2>1, FramesMade
<1>3. PICK w \in Seq(DownFrames(M)) : w = sock[d].down  BY ShapeParts, SockParts
<1>4. Append(w, f) \in Seq(DownFrames(M)) /\ ToSet(Append(w, f)) = ToSet(w) \cup {f}  BY <1>2, ToSetOfAppend
<1>5. PICK s : s = [o EXCEPT !.owes = "nothing", !.stats = NoStats, !.down = Append(w, f)]  OBVIOUS
<1>6. sock' = [sock EXCEPT ![d] = s]  BY <1>1, <1>3, <1>5, <1>0 DEF SendState, Shapes
<1>7. NoStats \in Counts  BY FramesMade
<1>8. /\ s \in Socks(M) /\ s.open = sock[d].open /\ s.ready = sock[d].ready /\ s.owes = "nothing"
      /\ s.stats = NoStats /\ s.up = sock[d].up /\ s.bcast = sock[d].bcast /\ s.down = Append(w, f)
  BY <1>4, <1>5, <1>7, <1>0 DEF Socks
<1> QED  BY <1>1, <1>3, <1>4, <1>6, <1>8 DEF LoopStep, Untouched, SendState

LEMMA FinishRowsEffect ==
  ASSUME NEW M, Shapes(M), LogInv, NEW d \in Devices, FinishRows(d), Untouched
  PROVE  \E s : /\ LoopStep(M, d, s) /\ sock[d].owes = "rowsDone"
                /\ sock[d].open /\ s.open = sock[d].open /\ s.ready = sock[d].ready /\ s.owes = "nothing"
                /\ s.stats = sock[d].stats /\ s.up = sock[d].up /\ s.bcast = sock[d].bcast
                /\ ToSet(s.down) = ToSet(sock[d].down) \cup {RowsDone(headSeq)}
<1>0. PICK o \in Socks(M) : o = sock[d]  BY ShapeParts
<1>1. PICK f : f = RowsDone(headSeq)  OBVIOUS
<1>2. f \in DownFrames(M)  BY <1>1, FramesMade DEF LogInv, LogTypeOK
<1>3. PICK w \in Seq(DownFrames(M)) : w = sock[d].down  BY ShapeParts, SockParts
<1>4. Append(w, f) \in Seq(DownFrames(M)) /\ ToSet(Append(w, f)) = ToSet(w) \cup {f}  BY <1>2, ToSetOfAppend
<1>5. PICK s : s = [o EXCEPT !.owes = "nothing", !.down = Append(w, f)]  OBVIOUS
<1>6. sock' = [sock EXCEPT ![d] = s]  BY <1>1, <1>3, <1>5, <1>0 DEF FinishRows, Shapes
<1>7. /\ s \in Socks(M) /\ s.open = sock[d].open /\ s.ready = sock[d].ready /\ s.owes = "nothing"
      /\ s.stats = sock[d].stats /\ s.up = sock[d].up /\ s.bcast = sock[d].bcast /\ s.down = Append(w, f)
  BY <1>4, <1>5, <1>0 DEF Socks
<1> QED  BY <1>1, <1>3, <1>4, <1>6, <1>7 DEF LoopStep, Untouched, FinishRows

\* The rows a reader is sent.
Sent(after, excluded) == {RowFrame(n, rows[n].ops) : n \in RowsAfter(after, excluded)}

Excluded(d, req) == IF req.excludeOwn THEN {d} ELSE {}

LEMMA HandleRowsReqEffect ==
  ASSUME NEW M, Shapes(M), LogInv, NEW d \in Devices, HandleRowsReq(d), Untouched
  PROVE  \E s : /\ LoopStep(M, d, s) /\ NextFrame(d, "rowsReq")
                /\ sock[d].open /\ s.open = sock[d].open /\ s.ready = sock[d].ready /\ s.owes = "rowsDone"
                /\ s.stats = sock[d].stats /\ s.up = Tail(sock[d].up) /\ s.bcast = sock[d].bcast
                /\ ToSet(s.down) = ToSet(sock[d].down)
                     \cup Sent(Head(sock[d].up).after, Excluded(d, Head(sock[d].up)))
<1>0. PICK o \in Socks(M) : o = sock[d]  BY ShapeParts
<1>1. PICK req : req = Head(sock[d].up)  OBVIOUS
<1>2. PICK I : I = RowsAfter(req.after, Excluded(d, req))  OBVIOUS
<1>3. headSeq \in Nat /\ I \subseteq 1 .. headSeq /\ \A n \in I : rows[n].ops \in SUBSET M
  <2>1. /\ headSeq \in Nat /\ seqFloor \in Nat /\ DOMAIN rows = (seqFloor + 1) .. headSeq
        /\ \A n \in DOMAIN rows : rows[n] = accepted[n]
    BY DEF LogInv, LogTypeOK, LogIsSuffix, RowsAreHistory
  <2>2. DOMAIN rows \subseteq 1 .. headSeq  BY <2>1
  <2> QED  BY <1>2, <2>1, <2>2 DEF RowsAfter, Shapes, LogOf
<1> DEFINE base == [n \in 1 .. headSeq |-> n]
<1>4. base \in Seq(1 .. headSeq) /\ Len(base) = headSeq /\ \A n \in 1 .. headSeq : base[n] = n
  BY <1>3
<1>5. PICK k : k = KeepAt(base, I)  OBVIOUS
<1>6. k \in Seq(1 .. headSeq) /\ ToSet(k) = I
  <2>1. KeepAt(base, I) \in Seq(1 .. headSeq) /\ ToSet(KeepAt(base, I)) = {base[i] : i \in I \cap 1 .. Len(base)}
    BY <1>4, ToSetOfKeepAt
  <2>2. {base[i] : i \in I \cap 1 .. Len(base)} = I  BY <1>3, <1>4
  <2> QED  BY <1>5, <2>1, <2>2
<1>7. Len(k) \in Nat /\ DOMAIN k = 1 .. Len(k) /\ I = {k[i] : i \in 1 .. Len(k)}
  BY <1>6, ToSetOfSeq
<1>8. PICK fs : fs = [i \in DOMAIN k |-> RowFrame(k[i], rows[k[i]].ops)]  OBVIOUS
<1>9. fs \in Seq(DownFrames(M)) /\ ToSet(fs) = {RowFrame(n, rows[n].ops) : n \in I}
  <2>1. \A n \in I : RowFrame(n, rows[n].ops) \in DownFrames(M)
    <3>1. \A n \in I : n \in Nat  BY <1>3
    <3> QED  BY <1>3, <3>1, FramesMade
  <2>2. \A i \in 1 .. Len(k) : fs[i] = RowFrame(k[i], rows[k[i]].ops) /\ fs[i] \in DownFrames(M)
    BY <1>7, <1>8, <2>1
  <2>3. fs \in Seq(DownFrames(M)) /\ Len(fs) = Len(k)  BY <1>7, <1>8, <2>2
  <2>4. ToSet(fs) = {fs[i] : i \in 1 .. Len(k)}  BY <2>3, ToSetOfSeq
  <2> QED  BY <1>7, <2>2, <2>3, <2>4
<1>10. PICK w \in Seq(DownFrames(M)) : w = sock[d].down  BY ShapeParts, SockParts
<1>11. PICK v : v = w \o fs  OBVIOUS
<1>12. v \in Seq(DownFrames(M)) /\ ToSet(v) = ToSet(w) \cup ToSet(fs)  BY <1>9, <1>11, ToSetOfConcat
<1>13. PICK u \in Seq(UpFrames(M)) : u = Tail(sock[d].up)  BY NextFrameParts DEF HandleRowsReq
<1>14. PICK s : s = [o EXCEPT !.up = u, !.owes = "rowsDone", !.down = v]  OBVIOUS
<1>15. sock' = [sock EXCEPT ![d] = s]
  <2>1. sock' = [sock EXCEPT ![d].up = Tail(@), ![d].owes = "rowsDone", ![d].down = @ \o fs]
    BY <1>1, <1>2, <1>5, <1>8 DEF HandleRowsReq, Excluded
  <2> QED  BY <1>0, <1>10, <1>11, <1>13, <1>14, <2>1 DEF Shapes
<1>16. /\ s \in Socks(M) /\ s.open = sock[d].open /\ s.ready = sock[d].ready /\ s.owes = "rowsDone"
       /\ s.stats = sock[d].stats /\ s.up = u /\ s.bcast = sock[d].bcast /\ s.down = v
  BY <1>0, <1>12, <1>14 DEF Socks
<1>17. NextFrame(d, "rowsReq") /\ sock[d].open  BY DEF HandleRowsReq, NextFrame, CanServe
<1>18. LoopStep(M, d, s)  BY <1>15, <1>16 DEF LoopStep, Untouched, HandleRowsReq
<1>19. ToSet(s.down) = ToSet(sock[d].down) \cup Sent(req.after, Excluded(d, req))
  BY <1>2, <1>9, <1>10, <1>12, <1>16 DEF Sent
<1> QED  BY <1>1, <1>13, <1>16, <1>17, <1>18, <1>19

-----------------------------------------------------------------------------
(* Pushes *)

\* Two sockets that differ in waiting events only.
SameButEvents(s, r) ==
  /\ r.open = s.open /\ r.ready = s.ready /\ r.owes = s.owes /\ r.stats = s.stats
  /\ r.up = s.up /\ r.down = s.down
  /\ ~ s.open => r.bcast = s.bcast

LEMMA FanOutEffect ==
  ASSUME NEW M, NEW socks \in [Devices -> Socks(M)], NEW events \in Seq(RoomEvents(M))
  PROVE  /\ FanOut(socks, events) \in [Devices -> Socks(M)]
         /\ \A d \in Devices :
              /\ SameButEvents(socks[d], FanOut(socks, events)[d])
              /\ socks[d].open =>
                   ToSet(FanOut(socks, events)[d].bcast)
                     = ToSet(socks[d].bcast) \cup {v \in ToSet(events) : Addressed(d, v)}
<1>1. PICK r : r = FanOut(socks, events)  OBVIOUS
<1>2. ASSUME NEW d \in Devices
      PROVE  /\ r[d] \in Socks(M) /\ SameButEvents(socks[d], r[d])
             /\ socks[d].open =>
                  ToSet(r[d].bcast) = ToSet(socks[d].bcast) \cup {v \in ToSet(events) : Addressed(d, v)}
  <2>0. PICK o \in Socks(M) : o = socks[d]  OBVIOUS
  <2>1. PICK I : I = {n \in DOMAIN events : Addressed(d, events[n])}  OBVIOUS
  <2>2. PICK k : k = KeepAt(events, I)  OBVIOUS
  <2>3. k \in Seq(RoomEvents(M)) /\ ToSet(k) = {v \in ToSet(events) : Addressed(d, v)}
    <3>1. KeepAt(events, I) \in Seq(RoomEvents(M))
          /\ ToSet(KeepAt(events, I)) = {events[i] : i \in I \cap 1 .. Len(events)}
      BY ToSetOfKeepAt
    <3>2. ToSet(events) = {events[i] : i \in 1 .. Len(events)}  BY ToSetOfSeq
    <3>3. DOMAIN events = 1 .. Len(events)  OBVIOUS
    <3> QED  BY <2>1, <2>2, <3>1, <3>2, <3>3
  <2>4. PICK b \in Seq(RoomEvents(M)) : b = socks[d].bcast  BY SockParts
  <2>5. PICK q : q = b \o k  OBVIOUS
  <2>6. q \in Seq(RoomEvents(M)) /\ ToSet(q) = ToSet(b) \cup ToSet(k)  BY <2>3, <2>5, ToSetOfConcat
  <2>7. PICK s : s = [o EXCEPT !.bcast = q]  OBVIOUS
  <2>8. s \in Socks(M) /\ s.bcast = q /\ (o.open => SameButEvents(o, s))
    BY <2>6, <2>7 DEF Socks, SameButEvents
  <2>9. r[d] = IF o.open THEN s ELSE o
    BY <1>1, <2>0, <2>1, <2>2, <2>4, <2>5, <2>7 DEF FanOut
  <2>10. ~ o.open => SameButEvents(o, o)  BY DEF SameButEvents
  <2>11. CASE o.open  BY <2>0, <2>3, <2>4, <2>6, <2>8, <2>9, <2>11
  <2>12. CASE ~ o.open  BY <2>0, <2>9, <2>10, <2>12
  <2> QED  BY <2>11, <2>12
<1>3. DOMAIN r = Devices /\ r = [d \in Devices |-> r[d]]  BY <1>1 DEF FanOut
<1>4. r \in [Devices -> Socks(M)]  BY <1>2, <1>3
<1> QED  BY <1>1, <1>2, <1>4

\* A batch is appended, and every socket gets its row or its ack; or it was there
\* already, and its origin gets the ack.
Appended(socks, origin, device, b) ==
  /\ headSeq' = headSeq + 1 /\ seqFloor' = seqFloor /\ checkpoint' = checkpoint
  /\ DOMAIN rows' = DOMAIN rows \cup {headSeq + 1}
  /\ accepted'[headSeq + 1] = [device |-> device, batch |-> b.id, ops |-> b.ops]
  /\ \A s \in 1 .. headSeq : accepted'[s] = accepted[s]
  /\ \A s \in DOMAIN rows : rows[s].batch # b.id
  /\ headSeq < MaxSeq
  /\ \A e \in Devices : socks[e].open =>
       ToSet(sock'[e].bcast) = ToSet(socks[e].bcast)
         \cup {IF e = origin THEN AckEvent(origin, b.id, headSeq + 1) ELSE RowEvent(origin, headSeq + 1, b.ops)}

Replayed(socks, origin, b) ==
  /\ UNCHANGED logVars
  /\ \E n \in 1 .. headSeq :
       /\ accepted[n].batch = b.id
       /\ \A e \in Devices : socks[e].open =>
            ToSet(sock'[e].bcast) = ToSet(socks[e].bcast)
              \cup IF e = origin THEN {AckEvent(origin, b.id, n)} ELSE {}

PublishStep(M, socks, origin, device, b) ==
  /\ sock' \in [Devices -> Socks(M)]
  /\ \A e \in Devices : SameButEvents(socks[e], sock'[e])
  /\ LogInv' /\ LogOf(M)'
  /\ Appended(socks, origin, device, b) \/ Replayed(socks, origin, b)

LEMMA PublishEffect ==
  ASSUME NEW M, Shapes(M), Basic(M), LogInv, NEW socks \in [Devices -> Socks(M)],
         NEW origin \in Devices \cup {DeadSocket}, NEW device \in Devices,
         NEW b \in Batches(M), b.id \in BatchIds,
         AppendAndPublish(socks, origin, device, b)
  PROVE  PublishStep(M, socks, origin, device, b)
<1>0. b.id \in Names /\ b.ops \in SUBSET M /\ b.ops \in Payload /\ headSeq \in Nat
  BY DEF Batches, Basic, Payload, LogInv, LogTypeOK
<1>1. CASE /\ AppendRow(device, b.id, b.ops)
           /\ sock' = FanOut(socks, <<RowEvent(origin, headSeq + 1, b.ops), AckEvent(origin, b.id, headSeq + 1)>>)
  <2>1. PICK x : x = RowEvent(origin, headSeq + 1, b.ops)  OBVIOUS
  <2>2. PICK y : y = AckEvent(origin, b.id, headSeq + 1)  OBVIOUS
  <2>3. x \in RoomEvents(M) /\ y \in RoomEvents(M)
    <3>1. headSeq + 1 \in Nat  BY <1>0
    <3> QED  BY <1>0, <2>1, <2>2, <3>1, FramesMade
  <2>4. <<x, y>> \in Seq(RoomEvents(M)) /\ ToSet(<<x, y>>) = {x, y}
    <3>1. <<x, y>> \in Seq(RoomEvents(M)) /\ Len(<<x, y>>) = 2  BY <2>3
    <3>2. ToSet(<<x, y>>) = {<<x, y>>[i] : i \in 1 .. 2}  BY <3>1, ToSetOfSeq
    <3>3. 1 .. 2 = {1, 2}  OBVIOUS
    <3> QED  BY <3>1, <3>2, <3>3
  <2>5. PICK ev \in Seq(RoomEvents(M)) : ev = <<x, y>> /\ ToSet(ev) = {x, y}  BY <2>4
  <2>13. sock' = FanOut(socks, ev)  BY <1>1, <2>1, <2>2, <2>5
  <2>6. /\ sock' \in [Devices -> Socks(M)]
        /\ \A e \in Devices :
             /\ SameButEvents(socks[e], sock'[e])
             /\ socks[e].open =>
                  ToSet(sock'[e].bcast) = ToSet(socks[e].bcast) \cup {v \in {x, y} : Addressed(e, v)}
    <3>1. /\ sock' \in [Devices -> Socks(M)]
          /\ \A e \in Devices :
               /\ SameButEvents(socks[e], sock'[e])
               /\ socks[e].open =>
                    ToSet(sock'[e].bcast) = ToSet(socks[e].bcast) \cup {v \in ToSet(ev) : Addressed(e, v)}
      BY <2>13, FanOutEffect
    <3> QED  BY <2>5, <3>1
  <2>7. \A e \in Devices : {v \in {x, y} : Addressed(e, v)} = {IF e = origin THEN y ELSE x}
    BY <2>1, <2>2 DEF Addressed, RowEvent, AckEvent, RowFrame, AckFrame
  <2>8. /\ headSeq' = headSeq + 1 /\ seqFloor' = seqFloor /\ checkpoint' = checkpoint
        /\ DOMAIN rows' = DOMAIN rows \cup {headSeq + 1}
        /\ accepted' = [s \in 1 .. headSeq + 1 |->
                          IF s = headSeq + 1 THEN [device |-> device, batch |-> b.id, ops |-> b.ops]
                          ELSE accepted[s]]
        /\ \A s \in DOMAIN rows : rows[s].batch # b.id
        /\ headSeq < MaxSeq
    BY <1>1 DEF AppendRow, IsReplay
  <2>9. /\ accepted'[headSeq + 1] = [device |-> device, batch |-> b.id, ops |-> b.ops]
        /\ \A s \in 1 .. headSeq : accepted'[s] = accepted[s]
    BY <1>0, <2>8
  <2>10. Appended(socks, origin, device, b)
    BY <2>1, <2>2, <2>6, <2>7, <2>8, <2>9 DEF Appended
  <2>11. LogInv'  BY <1>0, <1>1, AppendKeepsInv
  <2>12. LogOf(M)'
    <3>1. accepted'[headSeq + 1].ops = b.ops  BY <2>9
    <3>2. \A s \in 1 .. headSeq' : s \in 1 .. headSeq \/ s = headSeq + 1  BY <1>0, <2>8
    <3> QED  BY <1>0, <2>8, <2>9, <3>1, <3>2 DEF LogOf, Shapes
  <2> QED  BY <2>6, <2>10, <2>11, <2>12 DEF PublishStep
<1>2. CASE /\ IsReplay(b.id) /\ UNCHANGED logVars
           /\ sock' = FanOut(socks, <<AckEvent(origin, b.id, OriginalSeq(b.id))>>)
  <2>1. PICK n : n = OriginalSeq(b.id)  OBVIOUS
  <2>2. n \in DOMAIN rows /\ rows[n].batch = b.id
    <3>1. \E s \in DOMAIN rows : rows[s].batch = b.id  BY <1>2 DEF IsReplay
    <3> QED  BY <2>1, <3>1 DEF OriginalSeq
  <2>3. n \in 1 .. headSeq /\ accepted[n].batch = b.id
    <3>1. /\ seqFloor \in Nat /\ DOMAIN rows = (seqFloor + 1) .. headSeq
          /\ \A s \in DOMAIN rows : rows[s] = accepted[s]
      BY DEF LogInv, LogTypeOK, LogIsSuffix, RowsAreHistory
    <3> QED  BY <1>0, <2>2, <3>1
  <2>4. PICK y : y = AckEvent(origin, b.id, n)  OBVIOUS
  <2>5. y \in RoomEvents(M)
    <3>1. n \in Nat  BY <1>0, <2>3
    <3> QED  BY <1>0, <2>4, <3>1, FramesMade
  <2>6. <<y>> \in Seq(RoomEvents(M)) /\ ToSet(<<y>>) = {y}  BY <2>5, ToSetOfOne
  <2>7. PICK ev \in Seq(RoomEvents(M)) : ev = <<y>> /\ ToSet(ev) = {y}  BY <2>6
  <2>13. sock' = FanOut(socks, ev)  BY <1>2, <2>1, <2>4, <2>7
  <2>8. /\ sock' \in [Devices -> Socks(M)]
        /\ \A e \in Devices :
             /\ SameButEvents(socks[e], sock'[e])
             /\ socks[e].open => ToSet(sock'[e].bcast) = ToSet(socks[e].bcast) \cup {v \in {y} : Addressed(e, v)}
    <3>1. /\ sock' \in [Devices -> Socks(M)]
          /\ \A e \in Devices :
               /\ SameButEvents(socks[e], sock'[e])
               /\ socks[e].open =>
                    ToSet(sock'[e].bcast) = ToSet(socks[e].bcast) \cup {v \in ToSet(ev) : Addressed(e, v)}
      BY <2>13, FanOutEffect
    <3> QED  BY <2>7, <3>1
  <2>9. \A e \in Devices : {v \in {y} : Addressed(e, v)} = IF e = origin THEN {y} ELSE {}
    BY <2>4 DEF Addressed, AckEvent, AckFrame
  <2>10. Replayed(socks, origin, b)
    <3>1. \A e \in Devices : socks[e].open =>
            ToSet(sock'[e].bcast) = ToSet(socks[e].bcast)
              \cup IF e = origin THEN {AckEvent(origin, b.id, n)} ELSE {}
      BY <2>4, <2>8, <2>9
    <3> QED  BY <1>2, <2>3, <3>1 DEF Replayed
  <2>11. LogInv'  BY <1>2 DEF LogInv, LogTypeOK, LogIsSuffix, RowsAreHistory, BatchIsUnique, PrunedIsCovered, logVars
  <2>12. LogOf(M)'  BY <1>2 DEF LogOf, Shapes, logVars
  <2> QED  BY <2>8, <2>10, <2>11, <2>12 DEF PublishStep
<1> QED  BY <1>1, <1>2 DEF AppendAndPublish

LEMMA HandlePushEffect ==
  ASSUME NEW M, Shapes(M), Basic(M), LogInv, NEW d \in Devices, HandlePush(d), Untouched,
         \A f \in ToSet(sock[d].up) : f.kind = "push" => f.batch.id \in BatchIds
  PROVE  \E b \in Batches(M), socks \in [Devices -> Socks(M)] :
           /\ NextFrame(d, "push") /\ Head(sock[d].up).batch = b /\ b.id \in BatchIds
           /\ Head(sock[d].up) \in ToSet(sock[d].up)
           /\ \A e \in Devices : e # d => socks[e] = sock[e]
           /\ socks[d].open /\ socks[d].open = sock[d].open /\ socks[d].ready = sock[d].ready
           /\ socks[d].owes = sock[d].owes /\ socks[d].stats = sock[d].stats /\ socks[d].down = sock[d].down
           /\ socks[d].bcast = sock[d].bcast /\ socks[d].up = Tail(sock[d].up)
           /\ PublishStep(M, socks, d, d, b) /\ UNCHANGED stale
           /\ Shapes(M)'
<1>0. PICK o \in Socks(M) : o = sock[d]  BY ShapeParts
<1>1. NextFrame(d, "push")  BY DEF HandlePush
<1>2. /\ Head(sock[d].up) \in UpFrames(M) /\ Head(sock[d].up).kind = "push"
      /\ Head(sock[d].up) \in ToSet(sock[d].up) /\ sock[d].open
  BY <1>1, NextFrameParts
<1>3. PICK b \in Batches(M) : b = Head(sock[d].up).batch  BY <1>2, FrameParts
<1>4. b.id \in BatchIds  BY <1>2, <1>3
<1>5. PICK u \in Seq(UpFrames(M)) : u = Tail(sock[d].up)  BY <1>1, NextFrameParts
<1>6. PICK s : s = [o EXCEPT !.up = u]  OBVIOUS
<1>7. PICK socks : socks = [sock EXCEPT ![d] = s]  OBVIOUS
<1>8. /\ s \in Socks(M) /\ s.open = o.open /\ s.ready = o.ready /\ s.owes = o.owes /\ s.stats = o.stats
      /\ s.down = o.down /\ s.bcast = o.bcast /\ s.up = u
  BY <1>6 DEF Socks
<1>9. /\ socks \in [Devices -> Socks(M)] /\ socks[d] = s /\ \A e \in Devices : e # d => socks[e] = sock[e]
      /\ socks = [sock EXCEPT ![d].up = Tail(@)]
  BY <1>0, <1>5, <1>6, <1>7, <1>8 DEF Shapes
<1>10. AppendAndPublish(socks, d, d, b) /\ UNCHANGED stale  BY <1>3, <1>9 DEF HandlePush
<1>11. PublishStep(M, socks, d, d, b)  BY <1>4, <1>9, <1>10, PublishEffect
<1>12. Shapes(M)'  BY <1>10, <1>11 DEF PublishStep, Shapes, Untouched, engineVars
<1>13. /\ socks[d].open /\ socks[d].open = sock[d].open /\ socks[d].ready = sock[d].ready
       /\ socks[d].owes = sock[d].owes /\ socks[d].stats = sock[d].stats /\ socks[d].down = sock[d].down
       /\ socks[d].bcast = sock[d].bcast /\ socks[d].up = Tail(sock[d].up)
  BY <1>0, <1>2, <1>5, <1>8, <1>9
<1>14. socks \in [Devices -> Socks(M)] /\ UNCHANGED stale /\ Head(sock[d].up).batch = b  BY <1>3, <1>9, <1>10
<1> HIDE DEF PublishStep
<1> QED  BY <1>1, <1>2, <1>4, <1>9, <1>11, <1>12, <1>13, <1>14, Zenon

LEMMA HandleStalePushEffect ==
  ASSUME NEW M, Shapes(M), Basic(M), LogInv, NEW d \in Devices, HandleStalePush(d), Untouched,
         \A f \in ToSet(stale[d]) : f.batch.id \in BatchIds
  PROVE  \E b \in Batches(M) :
           /\ b.id \in BatchIds /\ \E f \in ToSet(stale[d]) : f.batch = b
           /\ PublishStep(M, sock, DeadSocket, d, b)
           /\ ToSet(stale'[d]) \subseteq ToSet(stale[d])
           /\ \A e \in Devices : e # d => stale'[e] = stale[e]
           /\ Shapes(M)'
<1>1. PICK q \in Seq(Pushes(M)) : q = stale[d] /\ q # <<>>  BY ShapeParts DEF HandleStalePush
<1>2. Tail(q) \in Seq(Pushes(M)) /\ Head(q) \in Pushes(M) /\ ToSet(q) = {Head(q)} \cup ToSet(Tail(q))
  BY <1>1, ToSetOfTail
<1>3. PICK b \in Batches(M) : b = Head(q).batch  BY <1>2 DEF Pushes
<1>4. b.id \in BatchIds /\ Head(q) \in ToSet(stale[d])  BY <1>1, <1>2, <1>3
<1>5. AppendAndPublish(sock, DeadSocket, d, b) /\ stale' = [stale EXCEPT ![d] = Tail(q)]
  BY <1>1, <1>3 DEF HandleStalePush
<1>6. sock \in [Devices -> Socks(M)]  BY DEF Shapes
<1>7. PublishStep(M, sock, DeadSocket, d, b)  BY <1>4, <1>5, <1>6, PublishEffect
<1>8. /\ stale' \in [Devices -> Seq(Pushes(M))] /\ stale'[d] = Tail(q)
      /\ \A e \in Devices : e # d => stale'[e] = stale[e]
  BY <1>2, <1>5 DEF Shapes
<1>9. Shapes(M)'  BY <1>7, <1>8 DEF PublishStep, Shapes, Untouched, engineVars
<1> QED  BY <1>1, <1>2, <1>3, <1>4, <1>7, <1>8, <1>9

-----------------------------------------------------------------------------
(* The client's side *)

\* A step of one device's client and socket.
Moves(M, d, c, s) ==
  /\ c \in Clients(M) /\ client' = [client EXCEPT ![d] = c]
  /\ s \in Socks(M) /\ sock' = [sock EXCEPT ![d] = s]

LEMMA MovesAt ==
  ASSUME NEW M, Shapes(M), NEW d \in Devices, NEW c, NEW s, Moves(M, d, c, s)
  PROVE  /\ client' \in [Devices -> Clients(M)] /\ sock' \in [Devices -> Socks(M)]
         /\ client'[d] = c /\ sock'[d] = s
         /\ \A e \in Devices : e # d => client'[e] = client[e] /\ sock'[e] = sock[e]
BY DEF Moves, Shapes

\* Nothing but the next frame is taken, nothing but `sent' is written.
Took(M, d, kind, sent, s) ==
  /\ s \in Socks(M) /\ sock' = [sock EXCEPT ![d] = s]
  /\ s.open = sock[d].open /\ s.ready = sock[d].ready /\ s.owes = sock[d].owes /\ s.stats = sock[d].stats
  /\ s.bcast = sock[d].bcast
  /\ Frame(d) \in DownFrames(M) /\ Frame(d).kind = kind /\ Frame(d) \in ToSet(sock[d].down)
  /\ ToSet(sock[d].down) = {Frame(d)} \cup ToSet(s.down)
  /\ ToSet(s.up) = ToSet(sock[d].up) \cup IF sock[d].open THEN ToSet(sent) ELSE {}
  /\ Len(s.up) = Len(sock[d].up) + IF sock[d].open THEN Len(sent) ELSE 0

LEMMA ConsumeEffect ==
  ASSUME NEW M, Shapes(M), NEW d \in Devices, NEW kind, Inbound(d, kind),
         NEW sent \in Seq(UpFrames(M)), Consume(d, sent)
  PROVE  \E s : Took(M, d, kind, sent, s)
<1>0. PICK o \in Socks(M) : o = sock[d]  BY ShapeParts
<1>1. PICK w \in Seq(DownFrames(M)), u \in Seq(UpFrames(M)) : w = sock[d].down /\ u = sock[d].up /\ w # <<>>
  <2>1. sock[d].down \in Seq(DownFrames(M)) /\ sock[d].up \in Seq(UpFrames(M))  BY ShapeParts, SockParts
  <2> QED  BY <2>1 DEF Inbound
<1>2. /\ Tail(w) \in Seq(DownFrames(M)) /\ Head(w) \in DownFrames(M)
      /\ ToSet(w) = {Head(w)} \cup ToSet(Tail(w))
  BY <1>1, ToSetOfTail
<1>3. PICK v : v = IF sock[d].open THEN u \o sent ELSE u  OBVIOUS
<1>4. /\ v \in Seq(UpFrames(M))
      /\ ToSet(v) = ToSet(u) \cup IF sock[d].open THEN ToSet(sent) ELSE {}
      /\ Len(v) = Len(u) + IF sock[d].open THEN Len(sent) ELSE 0
  <2>1. u \o sent \in Seq(UpFrames(M)) /\ ToSet(u \o sent) = ToSet(u) \cup ToSet(sent)  BY ToSetOfConcat
  <2>2. Len(u \o sent) = Len(u) + Len(sent) /\ Len(u) \in Nat  OBVIOUS
  <2> QED  BY <1>3, <2>1, <2>2
<1>5. PICK s : s = [o EXCEPT !.down = Tail(w), !.up = v]  OBVIOUS
<1>6. sock' = [sock EXCEPT ![d] = s]  BY <1>0, <1>1, <1>3, <1>5 DEF Consume, Shapes
<1>7. /\ s \in Socks(M) /\ s.open = o.open /\ s.ready = o.ready /\ s.owes = o.owes /\ s.stats = o.stats
      /\ s.bcast = o.bcast /\ s.down = Tail(w) /\ s.up = v
  BY <1>2, <1>4, <1>5 DEF Socks
<1>8. Frame(d) = Head(w) /\ Frame(d).kind = kind  BY <1>1 DEF Inbound, Frame
<1> QED  BY <1>0, <1>1, <1>2, <1>4, <1>6, <1>7, <1>8 DEF Took

Elsewhere(d) == \A e \in Devices : e # d => doc'[e] = doc[e] /\ disk'[e] = disk[e] /\ stale'[e] = stale[e]

\* Both answers to a STATE.
LEMMA ReceiveStateEffect ==
  ASSUME NEW M, Shapes(M), NEW d \in Devices, ReceiveState(d)
  PROVE  \E c, s :
           /\ Moves(M, d, c, s) /\ Shapes(M)'
           /\ client[d].phase = "hello" /\ c.phase # "closed"
           /\ c.base = client[d].base /\ c.joined = client[d].joined /\ c.pending = client[d].pending
           /\ \/ /\ c.phase = "backfill" /\ c.after = client[d].after
                 /\ LET after == RowsOnlyAfter(d, Frame(d))
                    IN  /\ c.cursor = IF after < client[d].cursor THEN after ELSE client[d].cursor
                        /\ Took(M, d, "state", <<RowsReq(after, client[d].joined)>>, s)
                        /\ after \in Nat
                        /\ after <= client[d].cursor \/ after = Frame(d).stats.ckptSeq
              \/ /\ c.phase = "fetch" /\ c.after = Frame(d).stats.ckptSeq /\ c.cursor = client[d].cursor
                 /\ Took(M, d, "state", <<>>, s)
<1>0. PICK o \in Clients(M) : o = client[d]  BY ShapeParts
<1>1. PICK f : f = Frame(d)  OBVIOUS
<1>2. /\ f.stats.head \in Nat /\ f.stats.stored \in BOOLEAN /\ f.stats.ckptSeq \in Nat
  <2>1. PICK w \in Seq(DownFrames(M)) : w = sock[d].down  BY ShapeParts, SockParts
  <2>2. w # <<>> /\ Head(w).kind = "state" /\ f = Head(w)  BY <1>1, <2>1 DEF ReceiveState, Inbound, Frame
  <2>3. f \in DownFrames(M) /\ f.kind = "state"  BY <2>1, <2>2, ToSetOfTail
  <2> QED  BY <2>3, FrameParts
<1>3. o.cursor \in Nat /\ o.joined \in BOOLEAN /\ o.phase = "hello"  BY <1>0, ClientParts DEF ReceiveState, Phase
<1>4. PICK after : after = RowsOnlyAfter(d, f)  OBVIOUS
<1>5. after \in Nat /\ (after <= o.cursor \/ after = f.stats.ckptSeq)
  <2>1. HonestCursor(d, f) \in Nat /\ HonestCursor(d, f) <= o.cursor
    BY <1>0, <1>2, <1>3 DEF HonestCursor
  <2> QED  BY <1>2, <1>4, <2>1 DEF RowsOnlyAfter, Greater
<1>6. \/ Shapes(M)' /\ UNCHANGED <<stale, doc, disk>>
      \/ ~ (client' \in [Devices -> Clients(M)] /\ sock' \in [Devices -> Socks(M)])
  BY DEF ReceiveState, Shapes, LogOf, logVars, engineVars
<1>7. Inbound(d, "state")  BY DEF ReceiveState
<1>8. CASE /\ client' = [client EXCEPT ![d].phase = "backfill",
                                       ![d].cursor = IF after < @ THEN after ELSE @]
           /\ Consume(d, <<RowsReq(after, client[d].joined)>>)
  <2>1. PICK r : r = RowsReq(after, client[d].joined)  OBVIOUS
  <2>2. r \in UpFrames(M)  BY <1>0, <1>3, <1>5, <2>1, FramesMade
  <2>3. <<r>> \in Seq(UpFrames(M))  BY <2>2
  <2>4. PICK s : Took(M, d, "state", <<r>>, s)
    <3>1. Consume(d, <<r>>)  BY <1>8, <2>1
    <3> QED  BY <1>7, <2>3, <3>1, ConsumeEffect
  <2>5. PICK c : c = [o EXCEPT !.phase = "backfill", !.cursor = IF after < o.cursor THEN after ELSE o.cursor]
    OBVIOUS
  <2>6. client' = [client EXCEPT ![d] = c]  BY <1>0, <1>8, <2>5 DEF Shapes
  <2>7. /\ c \in Clients(M) /\ c.base = o.base /\ c.joined = o.joined /\ c.pending = o.pending
        /\ c.phase = "backfill" /\ c.after = o.after
        /\ c.cursor = IF after < o.cursor THEN after ELSE o.cursor
    BY <1>3, <1>5, <2>5 DEF Clients, Phases
  <2>8. Moves(M, d, c, s)  BY <2>4, <2>6, <2>7 DEF Moves, Took
  <2>9. Shapes(M)'  BY <1>6, <2>8, MovesAt
  <2> QED  BY <1>0, <1>1, <1>3, <1>4, <1>5, <2>1, <2>4, <2>7, <2>8, <2>9
<1>9. CASE /\ client' = [client EXCEPT ![d].phase = "fetch", ![d].after = f.stats.ckptSeq]
           /\ Consume(d, <<>>)
  <2>1. <<>> \in Seq(UpFrames(M))  OBVIOUS
  <2>2. PICK s : Took(M, d, "state", <<>>, s)  BY <1>7, <1>9, <2>1, ConsumeEffect
  <2>3. PICK c : c = [o EXCEPT !.phase = "fetch", !.after = f.stats.ckptSeq]  OBVIOUS
  <2>4. client' = [client EXCEPT ![d] = c]  BY <1>0, <1>9, <2>3 DEF Shapes
  <2>5. /\ c \in Clients(M) /\ c.base = o.base /\ c.joined = o.joined /\ c.pending = o.pending
        /\ c.phase = "fetch" /\ c.after = f.stats.ckptSeq /\ c.cursor = o.cursor
    BY <1>2, <2>3 DEF Clients, Phases
  <2>6. Moves(M, d, c, s)  BY <2>2, <2>4, <2>5 DEF Moves, Took
  <2>7. Shapes(M)'  BY <1>6, <2>6, MovesAt
  <2> QED  BY <1>0, <1>1, <1>3, <2>2, <2>5, <2>6, <2>7
<1> QED  BY <1>1, <1>4, <1>8, <1>9 DEF ReceiveState


LEMMA SeqOfFewer ==
  ASSUME NEW S, NEW T, NEW s \in Seq(S), ToSet(s) \subseteq T
  PROVE  s \in Seq(T)
<1>1. s \in [1 .. Len(s) -> S] /\ Len(s) \in Nat  OBVIOUS
<1>2. \A k \in 1 .. Len(s) : s[k] \in T  BY ToSetOfSeq
<1>3. s \in [1 .. Len(s) -> T]  BY <1>1, <1>2
<1> QED  BY <1>1, <1>3

\* Nothing is taken, the frames of `sent' are written.
Wrote(M, d, sent, s) ==
  /\ s \in Socks(M) /\ sock' = [sock EXCEPT ![d] = s]
  /\ s.open = sock[d].open /\ s.ready = sock[d].ready /\ s.owes = sock[d].owes /\ s.stats = sock[d].stats
  /\ s.bcast = sock[d].bcast /\ s.down = sock[d].down
  /\ ToSet(s.up) = ToSet(sock[d].up) \cup IF sock[d].open THEN ToSet(sent) ELSE {}
  /\ Len(s.up) = Len(sock[d].up) + IF sock[d].open THEN Len(sent) ELSE 0

LEMMA WriteEffect ==
  ASSUME NEW M, Shapes(M), NEW d \in Devices, NEW sent \in Seq(UpFrames(M)),
         sock' = [sock EXCEPT ![d].up = IF sock[d].open THEN @ \o sent ELSE @]
  PROVE  \E s : Wrote(M, d, sent, s)
<1>0. PICK o \in Socks(M) : o = sock[d]  BY ShapeParts
<1>1. PICK u \in Seq(UpFrames(M)) : u = sock[d].up  BY ShapeParts, SockParts
<1>3. PICK v : v = IF sock[d].open THEN u \o sent ELSE u  OBVIOUS
<1>4. /\ v \in Seq(UpFrames(M))
      /\ ToSet(v) = ToSet(u) \cup IF sock[d].open THEN ToSet(sent) ELSE {}
      /\ Len(v) = Len(u) + IF sock[d].open THEN Len(sent) ELSE 0
  <2>1. u \o sent \in Seq(UpFrames(M)) /\ ToSet(u \o sent) = ToSet(u) \cup ToSet(sent)  BY ToSetOfConcat
  <2>2. Len(u \o sent) = Len(u) + Len(sent) /\ Len(u) \in Nat  OBVIOUS
  <2> QED  BY <1>3, <2>1, <2>2
<1>5. PICK s : s = [o EXCEPT !.up = v]  OBVIOUS
<1>6. sock' = [sock EXCEPT ![d] = s]  BY <1>0, <1>1, <1>3, <1>5 DEF Shapes
<1>7. /\ s \in Socks(M) /\ s.open = o.open /\ s.ready = o.ready /\ s.owes = o.owes /\ s.stats = o.stats
      /\ s.bcast = o.bcast /\ s.down = o.down /\ s.up = v
  BY <1>4, <1>5 DEF Socks
<1> QED  BY <1>0, <1>1, <1>4, <1>6, <1>7 DEF Wrote

\* The checkpoint that is merged and stored.
LEMMA FetchCheckpointEffect ==
  ASSUME NEW M, Shapes(M), NEW d \in Devices, FetchCheckpoint(d)
  PROVE  \E c, s :
           /\ Moves(M, d, c, s) /\ Shapes(M)'
           /\ client[d].phase = "fetch" /\ c.phase = "backfill"
           /\ c.cursor = client[d].after /\ c.after = client[d].after
           /\ c.base = client[d].base /\ c.joined = client[d].joined /\ c.pending = client[d].pending
           /\ Wrote(M, d, <<RowsReq(client[d].after, client[d].joined)>>, s)
           /\ doc'[d] = doc[d] \cup checkpoint.ops
           /\ disk'[d].doc = doc'[d] /\ disk'[d].cursor = client[d].after
           /\ \A e \in Devices : e # d => doc'[e] = doc[e] /\ disk'[e] = disk[e]
<1>0. PICK o \in Clients(M) : o = client[d]  BY ShapeParts
<1>1. o.after \in Nat /\ o.joined \in BOOLEAN /\ o.phase = "fetch"
  BY <1>0, ClientParts DEF FetchCheckpoint, Phase
<1>2. PICK r \in UpFrames(M) : r = RowsReq(o.after, o.joined)  BY <1>1, FramesMade
<1>3. <<r>> \in Seq(UpFrames(M))  OBVIOUS
<1>4. PICK u \in Seq(UpFrames(M)) : u = sock[d].up  BY ShapeParts, SockParts
<1>5. Append(u, r) = u \o <<r>>  OBVIOUS
<1>6. sock' = [sock EXCEPT ![d].up = IF sock[d].open THEN @ \o <<r>> ELSE @]
  BY <1>0, <1>2, <1>4, <1>5 DEF FetchCheckpoint, Shapes
<1>7. PICK s : Wrote(M, d, <<r>>, s)  BY <1>3, <1>6, WriteEffect
<1>8. PICK c : c = [o EXCEPT !.phase = "backfill", !.cursor = o.after]  OBVIOUS
<1>9. client' = [client EXCEPT ![d] = c]  BY <1>0, <1>8 DEF FetchCheckpoint, Shapes
<1>10. /\ c \in Clients(M) /\ c.base = o.base /\ c.joined = o.joined /\ c.pending = o.pending
       /\ c.phase = "backfill" /\ c.after = o.after /\ c.cursor = o.after
  BY <1>1, <1>8 DEF Clients, Phases
<1>11. Moves(M, d, c, s)  BY <1>7, <1>9, <1>10 DEF Moves, Wrote
<1>12. PICK x : x = doc[d] \cup checkpoint.ops  OBVIOUS
<1>13. x \in SUBSET M  BY <1>12, ShapeParts DEF Shapes, LogOf
<1>14. doc' = [doc EXCEPT ![d] = x] /\ disk' = [disk EXCEPT ![d] = [doc |-> x, cursor |-> o.after]]
  BY <1>0, <1>12 DEF FetchCheckpoint
<1>15. /\ doc' \in [Devices -> SUBSET M] /\ disk' \in [Devices -> Stores(M)]
       /\ doc'[d] = x /\ disk'[d].doc = x /\ disk'[d].cursor = o.after
       /\ \A e \in Devices : e # d => doc'[e] = doc[e] /\ disk'[e] = disk[e]
  BY <1>1, <1>13, <1>14 DEF Shapes, Stores
<1>16. Shapes(M)'  BY <1>11, <1>15, MovesAt DEF Shapes, LogOf, FetchCheckpoint, logVars, engineVars
<1> QED  BY <1>0, <1>1, <1>2, <1>7, <1>10, <1>11, <1>12, <1>15, <1>16

\* The cursor a row or an ack takes a session to.
LEMMA GreaterIsANumber ==
  ASSUME NEW m \in Nat, NEW n \in Nat
  PROVE  Greater(m, n) \in Nat /\ Greater(m, n) >= m /\ Greater(m, n) >= n /\ Greater(m, n) \in {m, n}
BY DEF Greater

LEMMA ReceiveRowEffect ==
  ASSUME NEW M, Shapes(M), NEW d \in Devices, ReceiveRow(d)
  PROVE  \E c, s :
           /\ Moves(M, d, c, s) /\ Shapes(M)'
           /\ Took(M, d, "row", <<>>, s)
           /\ client[d].phase \in {"backfill", "steady"} /\ c.phase = client[d].phase
           /\ c.cursor = Greater(client[d].cursor, Frame(d).seq) /\ c.after = client[d].after
           /\ c.base = client[d].base /\ c.joined = client[d].joined /\ c.pending = client[d].pending
           /\ doc'[d] = doc[d] \cup Frame(d).ops
           /\ disk'[d].doc = doc'[d] /\ disk'[d].cursor = Frame(d).seq
           /\ \A e \in Devices : e # d => doc'[e] = doc[e] /\ disk'[e] = disk[e]
<1>0. PICK o \in Clients(M) : o = client[d]  BY ShapeParts
<1>1. PICK f : f = Frame(d)  OBVIOUS
<1>2. Inbound(d, "row") /\ Consume(d, <<>>) /\ o.phase \in {"backfill", "steady"}
  BY <1>0 DEF ReceiveRow, Streaming, Phase
<1>3. <<>> \in Seq(UpFrames(M))  OBVIOUS
<1>4. PICK s : Took(M, d, "row", <<>>, s)  BY <1>2, <1>3, ConsumeEffect
<1>5. f \in DownFrames(M) /\ f.kind = "row"  BY <1>1, <1>4 DEF Took
<1>6. f.seq \in Nat /\ f.ops \in SUBSET M  BY <1>5, FrameParts
<1>7. PICK n \in Nat : n = Greater(o.cursor, f.seq)  BY <1>6, ClientParts, GreaterIsANumber
<1>8. PICK c : c = [o EXCEPT !.cursor = n]  OBVIOUS
<1>9. client' = [client EXCEPT ![d] = c]  BY <1>0, <1>1, <1>7, <1>8 DEF ReceiveRow, Shapes
<1>10. /\ c \in Clients(M) /\ c.base = o.base /\ c.joined = o.joined /\ c.pending = o.pending
       /\ c.phase = o.phase /\ c.after = o.after /\ c.cursor = n
  BY <1>8 DEF Clients
<1>11. Moves(M, d, c, s)  BY <1>4, <1>9, <1>10 DEF Moves, Took
<1>12. PICK x : x = doc[d] \cup f.ops  OBVIOUS
<1>13. x \in SUBSET M  BY <1>6, <1>12, ShapeParts
<1>14. doc' = [doc EXCEPT ![d] = x] /\ disk' = [disk EXCEPT ![d] = [doc |-> x, cursor |-> f.seq]]
  BY <1>1, <1>12 DEF ReceiveRow
<1>15. /\ doc' \in [Devices -> SUBSET M] /\ disk' \in [Devices -> Stores(M)]
       /\ doc'[d] = x /\ disk'[d].doc = x /\ disk'[d].cursor = f.seq
       /\ \A e \in Devices : e # d => doc'[e] = doc[e] /\ disk'[e] = disk[e]
  BY <1>6, <1>13, <1>14 DEF Shapes, Stores
<1>16. Shapes(M)'  BY <1>11, <1>15, MovesAt DEF Shapes, LogOf, ReceiveRow, logVars, engineVars
<1> QED  BY <1>0, <1>1, <1>2, <1>4, <1>7, <1>10, <1>11, <1>12, <1>15, <1>16


\* What an acknowledgement leaves of the queue.
LEMMA RetireFacts ==
  ASSUME NEW S, NEW q \in Seq(S), NEW id
  PROVE  Retire(q, id) \in Seq(S) /\ ToSet(Retire(q, id)) = {b \in ToSet(q) : b.id # id}
<1>1. PICK I : I = {n \in DOMAIN q : q[n].id # id}  OBVIOUS
<1>2. Retire(q, id) = KeepAt(q, I)  BY <1>1 DEF Retire
<1>3. KeepAt(q, I) \in Seq(S) /\ ToSet(KeepAt(q, I)) = {q[i] : i \in I \cap 1 .. Len(q)}  BY ToSetOfKeepAt
<1>4. ToSet(q) = {q[i] : i \in 1 .. Len(q)}  BY ToSetOfSeq
<1>5. DOMAIN q = 1 .. Len(q)  OBVIOUS
<1> QED  BY <1>1, <1>2, <1>3, <1>4, <1>5

LEMMA ReceiveAckEffect ==
  ASSUME NEW M, Shapes(M), NEW d \in Devices, ReceiveAck(d)
  PROVE  \E c, s :
           /\ Moves(M, d, c, s) /\ Shapes(M)'
           /\ Took(M, d, "ack", <<>>, s)
           /\ client[d].phase \in {"backfill", "steady"} /\ c.phase = client[d].phase
           /\ c.cursor = Greater(client[d].cursor, Frame(d).seq) /\ c.after = client[d].after
           /\ c.base = client[d].base /\ c.joined = client[d].joined
           /\ ToSet(c.pending) = {b \in ToSet(client[d].pending) : b.id # Frame(d).id}
           /\ disk'[d].doc = doc[d] /\ disk'[d].cursor = c.cursor
           /\ \A e \in Devices : e # d => disk'[e] = disk[e]
<1>0. PICK o \in Clients(M) : o = client[d]  BY ShapeParts
<1>1. PICK f : f = Frame(d)  OBVIOUS
<1>2. Inbound(d, "ack") /\ Consume(d, <<>>) /\ o.phase \in {"backfill", "steady"}
  BY <1>0 DEF ReceiveAck, Streaming, Phase
<1>3. <<>> \in Seq(UpFrames(M))  OBVIOUS
<1>4. PICK s : Took(M, d, "ack", <<>>, s)  BY <1>2, <1>3, ConsumeEffect
<1>5. f \in DownFrames(M) /\ f.kind = "ack"  BY <1>1, <1>4 DEF Took
<1>6. f.seq \in Nat  BY <1>5, FrameParts
<1>7. PICK n \in Nat : n = Greater(o.cursor, f.seq)  BY <1>6, ClientParts, GreaterIsANumber
<1>8. PICK q \in Seq(Batches(M)) : q = o.pending  BY ClientParts
<1>9. PICK r \in Seq(Batches(M)) : r = Retire(q, f.id) /\ ToSet(r) = {b \in ToSet(q) : b.id # f.id}
  BY RetireFacts
<1>10. PICK c : c = [o EXCEPT !.cursor = n, !.pending = r]  OBVIOUS
<1>11. client' = [client EXCEPT ![d] = c]  BY <1>0, <1>1, <1>7, <1>8, <1>9, <1>10 DEF ReceiveAck, Shapes
<1>12. /\ c \in Clients(M) /\ c.base = o.base /\ c.joined = o.joined /\ c.pending = r
       /\ c.phase = o.phase /\ c.after = o.after /\ c.cursor = n
  BY <1>10 DEF Clients
<1>13. Moves(M, d, c, s)  BY <1>4, <1>11, <1>12 DEF Moves, Took
<1>14. disk' = [disk EXCEPT ![d] = [doc |-> doc[d], cursor |-> n]]  BY <1>0, <1>1, <1>7 DEF ReceiveAck
<1>15. /\ disk' \in [Devices -> Stores(M)] /\ disk'[d].doc = doc[d] /\ disk'[d].cursor = n
       /\ \A e \in Devices : e # d => disk'[e] = disk[e]
  BY <1>14, ShapeParts DEF Shapes, Stores
<1>16. Shapes(M)'  BY <1>13, <1>15, MovesAt DEF Shapes, LogOf, ReceiveAck, logVars, engineVars
<1> QED  BY <1>0, <1>1, <1>2, <1>4, <1>7, <1>8, <1>9, <1>12, <1>13, <1>15, <1>16

\* A push per queued batch.
LEMMA PushAllFacts ==
  ASSUME NEW M, Shapes(M), NEW d \in Devices
  PROVE  PushAll(d) \in Seq(UpFrames(M)) /\ ToSet(PushAll(d)) = {Push(b) : b \in ToSet(client[d].pending)}
<1>1. PICK q \in Seq(Batches(M)) : q = client[d].pending
  <2>1. client[d] \in Clients(M)  BY ShapeParts
  <2> QED  BY <2>1, ClientParts
<1>2. PICK v : v = PushAll(d)  OBVIOUS
<1>3. v = [i \in 1 .. Len(q) |-> Push(q[i])]  BY <1>1, <1>2 DEF PushAll
<1>4. \A i \in 1 .. Len(q) : v[i] = Push(q[i]) /\ v[i] \in UpFrames(M)  BY <1>3, FramesMade
<1>5. v \in Seq(UpFrames(M)) /\ Len(v) = Len(q)
  <2>1. Len(q) \in Nat  OBVIOUS
  <2>2. v \in [1 .. Len(q) -> UpFrames(M)]  BY <1>3, <1>4
  <2> QED  BY <2>1, <2>2
<1>6. ToSet(v) = {v[i] : i \in 1 .. Len(q)}  BY <1>5, ToSetOfSeq
<1>7. ToSet(q) = {q[i] : i \in 1 .. Len(q)}  BY ToSetOfSeq
<1>8. ToSet(v) = {Push(b) : b \in ToSet(q)}  BY <1>4, <1>6, <1>7
<1> QED  BY <1>1, <1>2, <1>5, <1>8

LEMMA ReceiveRowsDoneEffect ==
  ASSUME NEW M, Shapes(M), NEW d \in Devices, ReceiveRowsDone(d)
  PROVE  \E c, s, sent :
           /\ Moves(M, d, c, s) /\ Shapes(M)'
           /\ sent \in Seq(UpFrames(M)) /\ ToSet(sent) \subseteq {Push(b) : b \in ToSet(client[d].pending)}
           /\ Took(M, d, "rowsDone", sent, s)
           /\ client[d].phase = "backfill" /\ c.phase = "steady"
           /\ c.cursor = client[d].cursor /\ c.after = client[d].after
           /\ c.base = client[d].base /\ c.joined /\ c.pending = client[d].pending
<1>0. PICK o \in Clients(M) : o = client[d]  BY ShapeParts
<1>1. PICK sent : sent = IF client[d].joined THEN PushAll(d) ELSE <<>>  OBVIOUS
<1>2. sent \in Seq(UpFrames(M)) /\ ToSet(sent) \subseteq {Push(b) : b \in ToSet(client[d].pending)}
  <2>1. <<>> \in Seq(UpFrames(M)) /\ ToSet(<<>>) = {}  BY DEF ToSet
  <2>2. /\ PushAll(d) \in Seq(UpFrames(M))
        /\ ToSet(PushAll(d)) = {Push(b) : b \in ToSet(client[d].pending)}
    BY PushAllFacts
  <2>3. CASE client[d].joined  BY <1>1, <2>2, <2>3
  <2>4. CASE ~ client[d].joined
    <3>1. sent = <<>>  BY <1>1, <2>4
    <3> QED  BY <2>1, <3>1
  <2> QED  BY <2>3, <2>4
<1>3. Inbound(d, "rowsDone") /\ Consume(d, sent) /\ o.phase = "backfill"
  BY <1>0, <1>1 DEF ReceiveRowsDone, Phase
<1>4. PICK s : Took(M, d, "rowsDone", sent, s)  BY <1>2, <1>3, ConsumeEffect
<1>5. PICK g : g = (o.nudged \/ (~ o.joined /\ o.pending # <<>>)) /\ g \in BOOLEAN  OBVIOUS
<1>6. PICK c : c = [o EXCEPT !.phase = "steady", !.joined = TRUE, !.nudged = g]  OBVIOUS
<1>7. client' = [client EXCEPT ![d] = c]  BY <1>0, <1>5, <1>6 DEF ReceiveRowsDone, Shapes
<1>8. /\ c \in Clients(M) /\ c.base = o.base /\ c.joined /\ c.pending = o.pending
      /\ c.phase = "steady" /\ c.after = o.after /\ c.cursor = o.cursor
  BY <1>5, <1>6 DEF Clients, Phases
<1>9. Moves(M, d, c, s)  BY <1>4, <1>7, <1>8 DEF Moves, Took
<1>10. Shapes(M)'  BY <1>9, MovesAt DEF Shapes, LogOf, ReceiveRowsDone, logVars, engineVars
<1> QED  BY <1>0, <1>2, <1>3, <1>4, <1>8, <1>9, <1>10

LEMMA PushPendingEffect ==
  ASSUME NEW M, Shapes(M), NEW d \in Devices, PushPending(d)
  PROVE  \E c, s :
           /\ Moves(M, d, c, s) /\ Shapes(M)'
           /\ Wrote(M, d, PushAll(d), s)
           /\ ToSet(PushAll(d)) = {Push(b) : b \in ToSet(client[d].pending)}
           /\ client[d].phase = "steady" /\ c.phase = "steady"
           /\ c.cursor = client[d].cursor /\ c.after = client[d].after
           /\ c.base = client[d].base /\ c.joined = client[d].joined /\ c.pending = client[d].pending
<1>0. PICK o \in Clients(M) : o = client[d]  BY ShapeParts
<1>1. PICK sent \in Seq(UpFrames(M)) : sent = PushAll(d)  BY PushAllFacts
<1>2. sock' = [sock EXCEPT ![d].up = IF sock[d].open THEN @ \o sent ELSE @]  BY <1>1 DEF PushPending
<1>3. PICK s : Wrote(M, d, sent, s)  BY <1>2, WriteEffect
<1>4. PICK c : c = [o EXCEPT !.nudged = FALSE]  OBVIOUS
<1>5. client' = [client EXCEPT ![d] = c]  BY <1>0, <1>4 DEF PushPending, Shapes
<1>6. /\ c \in Clients(M) /\ c.base = o.base /\ c.joined = o.joined /\ c.pending = o.pending
      /\ c.phase = o.phase /\ c.after = o.after /\ c.cursor = o.cursor
  BY <1>4 DEF Clients
<1>7. Moves(M, d, c, s)  BY <1>3, <1>5, <1>6 DEF Moves, Wrote
<1>8. Shapes(M)'  BY <1>7, MovesAt DEF Shapes, LogOf, PushPending, logVars, engineVars
<1>9. o.phase = "steady"  BY <1>0 DEF PushPending, Phase
<1> QED  BY <1>0, <1>1, <1>3, <1>6, <1>7, <1>8, <1>9, PushAllFacts


\* What is left of a connection the client gives up.
Dropped(M, d) ==
  /\ sock' = [sock EXCEPT ![d] = NoSocket]
  /\ stale' \in [Devices -> Seq(Pushes(M))]
  /\ ToSet(stale'[d]) = ToSet(stale[d]) \cup {f \in ToSet(sock[d].up) : f.kind = "push"}
  /\ \A e \in Devices : e # d => stale'[e] = stale[e]

LEMMA DropEffect ==
  ASSUME NEW M, Shapes(M), NEW d \in Devices, DropSocket(d)
  PROVE  Dropped(M, d)
<1>1. PICK u \in Seq(UpFrames(M)) : u = sock[d].up  BY ShapeParts, SockParts
<1>2. PICK I : I = {n \in DOMAIN u : IsPush(u[n])}  OBVIOUS
<1>3. PICK k : k = KeepAt(u, I)  OBVIOUS
<1>4. k \in Seq(UpFrames(M)) /\ ToSet(k) = {f \in ToSet(u) : f.kind = "push"}
  <2>1. KeepAt(u, I) \in Seq(UpFrames(M)) /\ ToSet(KeepAt(u, I)) = {u[i] : i \in I \cap 1 .. Len(u)}
    BY ToSetOfKeepAt
  <2>2. ToSet(u) = {u[i] : i \in 1 .. Len(u)} /\ DOMAIN u = 1 .. Len(u)  BY ToSetOfSeq
  <2> QED  BY <1>2, <1>3, <2>1, <2>2 DEF IsPush
<1>5. \A f \in ToSet(u) : f.kind = "push" => f \in Pushes(M)
  <2>1. ToSet(u) \subseteq UpFrames(M)  BY ToSetOfSeq
  <2> QED  BY <2>1, FrameParts
<1>6. k \in Seq(Pushes(M))
  <2>1. ToSet(k) \subseteq Pushes(M)  BY <1>4, <1>5
  <2> QED  BY <1>4, <2>1, SeqOfFewer
<1>7. PICK q \in Seq(Pushes(M)) : q = stale[d]  BY ShapeParts
<1>8. q \o k \in Seq(Pushes(M)) /\ ToSet(q \o k) = ToSet(q) \cup ToSet(k)  BY <1>6, ToSetOfConcat
<1>9. InFlightPushes(d) = k  BY <1>1, <1>2, <1>3 DEF InFlightPushes
<1>10. stale' = [stale EXCEPT ![d] = q \o k] /\ sock' = [sock EXCEPT ![d] = NoSocket]
  BY <1>7, <1>9 DEF DropSocket, Shapes
<1>11. /\ stale' \in [Devices -> Seq(Pushes(M))] /\ stale'[d] = q \o k
       /\ \A e \in Devices : e # d => stale'[e] = stale[e]
  BY <1>8, <1>10 DEF Shapes
<1> QED  BY <1>1, <1>4, <1>7, <1>8, <1>10, <1>11 DEF Dropped

\* A session that ends, seen closed or cut.
LEMMA EndSessionEffect ==
  ASSUME NEW M, Shapes(M), NEW d \in Devices, EndSession(d), faults' \in Nat
  PROVE  \E c :
           /\ Moves(M, d, c, NoSocket) /\ Shapes(M)' /\ Dropped(M, d)
           /\ c.phase = "idle" /\ c.after = client[d].after
           /\ c.cursor = IF client[d].joined THEN client[d].cursor ELSE client[d].base
           /\ c.base = client[d].base /\ c.joined = client[d].joined /\ c.pending = client[d].pending
<1>0. PICK o \in Clients(M) : o = client[d]  BY ShapeParts
<1>1. Dropped(M, d)  BY DropEffect DEF EndSession
<1>2. PICK n \in Nat : n = IF o.joined THEN o.cursor ELSE o.base  BY ClientParts
<1>3. PICK c : c = [o EXCEPT !.phase = "idle", !.cursor = n]  OBVIOUS
<1>4. client' = [client EXCEPT ![d] = c]  BY <1>0, <1>2, <1>3 DEF EndSession, Shapes
<1>5. /\ c \in Clients(M) /\ c.base = o.base /\ c.joined = o.joined /\ c.pending = o.pending
      /\ c.phase = "idle" /\ c.after = o.after /\ c.cursor = n
  BY <1>2, <1>3 DEF Clients, Phases
<1>6. Moves(M, d, c, NoSocket)  BY <1>1, <1>4, <1>5, NoSocketIsASocket DEF Moves, Dropped
<1>7. Shapes(M)'
  BY <1>1, <1>6, MovesAt DEF Shapes, LogOf, EndSession, Dropped, logVars
<1> QED  BY <1>0, <1>1, <1>2, <1>5, <1>6, <1>7

LEMMA NoClientIsAClient ==
  ASSUME NEW M
  PROVE  NoClient \in Clients(M) /\ ToSet(NoClient.pending) = {}
BY DEF NoClient, Clients, Phases, ToSet

\* A handle that closes, with its process or without.
LEMMA CloseHandleEffect ==
  ASSUME NEW M, Shapes(M), NEW d \in Devices, CloseHandle(d)
  PROVE  /\ Moves(M, d, NoClient, NoSocket) /\ Dropped(M, d)
         /\ doc' \in [Devices -> SUBSET M] /\ doc'[d] = {}
         /\ \A e \in Devices : e # d => doc'[e] = doc[e] /\ job'[e] = job[e] /\ adrift'[e] = adrift[e]
         /\ job' \in [Devices -> Jobs(M)] /\ job'[d] = NoJob
         /\ adrift' \in [Devices -> SUBSET Jobs(M)]
         /\ \A p \in adrift'[d] : p \in adrift[d] \/ (p = job[d] /\ job[d].stage = "sent")
<1>1. Dropped(M, d)  BY DropEffect DEF CloseHandle
<1>2. Moves(M, d, NoClient, NoSocket)
  BY <1>1, NoSocketIsASocket, NoClientIsAClient DEF Moves, Dropped, CloseHandle
<1>3. doc' = [doc EXCEPT ![d] = {}]  BY DEF CloseHandle
<1>4. doc' \in [Devices -> SUBSET M] /\ doc'[d] = {} /\ \A e \in Devices : e # d => doc'[e] = doc[e]
  BY <1>3 DEF Shapes
<1>5. /\ job' \in [Devices -> Jobs(M)] /\ job'[d] = NoJob
      /\ \A e \in Devices : e # d => job'[e] = job[e]
  <2>1. NoJob \in Jobs(M)  BY DEF NoJob, Jobs
  <2>2. job' = [job EXCEPT ![d] = NoJob]  BY DEF CloseHandle
  <2> QED  BY <2>1, <2>2 DEF Shapes
<1>6. PICK x : x = {p \in {job[d]} : p.stage = "sent"}  OBVIOUS
<1>7. adrift' = [adrift EXCEPT ![d] = adrift[d] \cup x]  BY <1>6 DEF CloseHandle
<1>8. x \in SUBSET Jobs(M) /\ \A p \in x : p = job[d] /\ job[d].stage = "sent"  BY <1>6, ShapeParts
<1>9. /\ adrift' \in [Devices -> SUBSET Jobs(M)] /\ adrift'[d] = adrift[d] \cup x
      /\ \A e \in Devices : e # d => adrift'[e] = adrift[e]
  BY <1>7, <1>8 DEF Shapes
<1> QED  BY <1>1, <1>2, <1>4, <1>5, <1>8, <1>9

LEMMA CrashEffect ==
  ASSUME NEW M, Shapes(M), NEW d \in Devices, Crash(d)
  PROVE  /\ Moves(M, d, NoClient, NoSocket) /\ Dropped(M, d) /\ Shapes(M)'
         /\ doc'[d] = {} /\ saving'[d] = {}
         /\ \A e \in Devices : e # d => doc'[e] = doc[e] /\ saving'[e] = saving[e]
<1>1. /\ Moves(M, d, NoClient, NoSocket) /\ Dropped(M, d)
      /\ doc' \in [Devices -> SUBSET M] /\ doc'[d] = {}
      /\ job' \in [Devices -> Jobs(M)] /\ adrift' \in [Devices -> SUBSET Jobs(M)]
      /\ \A e \in Devices : e # d => doc'[e] = doc[e]
  BY CloseHandleEffect DEF Crash
<1>2. saving' \in [Devices -> SUBSET SUBSET M] /\ saving'[d] = {} /\ \A e \in Devices : e # d => saving'[e] = saving[e]
  BY DEF Crash, Shapes
<1>3. faults' \in Nat  BY DEF Crash, MayFault, Shapes
<1>4. Shapes(M)'
  BY <1>1, <1>2, <1>3, MovesAt DEF Shapes, LogOf, Crash, CloseHandle, Dropped, logVars
<1> QED  BY <1>1, <1>2, <1>4

\* A snapshot that is stored leaves the stored cursor.
LEMMA StoreEffect ==
  ASSUME NEW M, Shapes(M), NEW d \in Devices, NEW x \in SUBSET M, disk' = [disk EXCEPT ![d].doc = x]
  PROVE  /\ disk' \in [Devices -> Stores(M)] /\ disk'[d].doc = x /\ disk'[d].cursor = disk[d].cursor
         /\ \A e \in Devices : e # d => disk'[e] = disk[e]
<1>0. PICK o \in Stores(M) : o = disk[d]  BY ShapeParts
<1>1. PICK n : n = [o EXCEPT !.doc = x]  OBVIOUS
<1>2. n \in Stores(M) /\ n.doc = x /\ n.cursor = o.cursor  BY <1>1 DEF Stores
<1>3. disk' = [disk EXCEPT ![d] = n]  BY <1>0, <1>1 DEF Shapes
<1> QED  BY <1>0, <1>2, <1>3 DEF Shapes

LEMMA EvictEffect ==
  ASSUME NEW M, Shapes(M), NEW d \in Devices, Evict(d)
  PROVE  /\ Moves(M, d, NoClient, NoSocket) /\ Dropped(M, d) /\ Shapes(M)'
         /\ doc'[d] = {} /\ disk'[d].cursor = disk[d].cursor
         /\ \/ disk'[d].doc = doc[d] /\ saving' = saving
            \/ "overlap" \in FaultKinds /\ disk' = disk /\ saving'[d] = {doc[d]}
         /\ \A e \in Devices : e # d => doc'[e] = doc[e] /\ disk'[e] = disk[e] /\ saving'[e] = saving[e]
<1>1. /\ Moves(M, d, NoClient, NoSocket) /\ Dropped(M, d)
      /\ doc' \in [Devices -> SUBSET M] /\ doc'[d] = {}
      /\ job' \in [Devices -> Jobs(M)] /\ adrift' \in [Devices -> SUBSET Jobs(M)]
      /\ \A e \in Devices : e # d => doc'[e] = doc[e]
  BY CloseHandleEffect DEF Evict
<1>2. PICK x \in SUBSET M : x = doc[d]  BY ShapeParts
<1>3. /\ disk' \in [Devices -> Stores(M)] /\ saving' \in [Devices -> SUBSET SUBSET M]
      /\ disk'[d].cursor = disk[d].cursor
      /\ \/ disk'[d].doc = x /\ saving' = saving
         \/ "overlap" \in FaultKinds /\ disk' = disk /\ saving'[d] = {x}
      /\ \A e \in Devices : e # d => disk'[e] = disk[e] /\ saving'[e] = saving[e]
  <2>1. CASE disk' = [disk EXCEPT ![d].doc = x] /\ saving' = saving
    BY <2>1, StoreEffect DEF Shapes
  <2>2. CASE "overlap" \in FaultKinds /\ saving' = [saving EXCEPT ![d] = {x}] /\ disk' = disk
    <3>1. {x} \in SUBSET SUBSET M  OBVIOUS
    <3>2. /\ saving' \in [Devices -> SUBSET SUBSET M] /\ saving'[d] = {x}
          /\ \A e \in Devices : e # d => saving'[e] = saving[e]
      BY <2>2, <3>1 DEF Shapes
    <3> QED  BY <2>2, <3>2 DEF Shapes
  <2> QED  BY <1>2, <2>1, <2>2 DEF Evict
<1>4. faults' \in Nat  BY DEF Evict, MayFault, Shapes
<1>5. Shapes(M)'
  BY <1>1, <1>3, <1>4, MovesAt DEF Shapes, LogOf, Evict, CloseHandle, Dropped, logVars
<1> QED  BY <1>1, <1>2, <1>3, <1>5


LEMMA DialEffect ==
  ASSUME NEW M, Shapes(M), NEW d \in Devices, Dial(d)
  PROVE  \E c, s :
           /\ Moves(M, d, c, s) /\ Shapes(M)'
           /\ client[d].phase = "idle" /\ c.phase = "hello"
           /\ c.cursor = client[d].cursor /\ c.after = client[d].after
           /\ c.base = client[d].base /\ c.joined = client[d].joined /\ c.pending = client[d].pending
           /\ s.open /\ ~ s.ready /\ s.owes = "nothing" /\ s.stats = NoStats
           /\ ToSet(s.up) = {Hello} /\ Len(s.up) = 1 /\ ToSet(s.bcast) = {} /\ ToSet(s.down) = {}
<1>0. PICK o \in Clients(M) : o = client[d]  BY ShapeParts
<1>1. PICK u \in Seq(UpFrames(M)) : u = <<Hello>> /\ ToSet(u) = {Hello} /\ Len(u) = 1
  <2>1. PICK h \in UpFrames(M) : h = Hello  BY FramesMade
  <2>2. <<h>> \in Seq(UpFrames(M)) /\ ToSet(<<h>>) = {h} /\ Len(<<h>>) = 1  BY ToSetOfOne
  <2> QED  BY <2>1, <2>2
<1>2. PICK s : s = [NoSocket EXCEPT !.open = TRUE, !.up = u]  OBVIOUS
<1>3. /\ s \in Socks(M) /\ s.open /\ ~ s.ready /\ s.owes = "nothing" /\ s.stats = NoStats
      /\ s.up = u /\ s.bcast = NoSocket.bcast /\ s.down = NoSocket.down
  BY <1>2, NoSocketIsASocket DEF NoSocket, Socks
<1>4. PICK c : c = [o EXCEPT !.phase = "hello"]  OBVIOUS
<1>5. client' = [client EXCEPT ![d] = c]  BY <1>0, <1>4 DEF Dial, Shapes
<1>6. /\ c \in Clients(M) /\ c.base = o.base /\ c.joined = o.joined /\ c.pending = o.pending
      /\ c.phase = "hello" /\ c.after = o.after /\ c.cursor = o.cursor
  BY <1>4 DEF Clients, Phases
<1>7. sock' = [sock EXCEPT ![d] = s]  BY <1>1, <1>2 DEF Dial
<1>8. Moves(M, d, c, s)  BY <1>3, <1>5, <1>6, <1>7 DEF Moves
<1>9. Shapes(M)'  BY <1>8, MovesAt DEF Shapes, LogOf, Dial, logVars, engineVars
<1>10. o.phase = "idle"  BY <1>0 DEF Dial, Phase
<1> QED  BY <1>0, <1>1, <1>3, <1>6, <1>8, <1>9, <1>10, NoSocketIsASocket

\* The batch a device makes of operations at its next id.
Minted(d, ops) == [id |-> <<d, minted[d] + 1>>, ops |-> ops]

LEMMA EnqueueEffect ==
  ASSUME NEW M, Shapes(M), NEW d \in Devices, NEW q \in Seq(Batches(M)), NEW x \in SUBSET M
  PROVE  /\ Enqueue(d, q, x) \in Seq(Batches(M))
         /\ ToSet(Enqueue(d, q, x)) = ToSet(q) \cup IF Cardinality(x) <= MaxPushOps THEN {Minted(d, x)} ELSE {}
<1>1. PICK b : b = Minted(d, x)  OBVIOUS
<1>2. b \in Batches(M)
  <2>1. minted[d] + 1 \in Nat \ {0}  BY ShapeParts
  <2> QED  BY <1>1, <2>1 DEF Minted, Batches, Names
<1>3. Append(q, b) \in Seq(Batches(M)) /\ ToSet(Append(q, b)) = ToSet(q) \cup {b}  BY <1>2, ToSetOfAppend
<1>4. Enqueue(d, q, x) = IF Cardinality(x) <= MaxPushOps THEN Append(q, b) ELSE q  BY <1>1 DEF Enqueue, Minted
<1>5. CASE Cardinality(x) <= MaxPushOps  BY <1>1, <1>3, <1>4, <1>5
<1>6. CASE ~ (Cardinality(x) <= MaxPushOps)  BY <1>4, <1>6
<1> QED  BY <1>5, <1>6

\* What an opening handle starts from.
LEMMA OpenEffect ==
  ASSUME NEW M, Shapes(M), Basic(M), NEW d \in Devices, Open(d)
  PROVE  \E c, x :
           /\ x = StoredOrInit(d) /\ x \in SUBSET M
           /\ c \in Clients(M) /\ client' = [client EXCEPT ![d] = c] /\ Shapes(M)'
           /\ client[d].phase = "closed" /\ c.phase = "idle" /\ ~ c.joined
           /\ c.cursor = disk[d].cursor /\ c.base = disk[d].cursor /\ c.after = 0
           /\ disk[d].cursor = 0 =>
                /\ minted' = [minted EXCEPT ![d] = @ + 1]
                /\ ToSet(c.pending) = IF Cardinality(x) <= MaxPushOps THEN {Minted(d, x)} ELSE {}
           /\ disk[d].cursor # 0 => minted' = minted /\ ToSet(c.pending) = {}
           /\ doc'[d] = x /\ disk'[d].doc = x /\ disk'[d].cursor = disk[d].cursor
           /\ \A e \in Devices : e # d => doc'[e] = doc[e] /\ disk'[e] = disk[e]
<1>1. PICK x : x = StoredOrInit(d)  OBVIOUS
<1>2. x \in SUBSET M
  <2>1. <<d, 0>> \in M /\ disk[d].doc \subseteq M  BY ShapeParts DEF Basic
  <2> QED  BY <1>1, <2>1 DEF StoredOrInit
<1>3. PICK n \in Nat : n = disk[d].cursor  BY ShapeParts
<1>4. PICK q : q = IF n = 0 THEN Enqueue(d, <<>>, x) ELSE <<>>  OBVIOUS
<1>5. /\ q \in Seq(Batches(M))
      /\ ToSet(q) = IF n = 0 /\ Cardinality(x) <= MaxPushOps THEN {Minted(d, x)} ELSE {}
  <2>1. <<>> \in Seq(Batches(M)) /\ ToSet(<<>>) = {}  BY DEF ToSet
  <2>2. /\ Enqueue(d, <<>>, x) \in Seq(Batches(M))
        /\ ToSet(Enqueue(d, <<>>, x)) = IF Cardinality(x) <= MaxPushOps THEN {Minted(d, x)} ELSE {}
    <3>1. PICK e \in Seq(Batches(M)) : e = <<>> /\ ToSet(e) = {}  BY <2>1
    <3>2. /\ Enqueue(d, e, x) \in Seq(Batches(M))
          /\ ToSet(Enqueue(d, e, x)) = ToSet(e) \cup IF Cardinality(x) <= MaxPushOps THEN {Minted(d, x)} ELSE {}
      BY <1>2, EnqueueEffect
    <3> QED  BY <3>1, <3>2
  <2>3. CASE n = 0  BY <1>4, <2>2, <2>3
  <2>4. CASE n # 0
    <3>1. q = <<>>  BY <1>4, <2>4
    <3> QED  BY <2>1, <2>4, <3>1
  <2> QED  BY <2>3, <2>4
<1>6. PICK c : c = [NoClient EXCEPT !.phase = "idle", !.cursor = n, !.base = n, !.pending = q]  OBVIOUS
<1>7. /\ c \in Clients(M) /\ c.phase = "idle" /\ ~ c.joined /\ c.cursor = n /\ c.base = n /\ c.after = 0
      /\ c.pending = q
  BY <1>5, <1>6 DEF NoClient, Clients, Phases
<1>8. client' = [client EXCEPT ![d] = c]  BY <1>1, <1>3, <1>4, <1>6 DEF Open
<1>9. doc' = [doc EXCEPT ![d] = x] /\ disk' = [disk EXCEPT ![d].doc = x]  BY <1>1 DEF Open
<1>10. /\ doc' \in [Devices -> SUBSET M] /\ doc'[d] = x
       /\ \A e \in Devices : e # d => doc'[e] = doc[e]
  BY <1>2, <1>9 DEF Shapes
<1>11. /\ disk' \in [Devices -> Stores(M)] /\ disk'[d].doc = x /\ disk'[d].cursor = disk[d].cursor
       /\ \A e \in Devices : e # d => disk'[e] = disk[e]
  BY <1>2, <1>9, StoreEffect
<1>12. IF n = 0 THEN minted' = [minted EXCEPT ![d] = @ + 1] ELSE minted' = minted
  BY <1>3 DEF Open, Shapes
<1>13. minted' \in [Devices -> Nat]
  <2>1. minted \in [Devices -> Nat]  BY DEF Shapes
  <2>2. CASE n = 0
    <3>1. minted' = [minted EXCEPT ![d] = @ + 1]  BY <1>12, <2>2
    <3> QED  BY <2>1, <3>1
  <2>3. CASE n # 0
    <3>1. minted' = minted  BY <1>12, <2>3
    <3> QED  BY <2>1, <3>1
  <2> QED  BY <2>2, <2>3
<1>14. client' \in [Devices -> Clients(M)]  BY <1>7, <1>8 DEF Shapes
<1>15. Shapes(M)'
  BY <1>10, <1>11, <1>13, <1>14 DEF Shapes, LogOf, Open, logVars, roomVars
<1>16. client[d].phase = "closed"  BY DEF Open, Phase
<1> QED  BY <1>1, <1>2, <1>3, <1>5, <1>7, <1>8, <1>10, <1>11, <1>12, <1>15, <1>16

LEMMA CommitEffect ==
  ASSUME NEW M, Shapes(M), NEW d \in Devices, Commit(d), <<d, commits[d] + 1>> \in M
  PROVE  \E c, x :
           /\ x = {<<d, commits[d] + 1>>} /\ x \in SUBSET M
           /\ c \in Clients(M) /\ client' = [client EXCEPT ![d] = c] /\ Shapes(M)'
           /\ c.phase = client[d].phase /\ c.phase # "closed" /\ c.joined = client[d].joined
           /\ c.cursor = client[d].cursor /\ c.base = client[d].base /\ c.after = client[d].after
           /\ ToSet(c.pending) = ToSet(client[d].pending)
                \cup IF Cardinality(x) <= MaxPushOps THEN {Minted(d, x)} ELSE {}
           /\ doc'[d] = doc[d] \cup x /\ \A e \in Devices : e # d => doc'[e] = doc[e]
<1>0. PICK o \in Clients(M) : o = client[d]  BY ShapeParts
<1>1. PICK x : x = {<<d, commits[d] + 1>>} /\ x \in SUBSET M  OBVIOUS
<1>2. PICK p \in Seq(Batches(M)) : p = o.pending  BY ClientParts
<1>3. PICK q \in Seq(Batches(M)) :
        /\ q = Enqueue(d, p, x)
        /\ ToSet(q) = ToSet(p) \cup IF Cardinality(x) <= MaxPushOps THEN {Minted(d, x)} ELSE {}
  <2>1. /\ Enqueue(d, p, x) \in Seq(Batches(M))
        /\ ToSet(Enqueue(d, p, x)) = ToSet(p) \cup IF Cardinality(x) <= MaxPushOps THEN {Minted(d, x)} ELSE {}
    BY <1>1, EnqueueEffect
  <2> QED  BY <2>1
<1>4. PICK g : g = (o.nudged \/ o.joined) /\ g \in BOOLEAN  OBVIOUS
<1>5. PICK c : c = [o EXCEPT !.pending = q, !.nudged = g]  OBVIOUS
<1>6. /\ c \in Clients(M) /\ c.base = o.base /\ c.joined = o.joined /\ c.pending = q
      /\ c.phase = o.phase /\ c.after = o.after /\ c.cursor = o.cursor
  BY <1>4, <1>5 DEF Clients
<1>7. client' = [client EXCEPT ![d] = c]
  BY <1>0, <1>1, <1>2, <1>3, <1>4, <1>5 DEF Commit, Shapes
<1>8. doc' = [doc EXCEPT ![d] = @ \cup x]  BY <1>1 DEF Commit
<1>9. /\ doc' \in [Devices -> SUBSET M] /\ doc'[d] = doc[d] \cup x
      /\ \A e \in Devices : e # d => doc'[e] = doc[e]
  BY <1>1, <1>8 DEF Shapes
<1>10. /\ commits' \in [Devices -> Nat] /\ minted' \in [Devices -> Nat]  BY DEF Commit, Shapes
<1>11. client' \in [Devices -> Clients(M)]  BY <1>6, <1>7 DEF Shapes
<1>12. Shapes(M)'
  BY <1>9, <1>10, <1>11 DEF Shapes, LogOf, Commit, logVars, roomVars
<1>13. o.phase # "closed"  BY <1>0 DEF Commit, IsOpen, Phase
<1> QED  BY <1>0, <1>1, <1>2, <1>3, <1>6, <1>7, <1>9, <1>12, <1>13


\* The steps that touch neither session nor socket.
LEMMA SaveSnapshotEffect ==
  ASSUME NEW M, Shapes(M), NEW d \in Devices, SaveSnapshot(d)
  PROVE  /\ Shapes(M)' /\ client[d].phase # "closed"
         /\ disk'[d].doc = doc[d] /\ disk'[d].cursor = disk[d].cursor
         /\ \A e \in Devices : e # d => disk'[e] = disk[e]
<1>1. PICK x \in SUBSET M : x = doc[d]  BY ShapeParts
<1>2. disk' = [disk EXCEPT ![d].doc = x]  BY <1>1 DEF SaveSnapshot
<1>3. /\ disk' \in [Devices -> Stores(M)] /\ disk'[d].doc = x /\ disk'[d].cursor = disk[d].cursor
      /\ \A e \in Devices : e # d => disk'[e] = disk[e]
  BY <1>2, StoreEffect
<1>4. Shapes(M)'  BY <1>3 DEF Shapes, LogOf, SaveSnapshot, logVars, roomVars, engineVars
<1> QED  BY <1>1, <1>3, <1>4 DEF SaveSnapshot, IsOpen, Phase

LEMMA BeginSaveEffect ==
  ASSUME NEW M, Shapes(M), NEW d \in Devices, BeginSave(d)
  PROVE  /\ Shapes(M)' /\ client[d].phase # "closed" /\ "overlap" \in FaultKinds
         /\ saving'[d] = {doc[d]} /\ \A e \in Devices : e # d => saving'[e] = saving[e]
<1>1. PICK x : x = {doc[d]}  OBVIOUS
<1>2. x \in SUBSET SUBSET M  BY <1>1, ShapeParts
<1>3. saving' = [saving EXCEPT ![d] = x]  BY <1>1 DEF BeginSave
<1>4. /\ saving' \in [Devices -> SUBSET SUBSET M] /\ saving'[d] = x
      /\ \A e \in Devices : e # d => saving'[e] = saving[e]
  BY <1>2, <1>3 DEF Shapes
<1>5. Shapes(M)'  BY <1>4 DEF Shapes, LogOf, BeginSave, logVars, roomVars, engineVars
<1> QED  BY <1>1, <1>4, <1>5 DEF BeginSave, IsOpen, Phase

LEMMA FinishSaveEffect ==
  ASSUME NEW M, Shapes(M), NEW d \in Devices, FinishSave(d)
  PROVE  /\ Shapes(M)' /\ disk'[d].doc \in saving[d] /\ disk'[d].cursor = disk[d].cursor
         /\ \A e \in Devices : e # d => disk'[e] = disk[e] /\ saving'[e] = saving[e]
         /\ saving'[d] = {}
<1>1. PICK x \in saving[d] : disk' = [disk EXCEPT ![d].doc = x]  BY DEF FinishSave
<1>2. x \in SUBSET M  BY ShapeParts
<1>3. /\ disk' \in [Devices -> Stores(M)] /\ disk'[d].doc = x /\ disk'[d].cursor = disk[d].cursor
      /\ \A e \in Devices : e # d => disk'[e] = disk[e]
  BY <1>1, <1>2, StoreEffect
<1>4. saving' = [saving EXCEPT ![d] = {}]  BY DEF FinishSave
<1>5. /\ saving' \in [Devices -> SUBSET SUBSET M] /\ saving'[d] = {}
      /\ \A e \in Devices : e # d => saving'[e] = saving[e]
  BY <1>4 DEF Shapes
<1>6. Shapes(M)'  BY <1>3, <1>5 DEF Shapes, LogOf, FinishSave, logVars, roomVars, engineVars
<1> QED  BY <1>3, <1>5, <1>6

LEMMA LoseStaleEffect ==
  ASSUME NEW M, Shapes(M), NEW d \in Devices, LoseStale(d), Untouched
  PROVE  /\ Shapes(M)' /\ ToSet(stale'[d]) = {} /\ \A e \in Devices : e # d => stale'[e] = stale[e]
<1>1. stale' = [stale EXCEPT ![d] = <<>>]  BY DEF LoseStale
<1>2. <<>> \in Seq(Pushes(M)) /\ ToSet(<<>>) = {}  BY DEF ToSet
<1>3. /\ stale' \in [Devices -> Seq(Pushes(M))] /\ stale'[d] = <<>>
      /\ \A e \in Devices : e # d => stale'[e] = stale[e]
  BY <1>1, <1>2 DEF Shapes
<1>4. Shapes(M)'  BY <1>3 DEF Shapes, LogOf, LoseStale, Untouched, logVars, engineVars
<1> QED  BY <1>2, <1>3, <1>4

\* The checkpoint worker up to the answer of the room.
LEMMA WorkerEffect ==
  ASSUME NEW M, Shapes(M), NEW d \in Devices,
         BeginCheckpoint(d) \/ ExportSnapshot(d) \/ PostCheckpoint(d) \/ LoseCheckpoint(d)
  PROVE  /\ Shapes(M)'
         /\ UNCHANGED <<logVars, roomVars, client, doc, disk, saving, adrift, commits, minted, faults>>
<1>1. job[d] \in Jobs(M) /\ doc[d] \in SUBSET M /\ client[d].cursor \in Nat
  <2>1. client[d] \in Clients(M)  BY ShapeParts
  <2> QED  BY <2>1, ShapeParts, ClientParts
<1>2. PICK o \in Jobs(M) : o = job[d]  BY <1>1
<1>3. \E j \in Jobs(M) : job' = [job EXCEPT ![d] = j]
  <2>1. CASE BeginCheckpoint(d)
    <3>1. PICK j : j = [NoJob EXCEPT !.stage = "cursor", !.seq = client[d].cursor]  OBVIOUS
    <3>2. j \in Jobs(M)  BY <1>1, <3>1 DEF NoJob, Jobs
    <3> QED  BY <2>1, <3>1, <3>2 DEF BeginCheckpoint
  <2>2. CASE ExportSnapshot(d)
    <3>1. PICK j : j = [o EXCEPT !.stage = "snapshot", !.ops = doc[d]]  OBVIOUS
    <3>2. j \in Jobs(M)  BY <1>1, <3>1 DEF Jobs
    <3> QED  BY <1>2, <2>2, <3>1, <3>2 DEF ExportSnapshot, Shapes
  <2>3. CASE PostCheckpoint(d)
    <3>1. PICK j : j = [o EXCEPT !.stage = "sent", !.frontier = doc[d]]  OBVIOUS
    <3>2. j \in Jobs(M)  BY <1>1, <3>1 DEF Jobs
    <3> QED  BY <1>2, <2>3, <3>1, <3>2 DEF PostCheckpoint, Shapes
  <2>4. CASE LoseCheckpoint(d)
    <3>1. NoJob \in Jobs(M)  BY DEF NoJob, Jobs
    <3> QED  BY <2>4, <3>1 DEF LoseCheckpoint
  <2> QED  BY <2>1, <2>2, <2>3, <2>4
<1>4. job' \in [Devices -> Jobs(M)]  BY <1>3 DEF Shapes
<1>5. UNCHANGED <<logVars, roomVars, client, doc, disk, saving, adrift, commits, minted, faults>>
  BY DEF BeginCheckpoint, ExportSnapshot, PostCheckpoint, LoseCheckpoint, engineVars
<1>6. checkpoints' \in Nat
  BY DEF BeginCheckpoint, ExportSnapshot, PostCheckpoint, LoseCheckpoint, engineVars, Shapes
<1>7. Shapes(M)'  BY <1>4, <1>5, <1>6 DEF Shapes, LogOf, logVars, roomVars
<1> QED  BY <1>5, <1>7

\* The answer: the checkpoint is the room's, or it is refused.
PostAnswered(d) == StoreCheckpoint(d) \/ LateCheckpoint(d)

LEMMA AnsweredPost ==
  ASSUME NEW M, Shapes(M), NEW d \in Devices, PostAnswered(d)
  PROVE  \E post \in Jobs(M) :
           /\ CommitCheckpoint(post.seq, post.ops, post.frontier) \/ UNCHANGED logVars
           /\ \/ job[d] = post /\ post.stage = "sent" /\ job' = [job EXCEPT ![d] = NoJob] /\ adrift' = adrift
              \/ post \in adrift[d] /\ adrift' = [adrift EXCEPT ![d] = @ \ {post}] /\ job' = job
<1>1. CASE StoreCheckpoint(d)
  <2>1. job[d] \in Jobs(M)  BY ShapeParts
  <2> QED  BY <1>1, <2>1 DEF StoreCheckpoint, engineVars
<1>2. CASE LateCheckpoint(d)
  <2>1. adrift[d] \subseteq Jobs(M)  BY ShapeParts
  <2> QED  BY <1>2, <2>1 DEF LateCheckpoint
<1> QED  BY <1>1, <1>2 DEF PostAnswered

LEMMA AnsweredEffect ==
  ASSUME NEW M, Shapes(M), Basic(M), LogInv, headSeq <= MaxSeq, NEW d \in Devices, PostAnswered(d)
  PROVE  /\ Shapes(M)' /\ LogInv'
         /\ UNCHANGED <<roomVars, client, doc, disk, saving, commits, minted, faults, checkpoints>>
         /\ headSeq' = headSeq /\ accepted' = accepted /\ seqFloor' >= seqFloor
<1>1. UNCHANGED <<roomVars, client, doc, disk, saving, commits, minted, faults, checkpoints>>
  BY DEF PostAnswered, StoreCheckpoint, LateCheckpoint, engineVars
<1>2. PICK post \in Jobs(M) :
        /\ CommitCheckpoint(post.seq, post.ops, post.frontier) \/ UNCHANGED logVars
        /\ \/ job[d] = post /\ post.stage = "sent" /\ job' = [job EXCEPT ![d] = NoJob] /\ adrift' = adrift
           \/ post \in adrift[d] /\ adrift' = [adrift EXCEPT ![d] = @ \ {post}] /\ job' = job
  BY AnsweredPost
<1>3. job' \in [Devices -> Jobs(M)] /\ adrift' \in [Devices -> SUBSET Jobs(M)]
  <2>1. NoJob \in Jobs(M)  BY DEF NoJob, Jobs
  <2>2. CASE job' = [job EXCEPT ![d] = NoJob] /\ adrift' = adrift  BY <2>1, <2>2 DEF Shapes
  <2>3. CASE adrift' = [adrift EXCEPT ![d] = @ \ {post}] /\ job' = job
    <3>1. PICK x \in SUBSET Jobs(M) : x = adrift[d] \ {post}  BY ShapeParts
    <3>2. adrift' = [adrift EXCEPT ![d] = x]  BY <2>3, <3>1 DEF Shapes
    <3> QED  BY <2>3, <3>2 DEF Shapes
  <2> QED  BY <1>2, <2>2, <2>3
<1>4. /\ headSeq \in Nat /\ seqFloor \in Nat /\ post.seq \in Nat /\ post.ops \in SUBSET M
      /\ post.frontier \in SUBSET M
  BY DEF LogInv, LogTypeOK, Jobs
<1>5. CASE CommitCheckpoint(post.seq, post.ops, post.frontier)
  <2>1. post.seq \in 0 .. MaxSeq
    <3>1. post.seq <= headSeq  BY <1>4, <1>5 DEF CommitCheckpoint, AheadOfHead
    <3> QED  BY <1>4, <3>1, ChatLogAssumption
  <2>2. post.ops \in Payload /\ post.frontier \in Payload  BY <1>4 DEF Payload, Basic
  <2>3. LogInv'  BY <1>5, <2>1, <2>2, CommitKeepsInv
  <2>4. headSeq' = headSeq /\ accepted' = accepted /\ seqFloor' >= seqFloor
    BY <1>4, <1>5 DEF CommitCheckpoint, FloorRegression
  <2>5. checkpoint'.ops = post.ops /\ checkpoint'.frontier = post.frontier  BY <1>5 DEF CommitCheckpoint
  <2>6. LogOf(M)'  BY <1>4, <2>4, <2>5 DEF LogOf, Shapes
  <2>7. Shapes(M)'  BY <1>1, <1>3, <2>6 DEF Shapes, roomVars
  <2> QED  BY <1>1, <2>3, <2>4, <2>7
<1>6. CASE UNCHANGED logVars
  <2>1. LogInv' /\ headSeq' = headSeq /\ accepted' = accepted /\ seqFloor' >= seqFloor
    BY <1>4, <1>6 DEF LogInv, LogTypeOK, LogIsSuffix, RowsAreHistory, BatchIsUnique, PrunedIsCovered, logVars
  <2>2. LogOf(M)'  BY <1>6 DEF LogOf, Shapes, logVars
  <2>3. Shapes(M)'  BY <1>1, <1>3, <2>2 DEF Shapes, roomVars
  <2> QED  BY <1>1, <2>1, <2>3
<1> QED  BY <1>2, <1>5, <1>6


-----------------------------------------------------------------------------
(***************************************************************************)
(* The names of batches.                                                   *)
(*                                                                         *)
(* The batches known of a device are those in its queue and those in the   *)
(* pushes of its sockets, the dead ones included.  Their ids were minted   *)
(* by the device, an id stands for one batch, and a row the room holds     *)
(* under a known id carries that batch.                                    *)
(***************************************************************************)

Pushed(frames) == {f.batch : f \in {g \in frames : g.kind = "push"}}

KnownIn(queue, up, late) == queue \cup Pushed(up) \cup Pushed(late)

Known(d) == KnownIn(ToSet(client[d].pending), ToSet(sock[d].up), ToSet(stale[d]))

LEMMA PushedGrows ==
  ASSUME NEW F, NEW G, F \subseteq G
  PROVE  Pushed(F) \subseteq Pushed(G)
BY DEF Pushed

LEMMA PushedOfBoth ==
  ASSUME NEW F, NEW G
  PROVE  Pushed(F \cup G) = Pushed(F) \cup Pushed(G)
BY DEF Pushed

LEMMA PushedFacts ==
  ASSUME NEW F
  PROVE  /\ Pushed({f \in F : f.kind = "push"}) = Pushed(F)
         /\ \A f \in F : f.kind = "push" => f.batch \in Pushed(F)
BY DEF Pushed

LEMMA PushedOfNone ==
  /\ Pushed({}) = {} /\ Pushed({Hello}) = {}
  /\ \A n, x : Pushed({RowsReq(n, x)}) = {}
BY DEF Pushed, Hello, RowsReq

LEMMA PushedOfPushes ==
  ASSUME NEW Q
  PROVE  Pushed({Push(b) : b \in Q}) = Q
<1>1. \A b : Push(b).kind = "push" /\ Push(b).batch = b  BY DEF Push
<1>2. \A b \in Q : b \in Pushed({Push(a) : a \in Q})  BY <1>1 DEF Pushed
<1>3. ASSUME NEW b \in Pushed({Push(a) : a \in Q}) PROVE b \in Q
  <2>1. PICK f \in {Push(a) : a \in Q} : f.batch = b  BY DEF Pushed
  <2>2. PICK a \in Q : f = Push(a)  OBVIOUS
  <2> QED  BY <1>1, <2>1, <2>2
<1> QED  BY <1>2, <1>3

\* Known batches, from what the queue, the socket and the dead sockets hold.
LEMMA KnownFacts ==
  ASSUME NEW M, Shapes(M), NEW d \in Devices
  PROVE  /\ \A b \in Known(d) : b \in Batches(M) /\ b.id \in Names
         /\ ToSet(client[d].pending) \subseteq Known(d)
         /\ Pushed(ToSet(sock[d].up)) \subseteq Known(d) /\ Pushed(ToSet(stale[d])) \subseteq Known(d)
<1>1. PICK c \in Clients(M), s \in Socks(M) : c = client[d] /\ s = sock[d]  BY ShapeParts
<1>2. ToSet(c.pending) \subseteq Batches(M)  BY ClientParts
<1>3. \A b \in Pushed(ToSet(s.up)) : b \in Batches(M)
  <2>1. ToSet(s.up) \subseteq UpFrames(M)  BY SockParts
  <2>2. \A f \in ToSet(s.up) : f.kind = "push" => f.batch \in Batches(M)  BY <2>1, FrameParts
  <2> QED  BY <2>2 DEF Pushed
<1>4. \A b \in Pushed(ToSet(stale[d])) : b \in Batches(M)
  <2>1. ToSet(stale[d]) \subseteq Pushes(M)  BY ShapeParts
  <2>2. \A f \in Pushes(M) : f.batch \in Batches(M)  BY DEF Pushes
  <2> QED  BY <2>1, <2>2 DEF Pushed
<1>5. \A b \in Batches(M) : b.id \in Names  BY DEF Batches
<1> QED  BY <1>1, <1>2, <1>3, <1>4, <1>5 DEF Known, KnownIn

LEMMA KnownShrinks ==
  ASSUME NEW d, NEW Q, ToSet(client[d].pending)' \subseteq ToSet(client[d].pending) \cup Q,
         Pushed(ToSet(sock[d].up)') \subseteq Known(d), Pushed(ToSet(stale[d])') \subseteq Known(d)
  PROVE  Known(d)' \subseteq Known(d) \cup Q
<1>1. Known(d)' = ToSet(client[d].pending)' \cup Pushed(ToSet(sock[d].up)') \cup Pushed(ToSet(stale[d])')
  BY DEF Known, KnownIn, Pushed
<1>2. ToSet(client[d].pending) \subseteq Known(d)  BY DEF Known, KnownIn
<1> QED  BY <1>1, <1>2

LEMMA KnownStays ==
  ASSUME NEW d, client[d]' = client[d], sock[d]' = sock[d], stale[d]' = stale[d]
  PROVE  Known(d)' = Known(d)
BY DEF Known, KnownIn, Pushed, ToSet

LogKept == headSeq' = headSeq /\ accepted' = accepted

\* Steps that make no batch and store none.
NoNews == LogKept /\ minted' = minted /\ \A e \in Devices : Known(e)' \subseteq Known(e)

\* Steps that mint a batch, if only to refuse it for its size.
Mints(d) ==
  /\ LogKept
  /\ minted'[d] = minted[d] + 1 /\ \A e \in Devices : e # d => minted'[e] = minted[e]
  /\ \A e \in Devices : e # d => Known(e)' \subseteq Known(e)
  /\ \E x : Known(d)' \subseteq Known(d) \cup {Minted(d, x)}

\* Steps that store one.
Puts(d) ==
  /\ minted' = minted /\ \A e \in Devices : Known(e)' \subseteq Known(e)
  /\ headSeq' = headSeq + 1
  /\ \A s \in 1 .. headSeq : accepted'[s] = accepted[s]
  /\ \E b \in Known(d) : accepted'[headSeq + 1] = [device |-> d, batch |-> b.id, ops |-> b.ops]

NameStep == NoNews \/ \E d \in Devices : Mints(d) \/ Puts(d)


LEMMA LoopIsNoNews ==
  ASSUME NEW M, Shapes(M), NEW d \in Devices, NEW s, LoopStep(M, d, s), ToSet(s.up) \subseteq ToSet(sock[d].up)
  PROVE  NoNews
<1>1. /\ sock'[d] = s /\ \A e \in Devices : e # d => sock'[e] = sock[e]
      /\ UNCHANGED <<stale, client>> /\ LogKept /\ minted' = minted
  BY LoopKeepsShapes DEF LoopStep, LogKept, logVars, engineVars
<1>2. ASSUME NEW e \in Devices, e # d PROVE Known(e)' \subseteq Known(e)
  BY <1>1, <1>2, KnownStays
<1>3. Known(d)' \subseteq Known(d)
  <2>1. ToSet(sock[d].up)' \subseteq ToSet(sock[d].up)
    <3>1. ToSet(sock[d].up)' = ToSet(sock'[d].up)  BY DEF ToSet
    <3> QED  BY <1>1, <3>1
  <2>2. ToSet(client[d].pending)' = ToSet(client[d].pending) /\ ToSet(stale[d])' = ToSet(stale[d])
    BY <1>1 DEF ToSet
  <2>3. Pushed(ToSet(sock[d].up)') \subseteq Pushed(ToSet(sock[d].up))
    <3>1. PICK F, G : F = ToSet(sock[d].up)' /\ G = ToSet(sock[d].up)  OBVIOUS
    <3>2. Pushed(F) \subseteq Pushed(G)  BY <2>1, <3>1, PushedGrows
    <3> QED  BY <3>1, <3>2
  <2>4. Known(d)' \subseteq Known(d) \cup {}  BY <2>2, <2>3, KnownFacts, KnownShrinks
  <2> QED  BY <2>4
<1> QED  BY <1>1, <1>2, <1>3 DEF NoNews

\* What a step of the client's side leaves of the known batches.
LEMMA MoveKnows ==
  ASSUME NEW M, Shapes(M), NEW d \in Devices, NEW c, NEW s, Moves(M, d, c, s), NEW Q,
         ToSet(c.pending) \subseteq ToSet(client[d].pending) \cup Q,
         Pushed(ToSet(s.up)) \subseteq Known(d),
         stale' = stale \/ Dropped(M, d)
  PROVE  /\ Known(d)' \subseteq Known(d) \cup Q
         /\ \A e \in Devices : e # d => Known(e)' \subseteq Known(e)
<1>1. client'[d] = c /\ sock'[d] = s /\ \A e \in Devices : e # d => client'[e] = client[e] /\ sock'[e] = sock[e]
  BY MovesAt
<1>2. \A e \in Devices : e # d => stale'[e] = stale[e]
  <2>1. CASE stale' = stale  BY <2>1
  <2>2. CASE Dropped(M, d)  BY <2>2 DEF Dropped
  <2> QED  BY <2>1, <2>2
<1>3. ASSUME NEW e \in Devices, e # d PROVE Known(e)' \subseteq Known(e)
  BY <1>1, <1>2, <1>3, KnownStays
<1>4. Known(d)' \subseteq Known(d) \cup Q
  <2>1. /\ ToSet(client[d].pending)' = ToSet(c.pending) /\ ToSet(sock[d].up)' = ToSet(s.up)
        /\ ToSet(stale[d])' = ToSet(stale'[d])
    BY <1>1 DEF ToSet
  <2>2. Pushed(ToSet(stale'[d])) \subseteq Known(d)
    <3>1. CASE stale' = stale  BY <3>1, KnownFacts
    <3>2. CASE Dropped(M, d)
      <4>1. PICK U, T : U = ToSet(sock[d].up) /\ T = ToSet(stale[d])  OBVIOUS
      <4>2. ToSet(stale'[d]) = T \cup {f \in U : f.kind = "push"}  BY <3>2, <4>1 DEF Dropped
      <4>3. Pushed(ToSet(stale'[d])) = Pushed(T) \cup Pushed(U)
        <5>1. Pushed(T \cup {f \in U : f.kind = "push"}) = Pushed(T) \cup Pushed({f \in U : f.kind = "push"})
          BY PushedOfBoth
        <5> QED  BY <4>2, <5>1, PushedFacts
      <4> QED  BY <4>1, <4>3, KnownFacts
    <3> QED  BY <3>1, <3>2
  <2> QED  BY <2>1, <2>2, KnownShrinks
<1> QED  BY <1>3, <1>4

LEMMA MoveIsNoNews ==
  ASSUME NEW M, Shapes(M), NEW d \in Devices, NEW c, NEW s, Moves(M, d, c, s),
         LogKept, minted' = minted,
         ToSet(c.pending) \subseteq ToSet(client[d].pending),
         Pushed(ToSet(s.up)) \subseteq Known(d),
         stale' = stale \/ Dropped(M, d)
  PROVE  NoNews
<1>1. Known(d)' \subseteq Known(d) \cup {} /\ \A e \in Devices : e # d => Known(e)' \subseteq Known(e)
  BY MoveKnows
<1> QED  BY <1>1 DEF NoNews

LEMMA HubNames ==
  ASSUME NEW M, Shapes(M), Basic(M), LogInv, NEW d \in Devices, HubStep(d), Untouched,
         \A f \in ToSet(sock[d].up) : f.kind = "push" => f.batch.id \in BatchIds
  PROVE  NameStep /\ Shapes(M)' /\ LogInv' /\ (headSeq' = headSeq \/ (headSeq' = headSeq + 1 /\ headSeq < MaxSeq))
<1>0. sock[d].up \in Seq(UpFrames(M)) /\ sock[d] \in Socks(M)  BY ShapeParts, SockParts
<1>1. ASSUME NEW s, LoopStep(M, d, s), s.up = sock[d].up \/ s.up = <<>> \/ (\E k : NextFrame(d, k) /\ s.up = Tail(sock[d].up))
      PROVE  NameStep /\ Shapes(M)' /\ LogInv' /\ headSeq' = headSeq
  <2>1. ToSet(s.up) \subseteq ToSet(sock[d].up)
    <3>1. CASE s.up = sock[d].up  BY <3>1
    <3>2. CASE s.up = <<>>  BY <3>2 DEF ToSet
    <3>3. ASSUME NEW k, NextFrame(d, k), s.up = Tail(sock[d].up) PROVE ToSet(s.up) \subseteq ToSet(sock[d].up)
      BY <3>3, NextFrameParts
    <3> QED  BY <1>1, <3>1, <3>2, <3>3
  <2>2. NoNews  BY <1>1, <2>1, LoopIsNoNews
  <2>3. Shapes(M)'  BY <1>1, LoopKeepsShapes
  <2>4. LogInv' /\ headSeq' = headSeq
    BY <1>1 DEF LoopStep, LogInv, LogTypeOK, LogIsSuffix, RowsAreHistory, BatchIsUnique, PrunedIsCovered, logVars
  <2> QED  BY <2>2, <2>3, <2>4 DEF NameStep
<1>2. CASE ServeEvent(d)
  <2>1. PICK s : LoopStep(M, d, s) /\ s.up = sock[d].up  BY <1>2, ServeEventEffect
  <2> QED  BY <1>1, <2>1
<1>3. CASE CloseLagged(d)
  <2>1. PICK s : LoopStep(M, d, s) /\ s.up = <<>>  BY <1>3, CloseLaggedEffect
  <2> QED  BY <1>1, <2>1
<1>4. CASE HandleHello(d)
  <2>1. PICK s : LoopStep(M, d, s) /\ NextFrame(d, "hello") /\ s.up = Tail(sock[d].up)  BY <1>4, HandleHelloEffect
  <2> QED  BY <1>1, <2>1
<1>5. CASE SendState(d)
  <2>1. PICK s : LoopStep(M, d, s) /\ s.up = sock[d].up  BY <1>5, SendStateEffect
  <2> QED  BY <1>1, <2>1
<1>6. CASE HandleRowsReq(d)
  <2>1. PICK s : LoopStep(M, d, s) /\ NextFrame(d, "rowsReq") /\ s.up = Tail(sock[d].up)  BY <1>6, HandleRowsReqEffect
  <2> QED  BY <1>1, <2>1
<1>7. CASE FinishRows(d)
  <2>1. PICK s : LoopStep(M, d, s) /\ s.up = sock[d].up  BY <1>7, FinishRowsEffect
  <2> QED  BY <1>1, <2>1
<1>8. CASE HandlePush(d)
  <2>1. PICK b \in Batches(M), socks \in [Devices -> Socks(M)] :
          /\ Head(sock[d].up).batch = b /\ Head(sock[d].up) \in ToSet(sock[d].up) /\ NextFrame(d, "push")
          /\ \A e \in Devices : e # d => socks[e] = sock[e]
          /\ socks[d].up = Tail(sock[d].up)
          /\ PublishStep(M, socks, d, d, b) /\ UNCHANGED stale
          /\ Shapes(M)'
    BY <1>8, HandlePushEffect
  <2>2. b \in Known(d)
    <3>1. PICK F : F = ToSet(sock[d].up)  OBVIOUS
    <3>2. PICK f \in F : f = Head(sock[d].up)  BY <2>1, <3>1
    <3>3. f.kind = "push" /\ f.batch = b  BY <2>1, <3>2 DEF NextFrame
    <3>4. b \in Pushed(F)  BY <3>3, PushedFacts
    <3> QED  BY <3>1, <3>4, KnownFacts
  <2>3. \A e \in Devices : ToSet(sock'[e].up) \subseteq ToSet(sock[e].up)
    <3>1. \A e \in Devices : sock'[e].up = socks[e].up  BY <2>1 DEF PublishStep, SameButEvents
    <3>2. ToSet(Tail(sock[d].up)) \subseteq ToSet(sock[d].up)  BY <2>1, NextFrameParts
    <3> QED  BY <2>1, <3>1, <3>2
  <2>4. ASSUME NEW e \in Devices PROVE Known(e)' \subseteq Known(e)
    <3>1. /\ ToSet(client[e].pending)' = ToSet(client[e].pending) /\ ToSet(stale[e])' = ToSet(stale[e])
          /\ ToSet(sock[e].up)' = ToSet(sock'[e].up)
      BY <2>1 DEF Untouched, ToSet
    <3>2. Pushed(ToSet(sock[e].up)') \subseteq Pushed(ToSet(sock[e].up))
      <4>1. PICK F, G : F = ToSet(sock[e].up)' /\ G = ToSet(sock[e].up)  OBVIOUS
      <4>2. Pushed(F) \subseteq Pushed(G)  BY <2>3, <3>1, <4>1, PushedGrows
      <4> QED  BY <4>1, <4>2
    <3>3. Known(e)' \subseteq Known(e) \cup {}  BY <3>1, <3>2, KnownFacts, KnownShrinks
    <3> QED  BY <3>3
  <2>5. minted' = minted  BY DEF Untouched, engineVars
  <2>6. LogInv'  BY <2>1 DEF PublishStep
  <2>7. CASE Appended(socks, d, d, b)
    BY <2>1, <2>2, <2>4, <2>5, <2>6, <2>7 DEF Appended, NameStep, Puts
  <2>8. CASE Replayed(socks, d, b)
    <3>1. UNCHANGED logVars  BY <2>8 DEF Replayed
    <3>2. LogKept  BY <3>1 DEF LogKept, logVars
    <3>3. NoNews  BY <2>4, <2>5, <3>2 DEF NoNews
    <3> QED  BY <2>1, <2>6, <3>2, <3>3 DEF NameStep, LogKept
  <2> QED  BY <2>1, <2>7, <2>8 DEF PublishStep
<1> QED  BY <1>2, <1>3, <1>4, <1>5, <1>6, <1>7, <1>8 DEF HubStep


\* What a session writes is known.
LEMMA WrittenIsKnown ==
  ASSUME NEW M, Shapes(M), NEW d \in Devices, NEW sent, NEW s, Pushed(ToSet(sent)) \subseteq Known(d),
         ToSet(s.up) = ToSet(sock[d].up) \cup IF sock[d].open THEN ToSet(sent) ELSE {}
  PROVE  Pushed(ToSet(s.up)) \subseteq Known(d)
<1>1. PICK U, N : U = ToSet(sock[d].up) /\ N = ToSet(sent)  OBVIOUS
<1>2. ToSet(s.up) \subseteq U \cup N  BY <1>1
<1>3. Pushed(ToSet(s.up)) \subseteq Pushed(U \cup N)  BY <1>2, PushedGrows
<1>4. Pushed(U \cup N) = Pushed(U) \cup Pushed(N)  BY PushedOfBoth
<1>5. Pushed(U) \subseteq Known(d)  BY <1>1, KnownFacts
<1> QED  BY <1>1, <1>3, <1>4, <1>5

LEMMA TookIsKnown ==
  ASSUME NEW M, Shapes(M), NEW d \in Devices, NEW kind, NEW sent, NEW s, Took(M, d, kind, sent, s),
         Pushed(ToSet(sent)) \subseteq Known(d)
  PROVE  Pushed(ToSet(s.up)) \subseteq Known(d)
<1>1. ToSet(s.up) = ToSet(sock[d].up) \cup IF sock[d].open THEN ToSet(sent) ELSE {}  BY DEF Took
<1> QED  BY <1>1, WrittenIsKnown

LEMMA WroteIsKnown ==
  ASSUME NEW M, Shapes(M), NEW d \in Devices, NEW sent, NEW s, Wrote(M, d, sent, s),
         Pushed(ToSet(sent)) \subseteq Known(d)
  PROVE  Pushed(ToSet(s.up)) \subseteq Known(d)
<1>1. ToSet(s.up) = ToSet(sock[d].up) \cup IF sock[d].open THEN ToSet(sent) ELSE {}  BY DEF Wrote
<1> QED  BY <1>1, WrittenIsKnown

LEMMA NothingIsKnown ==
  ASSUME NEW M, NEW d \in Devices
  PROVE  /\ Pushed(ToSet(<<>>)) \subseteq Known(d)
         /\ \A n \in Nat, x \in BOOLEAN : Pushed(ToSet(<<RowsReq(n, x)>>)) \subseteq Known(d)
         /\ Pushed(ToSet(NoSocket.up)) \subseteq Known(d)
<1>1. ToSet(<<>>) = {} /\ Pushed({}) = {}  BY PushedOfNone DEF ToSet
<1>2. ASSUME NEW n \in Nat, NEW x \in BOOLEAN PROVE Pushed(ToSet(<<RowsReq(n, x)>>)) = {}
  <2>1. PICK r \in UpFrames(M) : r = RowsReq(n, x)  BY FramesMade
  <2>2. ToSet(<<r>>) = {r}  BY ToSetOfOne
  <2>3. Pushed({r}) = {}  BY <2>1, PushedOfNone
  <2> QED  BY <2>1, <2>2, <2>3
<1> QED  BY <1>1, <1>2, NoSocketIsASocket

LEMMA SessionNames ==
  ASSUME NEW M, Shapes(M), NEW d \in Devices, Session(d) \/ Cut(d)
  PROVE  NoNews /\ Shapes(M)' /\ UNCHANGED <<logVars, commits>> /\ (faults' = faults \/ Cut(d))
<1>0. /\ UNCHANGED <<logVars, commits>> /\ LogKept /\ minted' = minted
      /\ faults' \in Nat /\ (faults' = faults \/ Cut(d))
  <2>1. faults \in Nat  BY DEF Shapes
  <2>2. UNCHANGED <<logVars, commits, minted>> /\ (faults' = faults \/ (Cut(d) /\ faults' = faults + 1))
    BY DEF Session, ReceiveState, FetchCheckpoint, ReceiveRow, ReceiveAck, ReceiveRowsDone, PushPending,
           SeeClose, Cut, EndSession, MayFault, engineVars
  <2>3. LogKept  BY <2>2 DEF LogKept, logVars
  <2> QED  BY <2>1, <2>2, <2>3
<1>1. CASE ReceiveState(d)
  <2>1. PICK c, s : /\ Moves(M, d, c, s) /\ Shapes(M)' /\ c.pending = client[d].pending
                    /\ \/ \E n \in Nat : Took(M, d, "state", <<RowsReq(n, client[d].joined)>>, s)
                       \/ Took(M, d, "state", <<>>, s)
    BY <1>1, ReceiveStateEffect
  <2>2. client[d].joined \in BOOLEAN
    <3>1. client[d] \in Clients(M)  BY ShapeParts
    <3> QED  BY <3>1, ClientParts
  <2>3. Pushed(ToSet(s.up)) \subseteq Known(d)
    <3>1. CASE Took(M, d, "state", <<>>, s)  BY <3>1, NothingIsKnown, TookIsKnown
    <3>2. ASSUME NEW n \in Nat, Took(M, d, "state", <<RowsReq(n, client[d].joined)>>, s)
          PROVE  Pushed(ToSet(s.up)) \subseteq Known(d)
      <4>1. Pushed(ToSet(<<RowsReq(n, client[d].joined)>>)) \subseteq Known(d)  BY <2>2, NothingIsKnown
      <4> QED  BY <3>2, <4>1, TookIsKnown
    <3> QED  BY <2>1, <3>1, <3>2
  <2>4. stale' = stale  BY <1>1 DEF ReceiveState
  <2>5. ToSet(c.pending) \subseteq ToSet(client[d].pending)  BY <2>1
  <2>6. NoNews  BY <1>0, <2>1, <2>3, <2>4, <2>5, MoveIsNoNews
  <2> QED  BY <1>0, <2>1, <2>6
<1>2. CASE FetchCheckpoint(d)
  <2>1. PICK c, s : /\ Moves(M, d, c, s) /\ Shapes(M)' /\ c.pending = client[d].pending
                    /\ Wrote(M, d, <<RowsReq(client[d].after, client[d].joined)>>, s)
    BY <1>2, FetchCheckpointEffect
  <2>2. client[d].joined \in BOOLEAN /\ client[d].after \in Nat
    <3>1. client[d] \in Clients(M)  BY ShapeParts
    <3> QED  BY <3>1, ClientParts
  <2>3. Pushed(ToSet(s.up)) \subseteq Known(d)
    <3>1. Pushed(ToSet(<<RowsReq(client[d].after, client[d].joined)>>)) \subseteq Known(d)
      BY <2>2, NothingIsKnown
    <3> QED  BY <2>1, <3>1, WroteIsKnown
  <2>4. stale' = stale  BY <1>2 DEF FetchCheckpoint
  <2>5. ToSet(c.pending) \subseteq ToSet(client[d].pending)  BY <2>1
  <2>6. NoNews  BY <1>0, <2>1, <2>3, <2>4, <2>5, MoveIsNoNews
  <2> QED  BY <1>0, <2>1, <2>6
<1>3. CASE ReceiveRow(d)
  <2>1. PICK c, s : /\ Moves(M, d, c, s) /\ Shapes(M)' /\ c.pending = client[d].pending
                    /\ Took(M, d, "row", <<>>, s)
    BY <1>3, ReceiveRowEffect
  <2>3. Pushed(ToSet(s.up)) \subseteq Known(d)  BY <2>1, NothingIsKnown, TookIsKnown
  <2>4. stale' = stale  BY <1>3 DEF ReceiveRow
  <2>5. ToSet(c.pending) \subseteq ToSet(client[d].pending)  BY <2>1
  <2>6. NoNews  BY <1>0, <2>1, <2>3, <2>4, <2>5, MoveIsNoNews
  <2> QED  BY <1>0, <2>1, <2>6
<1>4. CASE ReceiveAck(d)
  <2>1. PICK c, s : /\ Moves(M, d, c, s) /\ Shapes(M)'
                    /\ ToSet(c.pending) \subseteq ToSet(client[d].pending)
                    /\ Took(M, d, "ack", <<>>, s)
    BY <1>4, ReceiveAckEffect
  <2>3. Pushed(ToSet(s.up)) \subseteq Known(d)  BY <2>1, NothingIsKnown, TookIsKnown
  <2>4. stale' = stale  BY <1>4 DEF ReceiveAck
  <2>6. NoNews  BY <1>0, <2>1, <2>3, <2>4, MoveIsNoNews
  <2> QED  BY <1>0, <2>1, <2>6
<1>5. CASE ReceiveRowsDone(d)
  <2>1. PICK c, s, sent : /\ Moves(M, d, c, s) /\ Shapes(M)' /\ c.pending = client[d].pending
                          /\ ToSet(sent) \subseteq {Push(b) : b \in ToSet(client[d].pending)}
                          /\ Took(M, d, "rowsDone", sent, s)
    BY <1>5, ReceiveRowsDoneEffect
  <2>2. Pushed(ToSet(sent)) \subseteq Known(d)
    <3>1. PICK Q : Q = ToSet(client[d].pending)  OBVIOUS
    <3>2. Pushed(ToSet(sent)) \subseteq Pushed({Push(b) : b \in Q})  BY <2>1, <3>1, PushedGrows
    <3> QED  BY <3>1, <3>2, PushedOfPushes, KnownFacts
  <2>3. Pushed(ToSet(s.up)) \subseteq Known(d)  BY <2>1, <2>2, TookIsKnown
  <2>4. stale' = stale  BY <1>5 DEF ReceiveRowsDone
  <2>5. ToSet(c.pending) \subseteq ToSet(client[d].pending)  BY <2>1
  <2>6. NoNews  BY <1>0, <2>1, <2>3, <2>4, <2>5, MoveIsNoNews
  <2> QED  BY <1>0, <2>1, <2>6
<1>6. CASE PushPending(d)
  <2>1. PICK c, s : /\ Moves(M, d, c, s) /\ Shapes(M)' /\ c.pending = client[d].pending
                    /\ ToSet(PushAll(d)) = {Push(b) : b \in ToSet(client[d].pending)}
                    /\ Wrote(M, d, PushAll(d), s)
    BY <1>6, PushPendingEffect
  <2>2. Pushed(ToSet(PushAll(d))) \subseteq Known(d)
    <3>1. PICK Q : Q = ToSet(client[d].pending)  OBVIOUS
    <3>2. Pushed(ToSet(PushAll(d))) = Pushed({Push(b) : b \in Q})  BY <2>1, <3>1
    <3> QED  BY <3>1, <3>2, PushedOfPushes, KnownFacts
  <2>3. Pushed(ToSet(s.up)) \subseteq Known(d)  BY <2>1, <2>2, WroteIsKnown
  <2>4. stale' = stale  BY <1>6 DEF PushPending
  <2>5. ToSet(c.pending) \subseteq ToSet(client[d].pending)  BY <2>1
  <2>6. NoNews  BY <1>0, <2>1, <2>3, <2>4, <2>5, MoveIsNoNews
  <2> QED  BY <1>0, <2>1, <2>6
<1>7. CASE SeeClose(d) \/ Cut(d)
  <2>1. EndSession(d)  BY <1>7 DEF SeeClose, Cut
  <2>2. PICK c : /\ Moves(M, d, c, NoSocket) /\ Shapes(M)' /\ Dropped(M, d) /\ c.pending = client[d].pending
    BY <1>0, <2>1, EndSessionEffect
  <2>3. ToSet(c.pending) \subseteq ToSet(client[d].pending)  BY <2>2
  <2>4. NoNews  BY <1>0, <2>2, <2>3, NothingIsKnown, MoveIsNoNews
  <2> QED  BY <1>0, <2>2, <2>4
<1> QED  BY <1>1, <1>2, <1>3, <1>4, <1>5, <1>6, <1>7 DEF Session


\* Nothing about the names changes when neither queue nor socket does.
LEMMA ApartIsNoNews ==
  ASSUME NEW M, Shapes(M), NEW d \in Devices, UNCHANGED <<sock, client, minted>>, LogKept,
         ToSet(stale'[d]) = {} \/ stale' = stale,
         \A e \in Devices : e # d => stale'[e] = stale[e]
  PROVE  NoNews
<1>1. ASSUME NEW e \in Devices, e # d PROVE Known(e)' \subseteq Known(e)
  BY <1>1, KnownStays
<1>2. Known(d)' \subseteq Known(d)
  <2>1. CASE stale' = stale  BY <2>1, KnownStays
  <2>2. CASE ToSet(stale'[d]) = {}
    <3>1. /\ ToSet(client[d].pending)' = ToSet(client[d].pending) /\ ToSet(sock[d].up)' = ToSet(sock[d].up)
          /\ ToSet(stale[d])' = {}
      BY <2>2 DEF ToSet
    <3>2. Pushed(ToSet(sock[d].up)') \subseteq Known(d)  BY <3>1, KnownFacts
    <3>3. Pushed(ToSet(stale[d])') \subseteq Known(d)  BY <3>1, PushedOfNone
    <3>4. Known(d)' \subseteq Known(d) \cup {}  BY <3>1, <3>2, <3>3, KnownShrinks
    <3> QED  BY <3>4
  <2> QED  BY <2>1, <2>2
<1> QED  BY <1>1, <1>2 DEF NoNews

LEMMA HandleNames ==
  ASSUME NEW M, Shapes(M), Basic(M), NEW d \in Devices,
         Open(d) \/ Commit(d) \/ Dial(d) \/ SaveSnapshot(d) \/ BeginSave(d) \/ FinishSave(d)
           \/ Crash(d) \/ Evict(d),
         commits[d] < MaxCommits => <<d, commits[d] + 1>> \in M
  PROVE  NameStep /\ Shapes(M)' /\ UNCHANGED logVars
<1>0. UNCHANGED logVars /\ LogKept
  <2>1. UNCHANGED logVars
    BY DEF Open, Commit, Dial, SaveSnapshot, BeginSave, FinishSave, Crash, Evict, CloseHandle
  <2> QED  BY <2>1 DEF LogKept, logVars
<1>1. CASE Open(d)
  <2>1. PICK c, x :
          /\ c \in Clients(M) /\ client' = [client EXCEPT ![d] = c] /\ Shapes(M)'
          /\ disk[d].cursor = 0 =>
               /\ minted' = [minted EXCEPT ![d] = @ + 1]
               /\ ToSet(c.pending) = IF Cardinality(x) <= MaxPushOps THEN {Minted(d, x)} ELSE {}
          /\ disk[d].cursor # 0 => minted' = minted /\ ToSet(c.pending) = {}
    BY <1>1, OpenEffect
  <2>2. PICK s \in Socks(M) : s = sock[d]  BY ShapeParts
  <2>3. sock' = [sock EXCEPT ![d] = s] /\ stale' = stale  BY <1>1, <2>2 DEF Open, roomVars, Shapes
  <2>4. Moves(M, d, c, s)  BY <2>1, <2>2, <2>3 DEF Moves
  <2>5. Pushed(ToSet(s.up)) \subseteq Known(d)  BY <2>2, KnownFacts
  <2>6. CASE disk[d].cursor = 0
    <3>1. PICK Q : Q = {Minted(d, x)}  OBVIOUS
    <3>2. ToSet(c.pending) \subseteq ToSet(client[d].pending) \cup Q  BY <2>1, <2>6, <3>1
    <3>3. Known(d)' \subseteq Known(d) \cup Q /\ \A e \in Devices : e # d => Known(e)' \subseteq Known(e)
      BY <2>3, <2>4, <2>5, <3>2, MoveKnows
    <3>4. minted' = [minted EXCEPT ![d] = @ + 1]  BY <2>1, <2>6
    <3>5. minted'[d] = minted[d] + 1 /\ \A e \in Devices : e # d => minted'[e] = minted[e]
      BY <3>4 DEF Shapes
    <3>6. Mints(d)  BY <1>0, <3>1, <3>3, <3>5 DEF Mints
    <3> QED  BY <1>0, <2>1, <3>6 DEF NameStep
  <2>7. CASE disk[d].cursor # 0
    <3>1. ToSet(c.pending) \subseteq ToSet(client[d].pending) /\ minted' = minted  BY <2>1, <2>7
    <3>2. NoNews  BY <1>0, <2>3, <2>4, <2>5, <3>1, MoveIsNoNews
    <3> QED  BY <1>0, <2>1, <3>2 DEF NameStep
  <2> QED  BY <2>6, <2>7
<1>2. CASE Commit(d)
  <2>0. <<d, commits[d] + 1>> \in M  BY <1>2 DEF Commit
  <2>1. PICK c, x :
          /\ c \in Clients(M) /\ client' = [client EXCEPT ![d] = c] /\ Shapes(M)'
          /\ ToSet(c.pending) = ToSet(client[d].pending)
               \cup IF Cardinality(x) <= MaxPushOps THEN {Minted(d, x)} ELSE {}
    BY <1>2, <2>0, CommitEffect
  <2>2. PICK s \in Socks(M) : s = sock[d]  BY ShapeParts
  <2>3. sock' = [sock EXCEPT ![d] = s] /\ stale' = stale  BY <1>2, <2>2 DEF Commit, roomVars, Shapes
  <2>4. Moves(M, d, c, s)  BY <2>1, <2>2, <2>3 DEF Moves
  <2>5. Pushed(ToSet(s.up)) \subseteq Known(d)  BY <2>2, KnownFacts
  <2>6. PICK Q : Q = {Minted(d, x)}  OBVIOUS
  <2>7. ToSet(c.pending) \subseteq ToSet(client[d].pending) \cup Q  BY <2>1, <2>6
  <2>8. Known(d)' \subseteq Known(d) \cup Q /\ \A e \in Devices : e # d => Known(e)' \subseteq Known(e)
    BY <2>3, <2>4, <2>5, <2>7, MoveKnows
  <2>9. minted'[d] = minted[d] + 1 /\ \A e \in Devices : e # d => minted'[e] = minted[e]
    BY <1>2 DEF Commit, Shapes
  <2>10. Mints(d)  BY <1>0, <2>6, <2>8, <2>9 DEF Mints
  <2> QED  BY <1>0, <2>1, <2>10 DEF NameStep
<1>3. CASE Dial(d)
  <2>1. PICK c, s : Moves(M, d, c, s) /\ Shapes(M)' /\ c.pending = client[d].pending /\ ToSet(s.up) = {Hello}
    BY <1>3, DialEffect
  <2>2. Pushed(ToSet(s.up)) \subseteq Known(d)  BY <2>1, PushedOfNone
  <2>3. stale' = stale /\ minted' = minted  BY <1>3 DEF Dial, engineVars
  <2>4. ToSet(c.pending) \subseteq ToSet(client[d].pending)  BY <2>1
  <2>5. NoNews  BY <1>0, <2>1, <2>2, <2>3, <2>4, MoveIsNoNews
  <2> QED  BY <1>0, <2>1, <2>5 DEF NameStep
<1>4. CASE SaveSnapshot(d) \/ BeginSave(d) \/ FinishSave(d)
  <2>1. Shapes(M)'  BY <1>4, SaveSnapshotEffect, BeginSaveEffect, FinishSaveEffect
  <2>2. UNCHANGED <<sock, stale, client, minted>>
    BY <1>4 DEF SaveSnapshot, BeginSave, FinishSave, roomVars, engineVars
  <2>3. NoNews  BY <1>0, <2>2, ApartIsNoNews
  <2> QED  BY <1>0, <2>1, <2>3 DEF NameStep
<1>5. CASE Crash(d) \/ Evict(d)
  <2>1. Moves(M, d, NoClient, NoSocket) /\ Dropped(M, d) /\ Shapes(M)'  BY <1>5, CrashEffect, EvictEffect
  <2>2. minted' = minted  BY <1>5 DEF Crash, Evict, CloseHandle
  <2>3. ToSet(NoClient.pending) \subseteq ToSet(client[d].pending)  BY NoClientIsAClient
  <2>4. NoNews  BY <1>0, <2>1, <2>2, <2>3, NothingIsKnown, MoveIsNoNews
  <2> QED  BY <1>0, <2>1, <2>4 DEF NameStep
<1> QED  BY <1>1, <1>2, <1>3, <1>4, <1>5

LEMMA ApartNames ==
  ASSUME NEW M, Shapes(M), Basic(M), LogInv, headSeq <= MaxSeq, NEW d \in Devices,
         Environment(d) \/ CheckpointWorker(d),
         \A b \in Known(d) : b.id \in BatchIds
  PROVE  NameStep /\ Shapes(M)' /\ LogInv' /\ (headSeq' = headSeq \/ (headSeq' = headSeq + 1 /\ headSeq < MaxSeq))
<1>1. CASE HandleStalePush(d) /\ Untouched
  <2>1. \A f \in ToSet(stale[d]) : f.batch.id \in BatchIds /\ f.batch \in Known(d)
    <3>1. PICK F : F = ToSet(stale[d])  OBVIOUS
    <3>2. \A f \in F : f.kind = "push"
      <4>1. F \subseteq Pushes(M)  BY <3>1, ShapeParts
      <4> QED  BY <4>1 DEF Pushes
    <3>3. \A f \in F : f.batch \in Pushed(F)  BY <3>2, PushedFacts
    <3> QED  BY <3>1, <3>3, KnownFacts
  <2>2. PICK b \in Batches(M) :
          /\ \E f \in ToSet(stale[d]) : f.batch = b
          /\ PublishStep(M, sock, DeadSocket, d, b)
          /\ ToSet(stale'[d]) \subseteq ToSet(stale[d])
          /\ \A e \in Devices : e # d => stale'[e] = stale[e]
          /\ Shapes(M)'
    BY <1>1, <2>1, HandleStalePushEffect
  <2>3. b \in Known(d)  BY <2>1, <2>2
  <2>4. ASSUME NEW e \in Devices PROVE Known(e)' \subseteq Known(e)
    <3>1. ToSet(stale[e])' = ToSet(stale'[e]) /\ ToSet(stale'[e]) \subseteq ToSet(stale[e])
      <4>1. ToSet(stale[e])' = ToSet(stale'[e])  BY DEF ToSet
      <4>2. CASE e = d  BY <2>2, <4>1, <4>2
      <4>3. CASE e # d  BY <2>2, <4>1, <4>3
      <4> QED  BY <4>2, <4>3
    <3>2. /\ ToSet(client[e].pending)' = ToSet(client[e].pending)
          /\ ToSet(sock[e].up)' = ToSet(sock[e].up)
      BY <1>1, <2>2 DEF Untouched, PublishStep, SameButEvents, ToSet
    <3>3. Pushed(ToSet(stale[e])') \subseteq Pushed(ToSet(stale[e]))
      <4>1. PICK F, G : F = ToSet(stale[e])' /\ G = ToSet(stale[e])  OBVIOUS
      <4>2. Pushed(F) \subseteq Pushed(G)  BY <3>1, <4>1, PushedGrows
      <4> QED  BY <4>1, <4>2
    <3>4. Pushed(ToSet(sock[e].up)') \subseteq Known(e)  BY <3>2, KnownFacts
    <3>5. Known(e)' \subseteq Known(e) \cup {}  BY <3>2, <3>3, <3>4, KnownFacts, KnownShrinks
    <3> QED  BY <3>5
  <2>5. minted' = minted  BY <1>1 DEF Untouched, engineVars
  <2>6. LogInv'  BY <2>2 DEF PublishStep
  <2>7. CASE Appended(sock, DeadSocket, d, b)
    BY <2>2, <2>3, <2>4, <2>5, <2>6, <2>7 DEF Appended, NameStep, Puts
  <2>8. CASE Replayed(sock, DeadSocket, b)
    <3>1. UNCHANGED logVars  BY <2>8 DEF Replayed
    <3>2. LogKept  BY <3>1 DEF LogKept, logVars
    <3>3. NoNews  BY <2>4, <2>5, <3>2 DEF NoNews
    <3> QED  BY <2>2, <2>6, <3>2, <3>3 DEF NameStep, LogKept
  <2> QED  BY <2>2, <2>7, <2>8 DEF PublishStep
<1>2. CASE LoseStale(d) /\ Untouched
  <2>1. Shapes(M)' /\ ToSet(stale'[d]) = {} /\ \A e \in Devices : e # d => stale'[e] = stale[e]
    BY <1>2, LoseStaleEffect
  <2>2. UNCHANGED <<sock, client, minted, logVars>>  BY <1>2 DEF LoseStale, Untouched, engineVars
  <2>3. LogKept  BY <2>2 DEF LogKept, logVars
  <2>4. NoNews  BY <2>1, <2>2, <2>3, ApartIsNoNews
  <2>5. LogInv' /\ headSeq' = headSeq
    BY <2>2 DEF LogInv, LogTypeOK, LogIsSuffix, RowsAreHistory, BatchIsUnique, PrunedIsCovered, logVars
  <2> QED  BY <2>1, <2>4, <2>5 DEF NameStep
<1>3. CASE BeginCheckpoint(d) \/ ExportSnapshot(d) \/ PostCheckpoint(d) \/ LoseCheckpoint(d)
  <2>1. /\ Shapes(M)'
        /\ UNCHANGED <<logVars, roomVars, client, doc, disk, saving, adrift, commits, minted, faults>>
    BY <1>3, WorkerEffect
  <2>2. LogKept /\ UNCHANGED <<sock, stale, client, minted>>  BY <2>1 DEF LogKept, logVars, roomVars
  <2>3. NoNews  BY <2>2, ApartIsNoNews
  <2>4. LogInv' /\ headSeq' = headSeq
    BY <2>1 DEF LogInv, LogTypeOK, LogIsSuffix, RowsAreHistory, BatchIsUnique, PrunedIsCovered, logVars
  <2> QED  BY <2>1, <2>3, <2>4 DEF NameStep
<1>4. CASE PostAnswered(d)
  <2>1. /\ Shapes(M)' /\ LogInv' /\ UNCHANGED <<roomVars, client, doc, disk, saving, commits, minted>>
        /\ headSeq' = headSeq /\ accepted' = accepted
    BY <1>4, AnsweredEffect
  <2>2. LogKept /\ UNCHANGED <<sock, stale, client, minted>>  BY <2>1 DEF LogKept, roomVars
  <2>3. NoNews  BY <2>2, ApartIsNoNews
  <2> QED  BY <2>1, <2>3 DEF NameStep
<1> QED  BY <1>1, <1>2, <1>3, <1>4 DEF Environment, CheckpointWorker, PostAnswered, Untouched


-----------------------------------------------------------------------------
(* The first invariant: shapes, the log, the names of batches. *)

NamesAreOwn == \A d \in Devices : \A b \in Known(d) : b.id[1] = d /\ b.id[2] <= minted[d]

OneBatchPerName == \A d \in Devices : \A b, c \in Known(d) : b.id = c.id => b = c

RowsAreNamed ==
  \A s \in 1 .. headSeq :
    accepted[s].batch[1] = accepted[s].device /\ accepted[s].batch[2] <= minted[accepted[s].device]

RowsAreBatches ==
  \A d \in Devices : \A b \in Known(d), s \in 1 .. headSeq :
    accepted[s].batch = b.id => accepted[s].ops = b.ops

\* An opening or a commit per name; a closed handle has been opened again after
\* a fault each time but the first.
Counted ==
  /\ faults <= MaxFaults
  /\ \A d \in Devices :
       /\ commits[d] <= MaxCommits
       /\ minted[d] <= commits[d] + faults + 1
       /\ client[d].phase = "closed" => minted[d] <= commits[d] + faults

NamesInv == NamesAreOwn /\ OneBatchPerName /\ RowsAreNamed /\ RowsAreBatches

LEMMA NamesKept ==
  ASSUME NEW M, Shapes(M), Shapes(M)', LogInv, NamesInv, NameStep
  PROVE  NamesInv'
<1>0. /\ headSeq \in Nat
      /\ \A s \in 1 .. headSeq : accepted[s].device \in Devices /\ accepted[s].batch \in BatchIds
  BY DEF LogInv, LogTypeOK, Row
<1>1. \A s \in 1 .. headSeq : accepted[s].batch[2] \in Nat
  <2>1. BatchIds = Devices \X (1 .. MaxCommits + MaxFaults + 1)  BY ChatSyncAssumption
  <2>2. \A i \in Devices \X (1 .. MaxCommits + MaxFaults + 1) : i[2] \in 1 .. MaxCommits + MaxFaults + 1
    OBVIOUS
  <2>3. \A i \in BatchIds : i[2] \in Nat  BY <2>1, <2>2
  <2> QED  BY <1>0, <2>3
<1>2. /\ \A d \in Devices : \A b \in Known(d) : b.id \in Names /\ b.id[2] \in Nat
      /\ \A d \in Devices : minted[d] \in Nat
  <2>1. \A d \in Devices : \A b \in Known(d) : b.id \in Names  BY KnownFacts
  <2>2. \A i \in Names : i[2] \in Nat  BY DEF Names
  <2> QED  BY <2>1, <2>2, ShapeParts
<1>3. CASE NoNews
  <2>1. /\ headSeq' = headSeq /\ accepted' = accepted /\ minted' = minted
        /\ \A e \in Devices : Known(e)' \subseteq Known(e)
    BY <1>3 DEF NoNews, LogKept
  <2>2. NamesAreOwn'  BY <2>1 DEF NamesInv, NamesAreOwn
  <2>3. OneBatchPerName'  BY <2>1 DEF NamesInv, OneBatchPerName
  <2>4. RowsAreNamed'  BY <2>1 DEF NamesInv, RowsAreNamed
  <2>5. RowsAreBatches'  BY <2>1 DEF NamesInv, RowsAreBatches
  <2> QED  BY <2>2, <2>3, <2>4, <2>5 DEF NamesInv
<1>4. ASSUME NEW d \in Devices, Mints(d) PROVE NamesInv'
  <2>1. /\ headSeq' = headSeq /\ accepted' = accepted
        /\ minted'[d] = minted[d] + 1 /\ \A e \in Devices : e # d => minted'[e] = minted[e]
        /\ \A e \in Devices : e # d => Known(e)' \subseteq Known(e)
    BY <1>4 DEF Mints, LogKept
  <2>2. PICK m : /\ Known(d)' \subseteq Known(d) \cup {m} /\ m.id = <<d, minted[d] + 1>>
    <3>1. PICK x : Known(d)' \subseteq Known(d) \cup {Minted(d, x)}  BY <1>4, Zenon DEF Mints
    <3>2. PICK m : m = Minted(d, x)  OBVIOUS
    <3>3. m.id = <<d, minted[d] + 1>>  BY <3>2 DEF Minted
    <3> QED  BY <3>1, <3>2, <3>3
  <2>3. m.id[1] = d /\ m.id[2] = minted[d] + 1  BY <2>2
  <2>4. \A e \in Devices : minted[e] \in Nat /\ minted'[e] >= minted[e] /\ minted'[e] \in Nat  BY <1>2, <2>1
  <2>5. NamesAreOwn'
    <3>1. ASSUME NEW e \in Devices, NEW b \in Known(e)' PROVE b.id[1] = e /\ b.id[2] <= minted'[e]
      <4>1. CASE b \in Known(e)
        <5>1. b.id[1] = e /\ b.id[2] <= minted[e] /\ b.id[2] \in Nat
          BY <1>2, <4>1 DEF NamesInv, NamesAreOwn
        <5> QED  BY <2>4, <5>1
      <4>2. CASE b \notin Known(e)
        <5>1. e = d /\ b = m  BY <2>1, <2>2, <4>2
        <5> QED  BY <1>2, <2>1, <2>3, <5>1
      <4> QED  BY <4>1, <4>2
    <3> QED  BY <3>1 DEF NamesAreOwn
  <2>6. \A b \in Known(d) : b.id # m.id
    <3>1. \A b \in Known(d) : b.id[2] <= minted[d] /\ b.id[2] \in Nat  BY <1>2 DEF NamesInv, NamesAreOwn
    <3> QED  BY <1>2, <2>3, <3>1
  <2>7. OneBatchPerName'
    <3>1. ASSUME NEW e \in Devices, NEW b \in Known(e)', NEW c \in Known(e)', b.id = c.id PROVE b = c
      <4>1. CASE b \in Known(e) /\ c \in Known(e)  BY <3>1, <4>1 DEF NamesInv, OneBatchPerName
      <4>2. CASE ~ (b \in Known(e) /\ c \in Known(e))
        <5>1. e = d  BY <2>1, <4>2
        <5> QED  BY <2>2, <2>6, <3>1, <4>2, <5>1
      <4> QED  BY <4>1, <4>2
    <3> QED  BY <3>1 DEF OneBatchPerName
  <2>8. RowsAreNamed'
    <3>1. ASSUME NEW s \in 1 .. headSeq
          PROVE  accepted[s].batch[1] = accepted[s].device /\ accepted[s].batch[2] <= minted'[accepted[s].device]
      <4>1. accepted[s].device \in Devices /\ accepted[s].batch[2] \in Nat  BY <1>0, <1>1
      <4>2. accepted[s].batch[1] = accepted[s].device /\ accepted[s].batch[2] <= minted[accepted[s].device]
        BY DEF NamesInv, RowsAreNamed
      <4> QED  BY <2>4, <4>1, <4>2
    <3> QED  BY <2>1, <3>1 DEF RowsAreNamed
  <2>9. RowsAreBatches'
    <3>1. ASSUME NEW e \in Devices, NEW b \in Known(e)', NEW s \in 1 .. headSeq, accepted[s].batch = b.id
          PROVE  accepted[s].ops = b.ops
      <4>1. CASE b \in Known(e)  BY <3>1, <4>1 DEF NamesInv, RowsAreBatches
      <4>2. CASE b \notin Known(e)
        <5>1. e = d /\ b = m  BY <2>1, <2>2, <4>2
        <5>2. accepted[s].batch[1] = d /\ accepted[s].batch[2] = minted[d] + 1  BY <2>3, <3>1, <5>1
        <5>3. accepted[s].device = d /\ accepted[s].batch[2] <= minted[d]
          BY <5>2 DEF NamesInv, RowsAreNamed
        <5> QED  BY <1>2, <5>2, <5>3
      <4> QED  BY <4>1, <4>2
    <3> QED  BY <2>1, <3>1 DEF RowsAreBatches
  <2> QED  BY <2>5, <2>7, <2>8, <2>9 DEF NamesInv
<1>5. ASSUME NEW d \in Devices, Puts(d) PROVE NamesInv'
  <2>1. /\ minted' = minted /\ \A e \in Devices : Known(e)' \subseteq Known(e)
        /\ headSeq' = headSeq + 1
        /\ \A s \in 1 .. headSeq : accepted'[s] = accepted[s]
    BY <1>5 DEF Puts
  <2>2. PICK a \in Known(d) : accepted'[headSeq + 1] = [device |-> d, batch |-> a.id, ops |-> a.ops]
    BY <1>5 DEF Puts
  <2>3. \A s \in 1 .. headSeq' : s \in 1 .. headSeq \/ s = headSeq + 1  BY <1>0, <2>1
  <2>4. /\ accepted'[headSeq + 1].device = d /\ accepted'[headSeq + 1].batch = a.id
        /\ accepted'[headSeq + 1].ops = a.ops
    BY <2>2
  <2>5. NamesAreOwn'  BY <2>1 DEF NamesInv, NamesAreOwn
  <2>6. OneBatchPerName'  BY <2>1 DEF NamesInv, OneBatchPerName
  <2>7. RowsAreNamed'
    <3>1. ASSUME NEW s \in 1 .. headSeq'
          PROVE  /\ accepted'[s].batch[1] = accepted'[s].device
                 /\ accepted'[s].batch[2] <= minted'[accepted'[s].device]
      <4>1. CASE s \in 1 .. headSeq  BY <2>1, <4>1 DEF NamesInv, RowsAreNamed
      <4>2. CASE s = headSeq + 1
        <5>1. a.id[1] = d /\ a.id[2] <= minted[d]  BY <2>2 DEF NamesInv, NamesAreOwn
        <5> QED  BY <2>1, <2>4, <4>2, <5>1
      <4> QED  BY <2>3, <4>1, <4>2
    <3> QED  BY <3>1 DEF RowsAreNamed
  <2>8. RowsAreBatches'
    <3>1. ASSUME NEW e \in Devices, NEW b \in Known(e)', NEW s \in 1 .. headSeq', accepted'[s].batch = b.id
          PROVE  accepted'[s].ops = b.ops
      <4>0. b \in Known(e)  BY <2>1
      <4>1. CASE s \in 1 .. headSeq  BY <2>1, <3>1, <4>0, <4>1 DEF NamesInv, RowsAreBatches
      <4>2. CASE s = headSeq + 1
        <5>1. a.id = b.id  BY <2>4, <3>1, <4>2
        <5>2. a.id[1] = d /\ b.id[1] = e  BY <4>0 DEF NamesInv, NamesAreOwn
        <5>3. a = b  BY <4>0, <5>1, <5>2 DEF NamesInv, OneBatchPerName
        <5> QED  BY <2>4, <4>2, <5>3
      <4> QED  BY <2>3, <4>1, <4>2
    <3> QED  BY <3>1 DEF RowsAreBatches
  <2> QED  BY <2>5, <2>6, <2>7, <2>8 DEF NamesInv
<1> QED  BY <1>3, <1>4, <1>5 DEF NameStep

\* The names that can be minted are those there are.
LEMMA NamesSuffice ==
  ASSUME NEW M, Shapes(M), NamesInv, Counted, NEW d \in Devices, NEW b \in Known(d)
  PROVE  b.id \in BatchIds
<1>1. b.id \in Names  BY KnownFacts
<1>2. PICK e \in Devices, n \in Nat \ {0} : b.id = <<e, n>>  BY <1>1 DEF Names
<1>3. b.id[1] = d /\ b.id[2] <= minted[d]  BY DEF NamesInv, NamesAreOwn
<1>4. e = d /\ n <= minted[d]  BY <1>2, <1>3
<1>5. minted[d] \in Nat /\ commits[d] \in Nat /\ faults \in Nat  BY ShapeParts DEF Shapes
<1>6. minted[d] <= MaxCommits + MaxFaults + 1  BY <1>5, ChatSyncAssumption DEF Counted
<1>7. n \in 1 .. MaxCommits + MaxFaults + 1  BY <1>4, <1>5, <1>6, ChatSyncAssumption
<1> QED  BY <1>2, <1>4, <1>7, ChatSyncAssumption


\* What the counters do in a step that neither opens nor closes a handle.
LEMMA CountStays ==
  ASSUME NEW M, Shapes(M), Counted, UNCHANGED <<commits, minted>>,
         faults' \in {faults, faults + 1} /\ faults' <= MaxFaults,
         \A e \in Devices : client'[e].phase = "closed" => client[e].phase = "closed"
  PROVE  Counted'
<1>1. ASSUME NEW e \in Devices
      PROVE  /\ commits'[e] <= MaxCommits
             /\ minted'[e] <= commits'[e] + faults' + 1
             /\ client'[e].phase = "closed" => minted'[e] <= commits'[e] + faults'
  <2>1. minted[e] \in Nat /\ commits[e] \in Nat /\ faults \in Nat  BY ShapeParts DEF Shapes
  <2> QED  BY <2>1 DEF Counted
<1> QED  BY <1>1 DEF Counted

LEMMA MovePhase ==
  ASSUME NEW M, Shapes(M), NEW d \in Devices, NEW c, NEW s, Moves(M, d, c, s), c.phase # "closed"
  PROVE  \A e \in Devices : client'[e].phase = "closed" => client[e].phase = "closed"
BY MovesAt

LEMMA SessionPhase ==
  ASSUME NEW M, Shapes(M), NEW d \in Devices, Session(d) \/ Cut(d) \/ Dial(d)
  PROVE  \A e \in Devices : client'[e].phase = "closed" => client[e].phase = "closed"
<1>0. faults' \in Nat
  BY DEF Session, ReceiveState, FetchCheckpoint, ReceiveRow, ReceiveAck, ReceiveRowsDone, PushPending,
         SeeClose, Cut, Dial, EndSession, MayFault, engineVars, Shapes
<1>1. CASE ReceiveState(d)
  <2>1. PICK c, s : /\ Moves(M, d, c, s) /\ Shapes(M)'
                    /\ c.pending = client[d].pending /\ c.phase # "closed"
                    /\ \/ \E n \in Nat : Took(M, d, "state", <<RowsReq(n, client[d].joined)>>, s)
                       \/ Took(M, d, "state", <<>>, s)
    BY <1>1, ReceiveStateEffect
  <2> QED  BY <2>1, MovePhase
<1>2. CASE FetchCheckpoint(d)
  <2>1. PICK c, s : /\ Moves(M, d, c, s) /\ Shapes(M)' /\ c.phase = "backfill"
                    /\ Wrote(M, d, <<RowsReq(client[d].after, client[d].joined)>>, s)
    BY <1>2, FetchCheckpointEffect
  <2> QED  BY <2>1, MovePhase
<1>3. CASE ReceiveRow(d)
  <2>1. PICK c, s : /\ Moves(M, d, c, s) /\ c.phase = client[d].phase
                    /\ client[d].phase \in {"backfill", "steady"}
    BY <1>3, ReceiveRowEffect
  <2>2. c.phase # "closed"  BY <2>1
  <2> QED  BY <2>1, <2>2, MovePhase
<1>4. CASE ReceiveAck(d)
  <2>1. PICK c, s : /\ Moves(M, d, c, s) /\ c.phase = client[d].phase
                    /\ client[d].phase \in {"backfill", "steady"}
    BY <1>4, ReceiveAckEffect
  <2>2. c.phase # "closed"  BY <2>1
  <2> QED  BY <2>1, <2>2, MovePhase
<1>5. CASE ReceiveRowsDone(d)
  <2>1. PICK c, s : Moves(M, d, c, s) /\ c.phase = "steady"  BY <1>5, ReceiveRowsDoneEffect
  <2> QED  BY <2>1, MovePhase
<1>6. CASE PushPending(d)
  <2>1. PICK c, s : Moves(M, d, c, s) /\ c.phase = "steady"  BY <1>6, PushPendingEffect
  <2> QED  BY <2>1, MovePhase
<1>7. CASE SeeClose(d) \/ Cut(d)
  <2>1. EndSession(d)  BY <1>7 DEF SeeClose, Cut
  <2>2. PICK c : Moves(M, d, c, NoSocket) /\ c.phase = "idle"  BY <1>0, <2>1, EndSessionEffect
  <2> QED  BY <2>2, MovePhase
<1>8. CASE Dial(d)
  <2>1. PICK c, s : Moves(M, d, c, s) /\ c.phase = "hello"  BY <1>8, DialEffect
  <2> QED  BY <2>1, MovePhase
<1> QED  BY <1>1, <1>2, <1>3, <1>4, <1>5, <1>6, <1>7, <1>8 DEF Session

Acts(d) ==
  \/ Open(d) \/ Commit(d) \/ Dial(d)
  \/ SaveSnapshot(d) \/ BeginSave(d) \/ FinishSave(d)
  \/ Hub(d) \/ Environment(d) \/ Session(d) \/ CheckpointWorker(d)
  \/ Cut(d) \/ Crash(d) \/ Evict(d)

LEMMA CountedKept ==
  ASSUME NEW M, Shapes(M), Basic(M), Counted, NEW d \in Devices, Acts(d),
         commits[d] < MaxCommits => <<d, commits[d] + 1>> \in M
  PROVE  Counted'
<1>0. /\ faults \in Nat /\ faults <= MaxFaults /\ MaxFaults \in Nat /\ MaxCommits \in Nat
      /\ \A e \in Devices : minted[e] \in Nat /\ commits[e] \in Nat
  BY ShapeParts, ChatSyncAssumption DEF Counted, Shapes
<1>1. CASE Session(d) \/ Cut(d) \/ Dial(d)
  <2>1. /\ UNCHANGED <<commits, minted>>
        /\ faults' \in {faults, faults + 1} /\ faults' <= MaxFaults
    BY <1>0, <1>1 DEF Session, ReceiveState, FetchCheckpoint, ReceiveRow, ReceiveAck, ReceiveRowsDone,
           PushPending, SeeClose, Cut, Dial, EndSession, MayFault, engineVars
  <2> QED  BY <1>1, <2>1, SessionPhase, CountStays
<1>2. CASE \/ SaveSnapshot(d) \/ BeginSave(d) \/ FinishSave(d)
           \/ Hub(d) \/ Environment(d) \/ CheckpointWorker(d)
  <2>1. UNCHANGED <<commits, minted, faults, client>>
    BY <1>2 DEF SaveSnapshot, BeginSave, FinishSave, Hub, Environment, CheckpointWorker, BeginCheckpoint,
           ExportSnapshot, PostCheckpoint, StoreCheckpoint, LoseCheckpoint, LateCheckpoint, engineVars
  <2> QED  BY <1>0, <2>1, CountStays
<1>3. CASE Open(d)
  <2>1. PICK c, x :
          /\ x = StoredOrInit(d) /\ x \in SUBSET M
          /\ c \in Clients(M) /\ client' = [client EXCEPT ![d] = c] /\ Shapes(M)'
          /\ c.phase = "idle" /\ client[d].phase = "closed"
          /\ disk[d].cursor = 0 => minted' = [minted EXCEPT ![d] = @ + 1]
          /\ disk[d].cursor # 0 => minted' = minted
    BY <1>3, OpenEffect
  <2>2. commits' = commits /\ faults' = faults  BY <1>3 DEF Open
  <2>3. /\ client'[d].phase = "idle" /\ \A e \in Devices : e # d => client'[e] = client[e]
        /\ minted'[d] <= minted[d] + 1 /\ minted'[d] \in Nat
        /\ \A e \in Devices : e # d => minted'[e] = minted[e]
    BY <1>0, <2>1 DEF Shapes
  <2>4. ASSUME NEW e \in Devices
        PROVE  /\ commits'[e] <= MaxCommits
               /\ minted'[e] <= commits'[e] + faults' + 1
               /\ client'[e].phase = "closed" => minted'[e] <= commits'[e] + faults'
    <3>1. CASE e # d  BY <2>2, <2>3, <3>1 DEF Counted
    <3>2. CASE e = d
      <4>1. minted[d] <= commits[d] + faults /\ commits[d] <= MaxCommits  BY <2>1 DEF Counted
      <4> QED  BY <1>0, <2>2, <2>3, <3>2, <4>1
    <3> QED  BY <3>1, <3>2
  <2> QED  BY <1>0, <2>2, <2>4 DEF Counted
<1>4. CASE Commit(d)
  <2>0. <<d, commits[d] + 1>> \in M  BY <1>4 DEF Commit
  <2>1. PICK c : client' = [client EXCEPT ![d] = c] /\ c.phase = client[d].phase /\ c.phase # "closed"
    BY <1>4, <2>0, CommitEffect
  <2>2. /\ minted'[d] = minted[d] + 1 /\ commits'[d] = commits[d] + 1 /\ commits[d] < MaxCommits /\ faults' = faults
        /\ \A e \in Devices : e # d => minted'[e] = minted[e] /\ commits'[e] = commits[e]
    BY <1>4 DEF Commit, Shapes
  <2>3. client'[d].phase # "closed" /\ \A e \in Devices : e # d => client'[e] = client[e]
    BY <2>1 DEF Shapes
  <2>4. ASSUME NEW e \in Devices
        PROVE  /\ commits'[e] <= MaxCommits
               /\ minted'[e] <= commits'[e] + faults' + 1
               /\ client'[e].phase = "closed" => minted'[e] <= commits'[e] + faults'
    <3>1. CASE e # d  BY <2>2, <2>3, <3>1 DEF Counted
    <3>2. CASE e = d
      <4>1. minted[d] <= commits[d] + faults + 1  BY DEF Counted
      <4> QED  BY <1>0, <2>2, <2>3, <3>2, <4>1
    <3> QED  BY <3>1, <3>2
  <2> QED  BY <1>0, <2>2, <2>4 DEF Counted
<1>5. CASE Crash(d) \/ Evict(d)
  <2>1. commits' = commits /\ minted' = minted /\ faults' = faults + 1 /\ faults < MaxFaults
    BY <1>5 DEF Crash, Evict, CloseHandle, MayFault
  <2>2. \A e \in Devices : e # d => client'[e] = client[e]
    BY <1>5, CrashEffect, EvictEffect, MovesAt
  <2>4. ASSUME NEW e \in Devices
        PROVE  /\ commits'[e] <= MaxCommits
               /\ minted'[e] <= commits'[e] + faults' + 1
               /\ client'[e].phase = "closed" => minted'[e] <= commits'[e] + faults'
    <3>1. minted[e] <= commits[e] + faults + 1 /\ commits[e] <= MaxCommits  BY DEF Counted
    <3> QED  BY <1>0, <2>1, <3>1
  <2> QED  BY <1>0, <2>1, <2>4 DEF Counted
<1> QED  BY <1>1, <1>2, <1>3, <1>4, <1>5 DEF Acts


SyncInv == Shapes(Ops) /\ LogInv /\ headSeq <= MaxSeq /\ NamesInv /\ Counted

LEMMA OpsAreBasic == Basic(Ops)
BY ChatSyncAssumption DEF Basic

LEMMA NextIsAnAct ==
  ASSUME Next
  PROVE  \E d \in Devices : Acts(d)
BY DEF Next, Acts

LEMMA StepNames ==
  ASSUME SyncInv, NEW d \in Devices, Acts(d)
  PROVE  NameStep /\ Shapes(Ops)' /\ LogInv' /\ headSeq' <= MaxSeq
<1>0. /\ Basic(Ops) /\ headSeq \in Nat /\ MaxSeq \in Nat
      /\ \A e \in Devices : \A b \in Known(e) : b.id \in BatchIds
  BY OpsAreBasic, NamesSuffice, ChatLogAssumption DEF SyncInv, LogInv, LogTypeOK
<1>1. CASE Hub(d)
  <2>1. \A f \in ToSet(sock[d].up) : f.kind = "push" => f.batch.id \in BatchIds
    <3>1. PICK F : F = ToSet(sock[d].up)  OBVIOUS
    <3>2. \A f \in F : f.kind = "push" => f.batch \in Pushed(F)  BY PushedFacts
    <3>3. Pushed(F) \subseteq Known(d)  BY <3>1, KnownFacts DEF SyncInv
    <3> QED  BY <1>0, <3>1, <3>2, <3>3
  <2>2. HubStep(d) /\ Untouched  BY <1>1 DEF Hub, Untouched
  <2>3. /\ NameStep /\ Shapes(Ops)' /\ LogInv'
        /\ (headSeq' = headSeq \/ (headSeq' = headSeq + 1 /\ headSeq < MaxSeq))
    BY <1>0, <2>1, <2>2, HubNames DEF SyncInv
  <2> QED  BY <1>0, <2>3 DEF SyncInv
<1>2. CASE Environment(d) \/ CheckpointWorker(d)
  <2>1. /\ NameStep /\ Shapes(Ops)' /\ LogInv'
        /\ (headSeq' = headSeq \/ (headSeq' = headSeq + 1 /\ headSeq < MaxSeq))
    BY <1>0, <1>2, ApartNames DEF SyncInv
  <2> QED  BY <1>0, <2>1 DEF SyncInv
<1>3. ASSUME UNCHANGED logVars PROVE LogInv' /\ headSeq' <= MaxSeq
  BY <1>3 DEF SyncInv, LogInv, LogTypeOK, LogIsSuffix, RowsAreHistory, BatchIsUnique, PrunedIsCovered, logVars
<1>4. CASE Session(d) \/ Cut(d)
  <2>1. NoNews /\ Shapes(Ops)' /\ UNCHANGED logVars  BY <1>4, SessionNames DEF SyncInv
  <2> QED  BY <1>3, <2>1 DEF NameStep
<1>5. CASE Open(d) \/ Commit(d) \/ Dial(d) \/ SaveSnapshot(d) \/ BeginSave(d) \/ FinishSave(d)
             \/ Crash(d) \/ Evict(d)
  <2>1. commits[d] < MaxCommits => <<d, commits[d] + 1>> \in Ops
    <3>1. commits[d] \in Nat  BY ShapeParts DEF SyncInv
    <3> QED  BY <3>1, ChatSyncAssumption
  <2>2. NameStep /\ Shapes(Ops)' /\ UNCHANGED logVars  BY <1>0, <1>5, <2>1, HandleNames DEF SyncInv
  <2> QED  BY <1>3, <2>2
<1> QED  BY <1>1, <1>2, <1>4, <1>5 DEF Acts

LEMMA SyncInvKept ==
  ASSUME SyncInv, NEW d \in Devices, Acts(d)
  PROVE  SyncInv'
<1>1. NameStep /\ Shapes(Ops)' /\ LogInv' /\ headSeq' <= MaxSeq  BY StepNames
<1>2. NamesInv'  BY <1>1, NamesKept DEF SyncInv
<1>3. Counted'
  <2>1. commits[d] \in Nat  BY ShapeParts DEF SyncInv
  <2>2. commits[d] < MaxCommits => <<d, commits[d] + 1>> \in Ops  BY <2>1, ChatSyncAssumption
  <2> QED  BY <2>2, OpsAreBasic, CountedKept DEF SyncInv
<1> QED  BY <1>1, <1>2, <1>3 DEF SyncInv

LEMMA SyncInvStutters ==
  ASSUME SyncInv, UNCHANGED vars
  PROVE  SyncInv'
<1>1. UNCHANGED <<rows, headSeq, seqFloor, checkpoint, accepted, sock, stale, client, doc, disk, saving, job,
                  adrift, commits, minted, faults, checkpoints>>
  BY DEF vars, logVars, roomVars, engineVars
<1>2. Shapes(Ops)'  BY <1>1 DEF SyncInv, Shapes, LogOf
<1>3. LogInv'
  BY <1>1 DEF SyncInv, LogInv, LogTypeOK, LogIsSuffix, RowsAreHistory, BatchIsUnique, PrunedIsCovered
<1>4. \A d \in Devices : Known(d)' = Known(d)  BY <1>1 DEF Known, KnownIn, Pushed, ToSet
<1>5. NamesInv'
  BY <1>1, <1>4 DEF SyncInv, NamesInv, NamesAreOwn, OneBatchPerName, RowsAreNamed, RowsAreBatches
<1>6. Counted'  BY <1>1 DEF SyncInv, Counted
<1> QED  BY <1>1, <1>2, <1>3, <1>5, <1>6 DEF SyncInv

LEMMA InitShapes ==
  ASSUME NEW M, Basic(M), Init
  PROVE  /\ Shapes(M) /\ LogInv /\ headSeq = 0 /\ seqFloor = 0
         /\ \A d \in Devices : ToSet(client[d].pending) = {} /\ ToSet(sock[d].up) = {} /\ ToSet(stale[d]) = {}
<1>1. LogInv /\ LogOf(M) /\ headSeq = 0 /\ seqFloor = 0
  BY DEF Init, LogInit, LogInv, LogTypeOK, LogIsSuffix, RowsAreHistory,
         BatchIsUnique, PrunedIsCovered, NoCheckpoint, Checkpoint, Payload, Row, LogOf
<1>2. NoSocket \in Socks(M) /\ NoClient \in Clients(M)  BY NoSocketIsASocket, NoClientIsAClient
<1>3. <<>> \in Seq(Pushes(M)) /\ ToSet(<<>>) = {}  BY DEF ToSet
<1>4. NoJob \in Jobs(M)  BY DEF NoJob, Jobs
<1>5. [doc |-> {}, cursor |-> 0] \in Stores(M)  BY DEF Stores
<1>6. sock \in [Devices -> Socks(M)] /\ stale \in [Devices -> Seq(Pushes(M))]
  BY <1>2, <1>3 DEF Init, RoomInit
<1>7. /\ client \in [Devices -> Clients(M)] /\ doc \in [Devices -> SUBSET M] /\ disk \in [Devices -> Stores(M)]
      /\ saving \in [Devices -> SUBSET SUBSET M] /\ job \in [Devices -> Jobs(M)]
      /\ adrift \in [Devices -> SUBSET Jobs(M)]
      /\ commits \in [Devices -> Nat] /\ minted \in [Devices -> Nat] /\ faults \in Nat /\ checkpoints \in Nat
  BY <1>2, <1>4, <1>5 DEF Init
<1>8. Shapes(M)  BY <1>1, <1>6, <1>7 DEF Shapes
<1>9. ASSUME NEW d \in Devices
      PROVE  ToSet(client[d].pending) = {} /\ ToSet(sock[d].up) = {} /\ ToSet(stale[d]) = {}
  <2>1. client[d] = NoClient /\ sock[d] = NoSocket /\ stale[d] = <<>>  BY DEF Init, RoomInit
  <2> QED  BY <1>3, <2>1, NoSocketIsASocket, NoClientIsAClient
<1> QED  BY <1>1, <1>8, <1>9

LEMMA InitSyncInv ==
  ASSUME Init
  PROVE  SyncInv
<1>1. /\ Shapes(Ops) /\ LogInv /\ headSeq = 0
      /\ \A d \in Devices : ToSet(client[d].pending) = {} /\ ToSet(sock[d].up) = {} /\ ToSet(stale[d]) = {}
  BY OpsAreBasic, InitShapes
<1>2. \A d \in Devices : Known(d) = {}  BY <1>1, PushedOfNone DEF Known, KnownIn
<1>3. 1 .. headSeq = {}  BY <1>1
<1>4. NamesInv  BY <1>2, <1>3 DEF NamesInv, NamesAreOwn, OneBatchPerName, RowsAreNamed, RowsAreBatches
<1>5. Counted  BY ChatSyncAssumption DEF Counted, Init, NoClient
<1> QED  BY <1>1, <1>4, <1>5, ChatLogAssumption DEF SyncInv


-----------------------------------------------------------------------------
(***************************************************************************)
(* What the room says is true when it says it and stays true: a row on its *)
(* way is the accepted row of its number, an acknowledged batch is in the  *)
(* room, and no cursor a client keeps or will be given is beyond the head. *)
(***************************************************************************)

TrueFrame(f) ==
  /\ f.kind = "row" => f.seq \in 1 .. headSeq /\ f.ops = accepted[f.seq].ops
  /\ f.kind = "ack" => f.seq \in 1 .. headSeq /\ accepted[f.seq].batch = f.id
  /\ f.kind = "state" => f.stats.head <= headSeq /\ f.stats.ckptSeq <= seqFloor

SockTrue(s) ==
  /\ \A f \in ToSet(s.down) : TrueFrame(f)
  /\ \A v \in ToSet(s.bcast) : TrueFrame(v.frame)
  /\ s.stats.head <= headSeq /\ s.stats.ckptSeq <= seqFloor
  /\ ~ s.open => ToSet(s.bcast) = {} /\ ToSet(s.up) = {}

ClientTrue(c) == c.cursor <= headSeq /\ c.base <= headSeq /\ c.after <= seqFloor

TrueTo(d) == SockTrue(sock[d]) /\ ClientTrue(client[d]) /\ disk[d].cursor <= headSeq

LogGrows ==
  /\ headSeq' >= headSeq /\ seqFloor' >= seqFloor
  /\ \A s \in 1 .. headSeq : accepted'[s] = accepted[s]

LEMMA TrueFrameLasts ==
  ASSUME NEW M, NEW f \in DownFrames(M), LogInv, LogInv', LogGrows, TrueFrame(f)
  PROVE  TrueFrame(f)'
<1>0. headSeq \in Nat /\ seqFloor \in Nat /\ headSeq' \in Nat /\ seqFloor' \in Nat
  BY DEF LogInv, LogTypeOK
<1>1. f.kind = "state" => f.stats.head \in Nat /\ f.stats.ckptSeq \in Nat  BY FrameParts
<1>2. f.kind = "row" => (f.seq \in 1 .. headSeq' /\ f.ops = accepted'[f.seq].ops)
  BY <1>0 DEF TrueFrame, LogGrows
<1>3. f.kind = "ack" => (f.seq \in 1 .. headSeq' /\ accepted'[f.seq].batch = f.id)
  BY <1>0 DEF TrueFrame, LogGrows
<1>4. f.kind = "state" => (f.stats.head <= headSeq' /\ f.stats.ckptSeq <= seqFloor')
  BY <1>0, <1>1 DEF TrueFrame, LogGrows
<1> QED  BY <1>2, <1>3, <1>4 DEF TrueFrame

LEMMA SockTrueLasts ==
  ASSUME NEW M, NEW s \in Socks(M), LogInv, LogInv', LogGrows, SockTrue(s)
  PROVE  SockTrue(s)'
<1>0. headSeq \in Nat /\ seqFloor \in Nat /\ headSeq' \in Nat /\ seqFloor' \in Nat
  BY DEF LogInv, LogTypeOK
<1>1. /\ s.stats.head \in Nat /\ s.stats.ckptSeq \in Nat
      /\ ToSet(s.down) \subseteq DownFrames(M) /\ ToSet(s.bcast) \subseteq RoomEvents(M)
  BY SockParts
<1>2. \A v \in ToSet(s.bcast) : v.frame \in DownFrames(M)  BY <1>1, FrameParts
<1>3. \A f \in ToSet(s.down) : TrueFrame(f)'
  <2>1. ASSUME NEW f \in ToSet(s.down) PROVE TrueFrame(f)'
    <3>1. f \in DownFrames(M) /\ TrueFrame(f)  BY <1>1 DEF SockTrue
    <3> QED  BY <3>1, TrueFrameLasts
  <2> QED  BY <2>1
<1>4. \A v \in ToSet(s.bcast) : TrueFrame(v.frame)'
  <2>1. ASSUME NEW v \in ToSet(s.bcast) PROVE TrueFrame(v.frame)'
    <3>1. PICK f \in DownFrames(M) : f = v.frame  BY <1>2
    <3>2. TrueFrame(f)  BY <3>1 DEF SockTrue
    <3>3. TrueFrame(f)'  BY <3>2, TrueFrameLasts
    <3> QED  BY <3>1, <3>3
  <2> QED  BY <2>1
<1>5. s.stats.head <= headSeq' /\ s.stats.ckptSeq <= seqFloor'
  BY <1>0, <1>1 DEF SockTrue, LogGrows
<1>6. ~ s.open => ToSet(s.bcast) = {} /\ ToSet(s.up) = {}  BY DEF SockTrue
<1> QED  BY <1>3, <1>4, <1>5, <1>6 DEF SockTrue

LEMMA ClientTrueLasts ==
  ASSUME NEW M, NEW c \in Clients(M), LogInv, LogInv', LogGrows, ClientTrue(c)
  PROVE  ClientTrue(c)'
<1>1. c.cursor \in Nat /\ c.base \in Nat /\ c.after \in Nat  BY ClientParts
<1> QED  BY <1>1 DEF ClientTrue, LogInv, LogTypeOK, LogGrows

\* A device whose part of the state stays, while the log grows.
LEMMA TrueToStays ==
  ASSUME NEW M, Shapes(M), LogInv, LogInv', LogGrows, NEW d \in Devices, TrueTo(d),
         sock'[d] = sock[d], client'[d] = client[d], disk'[d] = disk[d]
  PROVE  TrueTo(d)'
<1>1. PICK s \in Socks(M), c \in Clients(M), n \in Nat : s = sock[d] /\ c = client[d] /\ n = disk[d].cursor
  BY ShapeParts
<1>2. SockTrue(s) /\ ClientTrue(c) /\ n <= headSeq  BY <1>1 DEF TrueTo
<1>3. SockTrue(s)' /\ ClientTrue(c)'  BY <1>2, SockTrueLasts, ClientTrueLasts
<1>4. n <= headSeq'  BY <1>2 DEF LogInv, LogTypeOK, LogGrows
<1>5. s = sock'[d] /\ c = client'[d] /\ n = disk'[d].cursor  BY <1>1
<1> QED  BY <1>3, <1>4, <1>5 DEF TrueTo, SockTrue, ClientTrue, TrueFrame

\* A device whose parts are new.
LEMMA TrueToBecomes ==
  ASSUME NEW d \in Devices, NEW s, NEW c, NEW n, s = sock'[d], c = client'[d], n = disk'[d].cursor,
         SockTrue(s)', ClientTrue(c)', n <= headSeq'
  PROVE  TrueTo(d)'
BY DEF TrueTo, SockTrue, ClientTrue, TrueFrame

LEMMA NoSocketIsTrue ==
  ASSUME LogInv
  PROVE  SockTrue(NoSocket)
<1>1. ToSet(NoSocket.up) = {} /\ ToSet(NoSocket.down) = {} /\ ToSet(NoSocket.bcast) = {}
  BY NoSocketIsASocket
<1>2. NoSocket.stats.head = 0 /\ NoSocket.stats.ckptSeq = 0  BY DEF NoSocket, NoStats
<1> QED  BY <1>1, <1>2 DEF SockTrue, LogInv, LogTypeOK

\* The hub's loop tells the truth.
LEMMA LoopIsTrue ==
  ASSUME NEW M, Shapes(M), LogInv, NEW d \in Devices, TrueTo(d), NEW s, LoopStep(M, d, s),
         \A f \in ToSet(s.down) : f \in ToSet(sock[d].down) \/ TrueFrame(f),
         ToSet(s.bcast) \subseteq ToSet(sock[d].bcast),
         s.stats.head <= headSeq, s.stats.ckptSeq <= seqFloor,
         ~ s.open => ToSet(s.bcast) = {} /\ ToSet(s.up) = {}
  PROVE  \A e \in Devices : TrueTo(e) => TrueTo(e)'
<1>1. /\ sock'[d] = s /\ \A e \in Devices : e # d => sock'[e] = sock[e]
      /\ UNCHANGED <<logVars, client, disk>>
  BY LoopKeepsShapes DEF LoopStep
<1>2. LogInv' /\ LogGrows
  BY <1>1 DEF LogInv, LogTypeOK, LogIsSuffix, RowsAreHistory, BatchIsUnique, PrunedIsCovered, logVars, LogGrows
<1>3. SockTrue(s)  BY DEF SockTrue, TrueTo
<1>4. SockTrue(s)'  BY <1>2, <1>3, SockTrueLasts DEF LoopStep
<1>5. PICK c \in Clients(M), n \in Nat : c = client[d] /\ n = disk[d].cursor  BY ShapeParts
<1>6. ClientTrue(c) /\ n <= headSeq  BY <1>5 DEF TrueTo
<1>7. ClientTrue(c)' /\ n <= headSeq'  BY <1>1, <1>2, <1>6, ClientTrueLasts DEF logVars
<1>8. s = sock'[d] /\ c = client'[d] /\ n = disk'[d].cursor  BY <1>1, <1>5
<1>9. TrueTo(d)'  BY <1>4, <1>7, <1>8, TrueToBecomes
<1>10. ASSUME NEW e \in Devices, e # d, TrueTo(e) PROVE TrueTo(e)'
  BY <1>1, <1>2, <1>10, TrueToStays
<1> QED  BY <1>9, <1>10


LEMMA EventsMade ==
  /\ \A g, n, o : RowEvent(g, n, o).frame.kind = "row" /\ RowEvent(g, n, o).frame.seq = n /\ RowEvent(g, n, o).frame.ops = o
  /\ \A g, i, n : AckEvent(g, i, n).frame.kind = "ack" /\ AckEvent(g, i, n).frame.id = i /\ AckEvent(g, i, n).frame.seq = n
BY DEF RowEvent, RowFrame, AckEvent, AckFrame

\* What a push makes the room say is true.
LEMMA PublishIsTrue ==
  ASSUME NEW M, Shapes(M), LogInv, NEW socks \in [Devices -> Socks(M)], NEW origin, NEW device, NEW b,
         PublishStep(M, socks, origin, device, b),
         \A e \in Devices : TrueTo(e) /\ SockTrue(socks[e]),
         UNCHANGED <<client, disk>>
  PROVE  \A e \in Devices : TrueTo(e)'
<1>0. LogInv' /\ headSeq \in Nat /\ headSeq' \in Nat  BY DEF PublishStep, LogInv, LogTypeOK
<1>1. LogGrows
  <2>1. CASE Appended(socks, origin, device, b)  BY <1>0, <2>1 DEF Appended, LogGrows, LogInv, LogTypeOK
  <2>2. CASE Replayed(socks, origin, b)  BY <1>0, <2>2 DEF Replayed, LogGrows, LogInv, LogTypeOK, logVars
  <2> QED  BY <2>1, <2>2 DEF PublishStep
<1>2. ASSUME NEW e \in Devices PROVE TrueTo(e)'
  <2>1. PICK o \in Socks(M), s \in Socks(M) : o = socks[e] /\ s = sock'[e]  BY DEF PublishStep
  <2>2. SockTrue(o)'
    <3>1. SockTrue(o)  BY <2>1
    <3> QED  BY <1>0, <1>1, <3>1, SockTrueLasts
  <2>3. SameButEvents(o, s)  BY <2>1 DEF PublishStep
  <2>4. o.open => \A v \in ToSet(s.bcast) : v \in ToSet(o.bcast) \/ TrueFrame(v.frame)'
    <3>1. CASE Appended(socks, origin, device, b)
      <4>1. headSeq + 1 \in 1 .. headSeq' /\ accepted'[headSeq + 1] = [device |-> device, batch |-> b.id, ops |-> b.ops]
        BY <1>0, <3>1 DEF Appended
      <4>2. PICK n : n = headSeq + 1  OBVIOUS
      <4>3. n \in 1 .. headSeq' /\ accepted'[n].batch = b.id /\ accepted'[n].ops = b.ops  BY <4>1, <4>2
      <4>4. PICK v : v = AckEvent(origin, b.id, n)  OBVIOUS
      <4>5. PICK w : w = RowEvent(origin, n, b.ops)  OBVIOUS
      <4>6. TrueFrame(v.frame)'
        <5>1. v.frame.kind = "ack" /\ v.frame.id = b.id /\ v.frame.seq = n  BY <4>4, EventsMade
        <5> QED  BY <4>3, <5>1 DEF TrueFrame
      <4>7. TrueFrame(w.frame)'
        <5>1. w.frame.kind = "row" /\ w.frame.ops = b.ops /\ w.frame.seq = n  BY <4>5, EventsMade
        <5> QED  BY <4>3, <5>1 DEF TrueFrame
      <4>8. o.open => ToSet(s.bcast) \subseteq ToSet(o.bcast) \cup {v, w}
        BY <2>1, <3>1, <4>2, <4>4, <4>5 DEF Appended
      <4> QED  BY <4>6, <4>7, <4>8
    <3>2. CASE Replayed(socks, origin, b)
      <4>1. PICK n \in 1 .. headSeq :
              /\ accepted[n].batch = b.id
              /\ socks[e].open =>
                   ToSet(sock'[e].bcast) = ToSet(socks[e].bcast)
                     \cup IF e = origin THEN {AckEvent(origin, b.id, n)} ELSE {}
        BY <3>2 DEF Replayed
      <4>2. headSeq' = headSeq /\ accepted' = accepted  BY <3>2 DEF Replayed, logVars
      <4>3. PICK v : v = AckEvent(origin, b.id, n)  OBVIOUS
      <4>4. v.frame.kind = "ack" /\ v.frame.id = b.id /\ v.frame.seq = n  BY <4>3, EventsMade
      <4>5. TrueFrame(v.frame)'  BY <4>1, <4>2, <4>4 DEF TrueFrame
      <4>6. o.open => ToSet(s.bcast) \subseteq ToSet(o.bcast) \cup {v}  BY <2>1, <4>1, <4>3
      <4> QED  BY <4>5, <4>6
    <3> QED  BY <3>1, <3>2 DEF PublishStep
  <2>5. \A v \in ToSet(s.bcast) : TrueFrame(v.frame)'
    <3>1. \A v \in ToSet(o.bcast) : TrueFrame(v.frame)'  BY <2>2 DEF SockTrue
    <3>2. CASE o.open  BY <2>4, <3>1, <3>2
    <3>3. CASE ~ o.open  BY <2>3, <3>1, <3>3 DEF SameButEvents
    <3> QED  BY <3>2, <3>3
  <2>6. SockTrue(s)'  BY <2>2, <2>3, <2>5 DEF SockTrue, SameButEvents
  <2>7. PICK c \in Clients(M), n \in Nat : c = client[e] /\ n = disk[e].cursor  BY ShapeParts
  <2>8. ClientTrue(c) /\ n <= headSeq  BY <2>7 DEF TrueTo
  <2>9. ClientTrue(c)' /\ n <= headSeq'  BY <1>0, <1>1, <2>8, ClientTrueLasts DEF LogGrows
  <2> QED  BY <2>1, <2>6, <2>7, <2>9, TrueToBecomes
<1> QED  BY <1>2


LEMMA SentIsTrue ==
  ASSUME LogInv, NEW after, NEW excluded, NEW f \in Sent(after, excluded)
  PROVE  TrueFrame(f)
<1>1. PICK n \in DOMAIN rows : f = RowFrame(n, rows[n].ops)  BY DEF Sent, RowsAfter
<1>2. n \in 1 .. headSeq /\ rows[n] = accepted[n]
  BY DEF LogInv, LogTypeOK, LogIsSuffix, RowsAreHistory
<1> QED  BY <1>1, <1>2 DEF TrueFrame, RowFrame

LEMMA HubIsTrue ==
  ASSUME NEW M, Shapes(M), Basic(M), LogInv, NEW d \in Devices, HubStep(d), Untouched,
         \A f \in ToSet(sock[d].up) : f.kind = "push" => f.batch.id \in BatchIds,
         \A e \in Devices : TrueTo(e)
  PROVE  \A e \in Devices : TrueTo(e)'
<1>0. PICK o \in Socks(M) : o = sock[d] /\ SockTrue(o)  BY ShapeParts DEF TrueTo
<1>00. /\ o.stats.head <= headSeq /\ o.stats.ckptSeq <= seqFloor
       /\ \A v \in ToSet(o.bcast) : TrueFrame(v.frame)
       /\ ToSet(<<>>) = {}
  BY <1>0 DEF SockTrue, ToSet
<1>1. CASE ServeEvent(d)
  <2>1. PICK s : /\ LoopStep(M, d, s)
                 /\ sock[d].open /\ s.open = sock[d].open /\ s.stats = sock[d].stats
                 /\ \E e \in RoomEvents(M) :
                      /\ ToSet(sock[d].bcast) = {e} \cup ToSet(s.bcast)
                      /\ ToSet(s.down) = IF Delivered(d, e) THEN ToSet(sock[d].down) \cup {e.frame}
                                         ELSE ToSet(sock[d].down)
    BY <1>1, ServeEventEffect
  <2>2. \A f \in ToSet(s.down) : f \in ToSet(sock[d].down) \/ TrueFrame(f)  BY <1>0, <1>00, <2>1
  <2>3. ToSet(s.bcast) \subseteq ToSet(sock[d].bcast)  BY <2>1
  <2> QED  BY <1>0, <1>00, <2>1, <2>2, <2>3, LoopIsTrue
<1>2. CASE CloseLagged(d)
  <2>1. PICK s : /\ LoopStep(M, d, s)
                 /\ s.stats = sock[d].stats /\ s.down = sock[d].down /\ s.up = <<>> /\ s.bcast = <<>>
    BY <1>2, CloseLaggedEffect
  <2> QED  BY <1>0, <1>00, <2>1, LoopIsTrue
<1>3. CASE HandleHello(d)
  <2>1. PICK s : /\ LoopStep(M, d, s)
                 /\ sock[d].open /\ s.open = sock[d].open /\ s.stats = Stats
                 /\ s.down = sock[d].down /\ s.bcast = sock[d].bcast
    BY <1>3, HandleHelloEffect
  <2>2. s.stats.head <= headSeq /\ s.stats.ckptSeq <= seqFloor
    BY <2>1, StatsAreCounts DEF LogInv, LogTypeOK, LogIsSuffix
  <2> QED  BY <1>0, <2>1, <2>2, LoopIsTrue
<1>4. CASE SendState(d)
  <2>1. PICK s : /\ LoopStep(M, d, s)
                 /\ sock[d].open /\ s.open = sock[d].open /\ s.stats = NoStats /\ s.bcast = sock[d].bcast
                 /\ ToSet(s.down) = ToSet(sock[d].down) \cup {State(sock[d].stats, checkpoint.frontier)}
    BY <1>4, SendStateEffect
  <2>2. PICK f : f = State(sock[d].stats, checkpoint.frontier)  OBVIOUS
  <2>3. f.kind = "state" /\ f.stats = o.stats  BY <1>0, <2>2 DEF State
  <2>4. TrueFrame(f)  BY <1>00, <2>3 DEF TrueFrame
  <2>5. s.stats.head <= headSeq /\ s.stats.ckptSeq <= seqFloor  BY <2>1 DEF NoStats, LogInv, LogTypeOK
  <2> QED  BY <2>1, <2>2, <2>4, <2>5, LoopIsTrue
<1>5. CASE HandleRowsReq(d)
  <2>1. PICK s, after, excluded :
          /\ LoopStep(M, d, s)
          /\ sock[d].open /\ s.open = sock[d].open /\ s.stats = sock[d].stats /\ s.bcast = sock[d].bcast
          /\ ToSet(s.down) = ToSet(sock[d].down) \cup Sent(after, excluded)
    BY <1>5, HandleRowsReqEffect
  <2>2. \A f \in ToSet(s.down) : f \in ToSet(sock[d].down) \/ TrueFrame(f)  BY <2>1, SentIsTrue
  <2> QED  BY <1>0, <1>00, <2>1, <2>2, LoopIsTrue
<1>6. CASE FinishRows(d)
  <2>1. PICK s : /\ LoopStep(M, d, s)
                 /\ sock[d].open /\ s.open = sock[d].open /\ s.stats = sock[d].stats /\ s.bcast = sock[d].bcast
                 /\ ToSet(s.down) = ToSet(sock[d].down) \cup {RowsDone(headSeq)}
    BY <1>6, FinishRowsEffect
  <2>2. TrueFrame(RowsDone(headSeq))  BY DEF TrueFrame, RowsDone
  <2> QED  BY <1>0, <1>00, <2>1, <2>2, LoopIsTrue
<1>7. CASE HandlePush(d)
  <2>1. PICK b \in Batches(M), socks \in [Devices -> Socks(M)] :
           /\ \A e \in Devices : e # d => socks[e] = sock[e]
           /\ socks[d].open /\ socks[d].stats = sock[d].stats /\ socks[d].down = sock[d].down
           /\ socks[d].bcast = sock[d].bcast
           /\ PublishStep(M, socks, d, d, b)
    BY <1>7, HandlePushEffect
  <2>2. PICK s : s = socks[d]  OBVIOUS
  <2>3. SockTrue(s)  BY <1>0, <2>1, <2>2 DEF SockTrue
  <2>4. ASSUME NEW e \in Devices PROVE TrueTo(e) /\ SockTrue(socks[e])
    BY <2>1, <2>2, <2>3 DEF TrueTo
  <2> QED  BY <2>1, <2>4, PublishIsTrue DEF Untouched
<1> QED  BY <1>1, <1>2, <1>3, <1>4, <1>5, <1>6, <1>7 DEF HubStep

LEMMA StaleIsTrue ==
  ASSUME NEW M, Shapes(M), Basic(M), LogInv, NEW d \in Devices, HandleStalePush(d), Untouched,
         \A b \in Known(d) : b.id \in BatchIds,
         \A e \in Devices : TrueTo(e)
  PROVE  \A e \in Devices : TrueTo(e)'
<1>1. \A f \in ToSet(stale[d]) : f.batch.id \in BatchIds
  <2>1. PICK F : F = ToSet(stale[d])  OBVIOUS
  <2>2. \A f \in F : f.kind = "push"
    <3>1. F \subseteq Pushes(M)  BY <2>1, ShapeParts
    <3> QED  BY <3>1 DEF Pushes
  <2>3. \A f \in F : f.batch \in Pushed(F)  BY <2>2, PushedFacts
  <2> QED  BY <2>1, <2>3, KnownFacts
<1>2. PICK b \in Batches(M) : PublishStep(M, sock, DeadSocket, d, b)  BY <1>1, HandleStalePushEffect
<1>3. PICK socks \in [Devices -> Socks(M)] : socks = sock  BY DEF Shapes
<1>4. \A e \in Devices : TrueTo(e) /\ SockTrue(socks[e])  BY <1>3 DEF TrueTo
<1> QED  BY <1>2, <1>3, <1>4, PublishIsTrue DEF Untouched


LEMMA MoveIsTrue ==
  ASSUME NEW M, Shapes(M), LogInv, UNCHANGED logVars, NEW d \in Devices, NEW c, NEW s, Moves(M, d, c, s),
         SockTrue(s), ClientTrue(c), disk'[d].cursor <= headSeq,
         \A e \in Devices : e # d => disk'[e] = disk[e],
         \A e \in Devices : TrueTo(e)
  PROVE  \A e \in Devices : TrueTo(e)'
<1>1. /\ client'[d] = c /\ sock'[d] = s /\ s \in Socks(M) /\ c \in Clients(M)
      /\ \A e \in Devices : e # d => client'[e] = client[e] /\ sock'[e] = sock[e]
  BY MovesAt DEF Moves
<1>2. LogInv' /\ LogGrows
  BY DEF LogInv, LogTypeOK, LogIsSuffix, RowsAreHistory, BatchIsUnique, PrunedIsCovered, logVars, LogGrows
<1>3. SockTrue(s)' /\ ClientTrue(c)'  BY <1>1, <1>2, SockTrueLasts, ClientTrueLasts
<1>4. PICK n : n = disk'[d].cursor  OBVIOUS
<1>5. n <= headSeq'  BY <1>4 DEF logVars
<1>6. TrueTo(d)'  BY <1>1, <1>3, <1>4, <1>5, TrueToBecomes
<1>7. ASSUME NEW e \in Devices, e # d PROVE TrueTo(e)'  BY <1>1, <1>2, <1>7, TrueToStays
<1> QED  BY <1>6, <1>7

LEMMA TookIsTrue ==
  ASSUME NEW M, Shapes(M), NEW d \in Devices, NEW kind, NEW sent, NEW s, Took(M, d, kind, sent, s), TrueTo(d)
  PROVE  SockTrue(s) /\ TrueFrame(Frame(d)) /\ Frame(d).kind = kind
<1>1. SockTrue(sock[d])  BY DEF TrueTo
<1>2. ToSet(s.down) \subseteq ToSet(sock[d].down) /\ Frame(d) \in ToSet(sock[d].down)  BY DEF Took
<1>3. ~ s.open => ToSet(s.bcast) = {} /\ ToSet(s.up) = {}  BY <1>1 DEF Took, SockTrue
<1>4. s.stats = sock[d].stats /\ s.bcast = sock[d].bcast  BY DEF Took
<1> QED  BY <1>1, <1>2, <1>3, <1>4 DEF Took, SockTrue

LEMMA WroteIsTrue ==
  ASSUME NEW M, Shapes(M), NEW d \in Devices, NEW sent, NEW s, Wrote(M, d, sent, s), TrueTo(d)
  PROVE  SockTrue(s)
<1>1. SockTrue(sock[d])  BY DEF TrueTo
<1>2. ~ s.open => ToSet(s.bcast) = {} /\ ToSet(s.up) = {}  BY <1>1 DEF Wrote, SockTrue
<1>3. s.stats = sock[d].stats /\ s.bcast = sock[d].bcast /\ s.down = sock[d].down  BY DEF Wrote
<1> QED  BY <1>1, <1>2, <1>3 DEF SockTrue

LEMMA SessionIsTrue ==
  ASSUME NEW M, Shapes(M), LogInv, NEW d \in Devices, Session(d) \/ Cut(d) \/ Dial(d),
         \A e \in Devices : TrueTo(e)
  PROVE  \A e \in Devices : TrueTo(e)'
<1>0. /\ seqFloor <= headSeq /\ seqFloor \in Nat /\ headSeq \in Nat
      /\ client[d].cursor \in Nat /\ client[d].after \in Nat /\ client[d].base \in Nat
      /\ ClientTrue(client[d]) /\ \A e \in Devices : disk[e].cursor <= headSeq
  BY ShapeParts, ClientParts DEF LogInv, LogTypeOK, LogIsSuffix, TrueTo
<1>1. CASE ReceiveState(d)
  <2>0. UNCHANGED <<logVars, disk>>  BY <1>1 DEF ReceiveState
  <2>1. PICK c, s : Moves(M, d, c, s) /\ Shapes(M)' /\ c.base = client[d].base
          /\ \/ /\ c.after = client[d].after
                /\ LET after == RowsOnlyAfter(d, Frame(d))
                   IN  /\ c.cursor = IF after < client[d].cursor THEN after ELSE client[d].cursor
                       /\ Took(M, d, "state", <<RowsReq(after, client[d].joined)>>, s)
                       /\ after \in Nat
             \/ /\ c.after = Frame(d).stats.ckptSeq /\ c.cursor = client[d].cursor
                /\ Took(M, d, "state", <<>>, s)
    BY <1>1, ReceiveStateEffect
  <2>2. \E sent : Took(M, d, "state", sent, s)  BY <2>1
  <2>3. SockTrue(s) /\ TrueFrame(Frame(d)) /\ Frame(d).kind = "state"  BY <2>2, TookIsTrue
  <2>4. Frame(d).stats.ckptSeq <= seqFloor  BY <2>3 DEF TrueFrame
  <2>5. c.after <= seqFloor  BY <1>0, <2>1, <2>4 DEF ClientTrue
  <2>6. c.cursor <= headSeq  BY <1>0, <2>1 DEF ClientTrue
  <2>7. ClientTrue(c)  BY <1>0, <2>1, <2>5, <2>6 DEF ClientTrue
  <2> QED  BY <1>0, <2>0, <2>1, <2>3, <2>7, MoveIsTrue
<1>2. CASE FetchCheckpoint(d)
  <2>0. UNCHANGED logVars  BY <1>2 DEF FetchCheckpoint
  <2>1. PICK c, s, sent :
          /\ Moves(M, d, c, s) /\ c.cursor = client[d].after /\ c.after = client[d].after
          /\ c.base = client[d].base /\ Wrote(M, d, sent, s) /\ disk'[d].cursor = client[d].after
          /\ \A e \in Devices : e # d => disk'[e] = disk[e]
    BY <1>2, FetchCheckpointEffect
  <2>2. SockTrue(s)  BY <2>1, WroteIsTrue
  <2>3. client[d].after <= headSeq /\ ClientTrue(c)  BY <1>0, <2>1 DEF ClientTrue
  <2> QED  BY <2>0, <2>1, <2>2, <2>3, MoveIsTrue
<1>3. CASE ReceiveRow(d)
  <2>0. UNCHANGED logVars  BY <1>3 DEF ReceiveRow
  <2>1. PICK c, s :
           /\ Moves(M, d, c, s) /\ Took(M, d, "row", <<>>, s)
           /\ c.cursor = Greater(client[d].cursor, Frame(d).seq) /\ c.after = client[d].after
           /\ c.base = client[d].base /\ disk'[d].cursor = Frame(d).seq
           /\ \A e \in Devices : e # d => disk'[e] = disk[e]
    BY <1>3, ReceiveRowEffect
  <2>2. SockTrue(s) /\ Frame(d).seq \in 1 .. headSeq  BY <2>1, TookIsTrue DEF TrueFrame
  <2>3. c.cursor <= headSeq  BY <1>0, <2>1, <2>2 DEF Greater, ClientTrue
  <2>4. ClientTrue(c) /\ disk'[d].cursor <= headSeq  BY <1>0, <2>1, <2>2, <2>3 DEF ClientTrue
  <2> QED  BY <2>0, <2>1, <2>2, <2>4, MoveIsTrue
<1>4. CASE ReceiveAck(d)
  <2>0. UNCHANGED logVars  BY <1>4 DEF ReceiveAck
  <2>1. PICK c, s :
           /\ Moves(M, d, c, s) /\ Took(M, d, "ack", <<>>, s)
           /\ c.cursor = Greater(client[d].cursor, Frame(d).seq) /\ c.after = client[d].after
           /\ c.base = client[d].base /\ disk'[d].cursor = c.cursor
           /\ \A e \in Devices : e # d => disk'[e] = disk[e]
    BY <1>4, ReceiveAckEffect
  <2>2. SockTrue(s) /\ Frame(d).seq \in 1 .. headSeq  BY <2>1, TookIsTrue DEF TrueFrame
  <2>3. c.cursor <= headSeq  BY <1>0, <2>1, <2>2 DEF Greater, ClientTrue
  <2>4. ClientTrue(c) /\ disk'[d].cursor <= headSeq  BY <1>0, <2>1, <2>3 DEF ClientTrue
  <2> QED  BY <2>0, <2>1, <2>2, <2>4, MoveIsTrue
<1>5. CASE ReceiveRowsDone(d)
  <2>0. UNCHANGED <<logVars, disk>>  BY <1>5 DEF ReceiveRowsDone
  <2>1. PICK c, s, sent :
           /\ Moves(M, d, c, s) /\ Took(M, d, "rowsDone", sent, s)
           /\ c.cursor = client[d].cursor /\ c.after = client[d].after /\ c.base = client[d].base
    BY <1>5, ReceiveRowsDoneEffect
  <2>2. SockTrue(s)  BY <2>1, TookIsTrue
  <2> QED  BY <1>0, <2>0, <2>1, <2>2, MoveIsTrue DEF ClientTrue
<1>6. CASE PushPending(d)
  <2>0. UNCHANGED <<logVars, disk>>  BY <1>6 DEF PushPending
  <2>1. PICK c, s, sent :
           /\ Moves(M, d, c, s) /\ sent = PushAll(d) /\ Wrote(M, d, sent, s)
           /\ c.cursor = client[d].cursor /\ c.after = client[d].after /\ c.base = client[d].base
    BY <1>6, PushPendingEffect
  <2>2. SockTrue(s)  BY <2>1, WroteIsTrue
  <2> QED  BY <1>0, <2>0, <2>1, <2>2, MoveIsTrue DEF ClientTrue
<1>7. CASE SeeClose(d) \/ Cut(d)
  <2>0. EndSession(d) /\ faults' \in Nat /\ UNCHANGED <<logVars, disk>>
    <3>1. EndSession(d) /\ faults \in Nat  BY <1>7 DEF SeeClose, Cut, Shapes
    <3>2. faults' = faults \/ faults' = faults + 1  BY <1>7 DEF SeeClose, Cut, MayFault
    <3>3. UNCHANGED <<logVars, disk>>  BY <3>1 DEF EndSession
    <3> QED  BY <3>1, <3>2, <3>3
  <2>1. PICK c :
           /\ Moves(M, d, c, NoSocket) /\ c.after = client[d].after
           /\ c.cursor = IF client[d].joined THEN client[d].cursor ELSE client[d].base
           /\ c.base = client[d].base
    BY <2>0, EndSessionEffect
  <2>2. ClientTrue(c)  BY <1>0, <2>1 DEF ClientTrue
  <2> QED  BY <1>0, <2>0, <2>1, <2>2, NoSocketIsTrue, MoveIsTrue
<1>8. CASE Dial(d)
  <2>0. UNCHANGED <<logVars, disk>>  BY <1>8 DEF Dial
  <2>1. PICK c, s :
           /\ Moves(M, d, c, s)
           /\ c.cursor = client[d].cursor /\ c.after = client[d].after /\ c.base = client[d].base
           /\ s.open /\ s.stats = NoStats /\ ToSet(s.bcast) = {} /\ ToSet(s.down) = {}
    BY <1>8, DialEffect
  <2>2. SockTrue(s)  BY <1>0, <2>1 DEF SockTrue, NoStats
  <2> QED  BY <1>0, <2>0, <2>1, <2>2, MoveIsTrue DEF ClientTrue
<1> QED  BY <1>1, <1>2, <1>3, <1>4, <1>5, <1>6, <1>7, <1>8 DEF Session


LEMMA HandleIsTrue ==
  ASSUME NEW M, Shapes(M), Basic(M), LogInv, NEW d \in Devices,
         Open(d) \/ Commit(d) \/ SaveSnapshot(d) \/ BeginSave(d) \/ FinishSave(d) \/ Crash(d) \/ Evict(d),
         commits[d] < MaxCommits => <<d, commits[d] + 1>> \in M,
         \A e \in Devices : TrueTo(e)
  PROVE  \A e \in Devices : TrueTo(e)'
<1>0. /\ UNCHANGED logVars /\ seqFloor \in Nat /\ headSeq \in Nat
      /\ ClientTrue(client[d]) /\ \A e \in Devices : disk[e].cursor <= headSeq
      /\ disk[d].cursor \in Nat
  <2>1. UNCHANGED logVars
    BY DEF Open, Commit, SaveSnapshot, BeginSave, FinishSave, Crash, Evict, CloseHandle
  <2> QED  BY <2>1, ShapeParts DEF LogInv, LogTypeOK, TrueTo
<1>00. PICK s \in Socks(M) : s = sock[d] /\ SockTrue(s)  BY ShapeParts DEF TrueTo
<1>01. PICK k \in Clients(M) : k = client[d] /\ ClientTrue(k)  BY ShapeParts DEF TrueTo
<1>1. CASE Open(d)
  <2>1. PICK c :
           /\ c \in Clients(M) /\ client' = [client EXCEPT ![d] = c]
           /\ c.cursor = disk[d].cursor /\ c.base = disk[d].cursor /\ c.after = 0
           /\ disk'[d].cursor = disk[d].cursor
           /\ \A e \in Devices : e # d => disk'[e] = disk[e]
    BY <1>1, OpenEffect
  <2>2. sock' = [sock EXCEPT ![d] = s]  BY <1>1, <1>00 DEF Open, roomVars, Shapes
  <2>3. Moves(M, d, c, s)  BY <1>00, <2>1, <2>2 DEF Moves
  <2>4. ClientTrue(c) /\ disk'[d].cursor <= headSeq  BY <1>0, <2>1 DEF ClientTrue
  <2> QED  BY <1>0, <1>00, <2>1, <2>3, <2>4, MoveIsTrue
<1>2. CASE Commit(d)
  <2>0. <<d, commits[d] + 1>> \in M  BY <1>2 DEF Commit
  <2>1. PICK c :
           /\ c \in Clients(M) /\ client' = [client EXCEPT ![d] = c]
           /\ c.cursor = client[d].cursor /\ c.base = client[d].base /\ c.after = client[d].after
    BY <1>2, <2>0, CommitEffect
  <2>2. sock' = [sock EXCEPT ![d] = s] /\ disk' = disk  BY <1>2, <1>00 DEF Commit, roomVars, Shapes
  <2>3. Moves(M, d, c, s)  BY <1>00, <2>1, <2>2 DEF Moves
  <2>4. ClientTrue(c)  BY <1>0, <2>1 DEF ClientTrue
  <2> QED  BY <1>0, <1>00, <2>2, <2>3, <2>4, MoveIsTrue
<1>3. CASE SaveSnapshot(d) \/ BeginSave(d) \/ FinishSave(d)
  <2>1. sock' = [sock EXCEPT ![d] = s] /\ client' = [client EXCEPT ![d] = k]
    BY <1>3, <1>00, <1>01 DEF SaveSnapshot, BeginSave, FinishSave, roomVars, Shapes
  <2>2. Moves(M, d, k, s)  BY <1>00, <1>01, <2>1 DEF Moves
  <2>3. disk'[d].cursor = disk[d].cursor /\ \A e \in Devices : e # d => disk'[e] = disk[e]
    <3>1. CASE SaveSnapshot(d)  BY <3>1, SaveSnapshotEffect
    <3>2. CASE BeginSave(d)  BY <3>2 DEF BeginSave
    <3>3. CASE FinishSave(d)  BY <3>3, FinishSaveEffect
    <3> QED  BY <1>3, <3>1, <3>2, <3>3
  <2> QED  BY <1>0, <1>00, <1>01, <2>2, <2>3, MoveIsTrue
<1>4. CASE Crash(d) \/ Evict(d)
  <2>1. Moves(M, d, NoClient, NoSocket)  BY <1>4, CrashEffect, EvictEffect
  <2>2. disk'[d].cursor = disk[d].cursor /\ \A e \in Devices : e # d => disk'[e] = disk[e]
    <3>1. CASE Crash(d)  BY <3>1 DEF Crash
    <3>2. CASE Evict(d)  BY <3>2, EvictEffect
    <3> QED  BY <1>4, <3>1, <3>2
  <2>3. ClientTrue(NoClient)  BY <1>0 DEF ClientTrue, NoClient
  <2> QED  BY <1>0, <2>1, <2>2, <2>3, NoSocketIsTrue, MoveIsTrue
<1> QED  BY <1>1, <1>2, <1>3, <1>4

Truth == \A d \in Devices : TrueTo(d)

LEMMA SyncParts ==
  ASSUME SyncInv
  PROVE  /\ Shapes(Ops) /\ Basic(Ops) /\ LogInv /\ headSeq <= MaxSeq /\ NamesInv /\ Counted
         /\ \A d \in Devices : commits[d] < MaxCommits => <<d, commits[d] + 1>> \in Ops
         /\ \A d \in Devices : \A b \in Known(d) : b.id \in BatchIds
         /\ \A d \in Devices : \A f \in ToSet(sock[d].up) : f.kind = "push" => f.batch \in Known(d)
         /\ \A d \in Devices : \A f \in ToSet(stale[d]) : f.kind = "push" /\ f.batch \in Known(d)
<1>1. Shapes(Ops) /\ Basic(Ops) /\ LogInv /\ headSeq <= MaxSeq /\ NamesInv /\ Counted
  BY OpsAreBasic DEF SyncInv
<1>2. \A d \in Devices : commits[d] < MaxCommits => <<d, commits[d] + 1>> \in Ops
  <2>1. \A d \in Devices : commits[d] \in Nat  BY <1>1, ShapeParts
  <2> QED  BY <2>1, ChatSyncAssumption
<1>3. \A d \in Devices : \A b \in Known(d) : b.id \in BatchIds  BY <1>1, NamesSuffice
<1>4. ASSUME NEW d \in Devices
      PROVE  /\ \A f \in ToSet(sock[d].up) : f.kind = "push" => f.batch \in Known(d)
             /\ \A f \in ToSet(stale[d]) : f.kind = "push" /\ f.batch \in Known(d)
  <2>1. PICK F, G : F = ToSet(sock[d].up) /\ G = ToSet(stale[d])  OBVIOUS
  <2>2. \A f \in G : f.kind = "push"
    <3>1. G \subseteq Pushes(Ops)  BY <1>1, <2>1, ShapeParts
    <3> QED  BY <3>1 DEF Pushes
  <2>3. (\A f \in G : f.batch \in Pushed(G)) /\ (\A f \in F : f.kind = "push" => f.batch \in Pushed(F))
    BY <2>2, PushedFacts
  <2> QED  BY <1>1, <2>1, <2>2, <2>3, KnownFacts
<1> QED  BY <1>1, <1>2, <1>3, <1>4

LEMMA TruthKept ==
  ASSUME SyncInv, Truth, NEW d \in Devices, Acts(d)
  PROVE  Truth'
<1>0. /\ Shapes(Ops) /\ Basic(Ops) /\ LogInv /\ headSeq <= MaxSeq
      /\ commits[d] < MaxCommits => <<d, commits[d] + 1>> \in Ops
      /\ \A b \in Known(d) : b.id \in BatchIds
      /\ \A f \in ToSet(sock[d].up) : f.kind = "push" => f.batch \in Known(d)
      /\ \A e \in Devices : TrueTo(e)
  BY SyncParts DEF Truth
<1>1. CASE Hub(d)
  <2>1. HubStep(d) /\ Untouched  BY <1>1 DEF Hub, Untouched
  <2> QED  BY <1>0, <2>1, HubIsTrue DEF Truth
<1>2. CASE HandleStalePush(d) /\ Untouched  BY <1>0, <1>2, StaleIsTrue DEF Truth
<1>3. CASE Session(d) \/ Cut(d) \/ Dial(d)  BY <1>0, <1>3, SessionIsTrue DEF Truth
<1>4. CASE Open(d) \/ Commit(d) \/ SaveSnapshot(d) \/ BeginSave(d) \/ FinishSave(d) \/ Crash(d) \/ Evict(d)
  BY <1>0, <1>4, HandleIsTrue DEF Truth
<1>5. CASE (LoseStale(d) /\ Untouched) \/ CheckpointWorker(d)
  <2>1. /\ UNCHANGED <<sock, client, disk>>
        /\ headSeq' = headSeq /\ accepted' = accepted /\ seqFloor' >= seqFloor
    <3>1. CASE LoseStale(d) /\ Untouched
      BY <1>0, <3>1 DEF LoseStale, Untouched, logVars, LogInv, LogTypeOK
    <3>2. CASE BeginCheckpoint(d) \/ ExportSnapshot(d) \/ PostCheckpoint(d) \/ LoseCheckpoint(d)
      <4>1. UNCHANGED <<logVars, roomVars, client, doc, disk, saving, adrift, commits, minted, faults>>
        BY <1>0, <3>2, WorkerEffect
      <4> QED  BY <1>0, <4>1 DEF logVars, roomVars, LogInv, LogTypeOK
    <3>3. CASE PostAnswered(d)
      BY <1>0, <3>3, AnsweredEffect DEF roomVars
    <3> QED  BY <1>5, <3>1, <3>2, <3>3 DEF CheckpointWorker, PostAnswered
  <2>2. LogInv'  BY StepNames
  <2>3. LogGrows  BY <1>0, <2>1 DEF LogGrows, LogInv, LogTypeOK
  <2>4. ASSUME NEW e \in Devices PROVE TrueTo(e)'  BY <1>0, <2>1, <2>2, <2>3, TrueToStays
  <2> QED  BY <2>4 DEF Truth
<1> QED  BY <1>1, <1>2, <1>3, <1>4, <1>5 DEF Acts, Environment, Untouched

LEMMA TruthStutters ==
  ASSUME SyncInv, Truth, UNCHANGED vars
  PROVE  Truth'
<1>0. Shapes(Ops) /\ LogInv  BY SyncParts
<1>1. UNCHANGED <<logVars, sock, client, disk>>  BY DEF vars, roomVars
<1>2. LogInv' /\ LogGrows
  BY <1>0, <1>1 DEF LogInv, LogTypeOK, LogIsSuffix, RowsAreHistory, BatchIsUnique, PrunedIsCovered, logVars, LogGrows
<1>3. ASSUME NEW e \in Devices PROVE TrueTo(e)'
  <2>1. TrueTo(e)  BY DEF Truth
  <2> QED  BY <1>0, <1>1, <1>2, <2>1, TrueToStays
<1> QED  BY <1>3 DEF Truth

LEMMA InitTruth ==
  ASSUME Init
  PROVE  Truth
<1>0. LogInv /\ headSeq = 0 /\ seqFloor = 0  BY OpsAreBasic, InitShapes
<1>1. ASSUME NEW d \in Devices PROVE TrueTo(d)
  <2>1. sock[d] = NoSocket /\ client[d] = NoClient /\ disk[d].cursor = 0  BY DEF Init, RoomInit
  <2>2. SockTrue(NoSocket)  BY <1>0, NoSocketIsTrue
  <2>3. ClientTrue(NoClient)  BY <1>0 DEF ClientTrue, NoClient
  <2> QED  BY <1>0, <2>1, <2>2, <2>3 DEF TrueTo
<1> QED  BY <1>1 DEF Truth


-----------------------------------------------------------------------------
(* Theorems *)

LEMMA InvariantKept ==
  ASSUME SyncInv, Truth, [Next]_vars
  PROVE  SyncInv' /\ Truth'
<1>1. CASE Next
  <2>1. PICK d \in Devices : Acts(d)  BY <1>1, NextIsAnAct
  <2> QED  BY <2>1, SyncInvKept, TruthKept
<1>2. CASE UNCHANGED vars  BY <1>2, SyncInvStutters, TruthStutters
<1> QED  BY <1>1, <1>2

\* The invariant itself: shapes, log, names of batches, and the room tells the truth.
THEOREM SyncInvariant == Spec => [](SyncInv /\ Truth)
<1>1. Init => SyncInv /\ Truth  BY InitSyncInv, InitTruth
<1>2. (SyncInv /\ Truth) /\ [Next]_vars => (SyncInv /\ Truth)'  BY InvariantKept
<1> QED  BY <1>1, <1>2, PTL DEF Spec

LEMMA TypesFollow ==
  ASSUME SyncInv, Truth
  PROVE  TypeOK
<1>0. /\ Shapes(Ops) /\ LogInv /\ LogTypeOK /\ headSeq \in Nat /\ seqFloor <= headSeq
      /\ \A d \in Devices : \A b \in Known(d) : b.id \in BatchIds
  BY SyncParts DEF LogInv, LogIsSuffix, LogTypeOK
<1>1. ASSUME NEW d \in Devices
      PROVE  /\ Phase(d) \in Phases
             /\ client[d].cursor \in 0 .. headSeq
             /\ client[d].base \in 0 .. headSeq
             /\ disk[d].cursor \in 0 .. headSeq
             /\ doc[d] \subseteq Ops /\ disk[d].doc \subseteq Ops
             /\ \A i \in DOMAIN client[d].pending : client[d].pending[i].id \in BatchIds
             /\ job[d].stage \in {"none", "cursor", "snapshot", "sent"}
             /\ sock[d].ready => sock[d].open \/ sock[d].bcast = <<>>
  <2>1. PICK c \in Clients(Ops), s \in Socks(Ops) : c = client[d] /\ s = sock[d]  BY <1>0, ShapeParts
  <2>2. SockTrue(s) /\ ClientTrue(c) /\ disk[d].cursor <= headSeq  BY <2>1 DEF Truth, TrueTo
  <2>3. c.cursor \in 0 .. headSeq /\ c.base \in 0 .. headSeq /\ c.phase \in Phases
    BY <1>0, <2>2, ClientParts DEF ClientTrue
  <2>4. /\ disk[d].cursor \in 0 .. headSeq /\ doc[d] \subseteq Ops /\ disk[d].doc \subseteq Ops
        /\ job[d].stage \in {"none", "cursor", "snapshot", "sent"}
    BY <1>0, <2>2, ShapeParts
  <2>5. \A i \in DOMAIN c.pending : c.pending[i].id \in BatchIds
    <3>1. \A i \in DOMAIN c.pending : c.pending[i] \in ToSet(c.pending)  BY DEF ToSet
    <3>2. ToSet(c.pending) \subseteq Known(d)  BY <1>0, <2>1, KnownFacts
    <3> QED  BY <1>0, <3>1, <3>2
  <2>6. ~ s.open => s.bcast = <<>>
    <3>1. s.bcast \in Seq(RoomEvents(Ops)) /\ ToSet(s.bcast) = {s.bcast[i] : i \in 1 .. Len(s.bcast)}
      BY SockParts, ToSetOfSeq
    <3>2. ASSUME ToSet(s.bcast) = {} PROVE s.bcast = <<>>
      <4>1. Len(s.bcast) \in Nat  BY <3>1
      <4>2. Len(s.bcast) = 0
        <5>1. CASE Len(s.bcast) # 0
          <6>1. 1 \in 1 .. Len(s.bcast)  BY <4>1, <5>1
          <6> QED  BY <3>1, <3>2, <6>1
        <5> QED  BY <5>1
      <4> QED  BY <3>1, <4>2
    <3> QED  BY <2>2, <3>2 DEF SockTrue
  <2> QED  BY <2>1, <2>3, <2>4, <2>5, <2>6 DEF Phase
<1> QED  BY <1>0, <1>1 DEF TypeOK

\* Documents, queues, sockets and jobs are what they should be, and no cursor, in
\* memory or on disk, is ever beyond the head of the room: whatever is cut, crashes
\* or is delayed, a client never claims rows the room does not have.
THEOREM SyncTypeCorrect == Spec => []TypeOK
<1>1. SyncInv /\ Truth => TypeOK  BY TypesFollow
<1> QED  BY <1>1, SyncInvariant, PTL

\* Only its acknowledgement takes a batch from the queue of a handle that stays open.
LEMMA QueueShrinks ==
  ASSUME NEW M, Shapes(M), Basic(M), NEW e \in Devices, Acts(e), NEW d \in Devices,
         commits[e] < MaxCommits => <<e, commits[e] + 1>> \in M,
         client[d].phase # "closed", client'[d].phase # "closed"
  PROVE  \/ ToSet(client[d].pending) \subseteq ToSet(client'[d].pending)
         \/ d = e /\ ReceiveAck(d)
<1>1. CASE Session(e) \/ Cut(e) \/ Dial(e)
  <2>1. ASSUME NEW c, NEW s, Moves(M, e, c, s), c.pending = client[e].pending
        PROVE  ToSet(client[d].pending) \subseteq ToSet(client'[d].pending)
    BY <2>1, MovesAt
  <2>2. CASE ReceiveState(e)
    <3>1. PICK c, s : Moves(M, e, c, s) /\ Shapes(M)' /\ c.pending = client[e].pending
            /\ \/ \E n \in Nat : Took(M, e, "state", <<RowsReq(n, client[e].joined)>>, s)
               \/ Took(M, e, "state", <<>>, s)
      BY <2>2, ReceiveStateEffect
    <3> QED  BY <2>1, <3>1
  <2>3. CASE FetchCheckpoint(e)
    <3>1. PICK c, s, sent :
            /\ Moves(M, e, c, s) /\ c.pending = client[e].pending /\ c.phase = "backfill"
            /\ Wrote(M, e, sent, s) /\ disk'[e].cursor = client[e].after
      BY <2>3, FetchCheckpointEffect
    <3> QED  BY <2>1, <3>1
  <2>4. CASE ReceiveRow(e)
    <3>1. PICK c, s : Moves(M, e, c, s) /\ c.pending = client[e].pending  BY <2>4, ReceiveRowEffect
    <3> QED  BY <2>1, <3>1
  <2>5. CASE ReceiveAck(e)
    <3>1. PICK c, s : Moves(M, e, c, s)  BY <2>5, ReceiveAckEffect
    <3>2. CASE d = e  BY <2>5, <3>2
    <3>3. CASE d # e  BY <3>1, <3>3, MovesAt
    <3> QED  BY <3>2, <3>3
  <2>6. CASE ReceiveRowsDone(e)
    <3>1. PICK c, s : Moves(M, e, c, s) /\ c.pending = client[e].pending  BY <2>6, ReceiveRowsDoneEffect
    <3> QED  BY <2>1, <3>1
  <2>7. CASE PushPending(e)
    <3>1. PICK c, s : Moves(M, e, c, s) /\ c.pending = client[e].pending  BY <2>7, PushPendingEffect
    <3> QED  BY <2>1, <3>1
  <2>8. CASE SeeClose(e) \/ Cut(e)
    <3>1. EndSession(e) /\ faults' \in Nat
      <4>1. EndSession(e) /\ faults \in Nat  BY <2>8 DEF SeeClose, Cut, Shapes
      <4>2. faults' = faults \/ faults' = faults + 1  BY <2>8 DEF SeeClose, Cut, MayFault
      <4> QED  BY <4>1, <4>2
    <3>2. PICK c : Moves(M, e, c, NoSocket) /\ c.pending = client[e].pending  BY <3>1, EndSessionEffect
    <3> QED  BY <2>1, <3>2
  <2>9. CASE Dial(e)
    <3>1. PICK c, s : Moves(M, e, c, s) /\ c.pending = client[e].pending  BY <2>9, DialEffect
    <3> QED  BY <2>1, <3>1
  <2> QED  BY <1>1, <2>2, <2>3, <2>4, <2>5, <2>6, <2>7, <2>8, <2>9 DEF Session
<1>2. CASE \/ SaveSnapshot(e) \/ BeginSave(e) \/ FinishSave(e)
           \/ Hub(e) \/ Environment(e) \/ CheckpointWorker(e)
  <2>1. client' = client
    BY <1>2 DEF SaveSnapshot, BeginSave, FinishSave, Hub, Environment, CheckpointWorker, BeginCheckpoint,
           ExportSnapshot, PostCheckpoint, StoreCheckpoint, LoseCheckpoint, LateCheckpoint
  <2> QED  BY <2>1
<1>3. CASE Open(e)
  <2>1. d # e  BY <1>3 DEF Open, Phase
  <2>2. PICK c, x :
          /\ x = StoredOrInit(e) /\ x \in SUBSET M
          /\ c \in Clients(M) /\ client' = [client EXCEPT ![e] = c] /\ Shapes(M)'
    BY <1>3, OpenEffect
  <2> QED  BY <2>1, <2>2 DEF Shapes
<1>4. CASE Commit(e)
  <2>0. <<e, commits[e] + 1>> \in M  BY <1>4 DEF Commit
  <2>1. PICK c, x : /\ c \in Clients(M) /\ client' = [client EXCEPT ![e] = c]
                    /\ ToSet(c.pending) = ToSet(client[e].pending)
                         \cup IF Cardinality(x) <= MaxPushOps THEN {Minted(e, x)} ELSE {}
    BY <1>4, <2>0, CommitEffect
  <2>2. CASE d = e
    <3>1. client'[d] = c  BY <2>1, <2>2 DEF Shapes
    <3> QED  BY <2>1, <2>2, <3>1
  <2>3. CASE d # e  BY <2>1, <2>3 DEF Shapes
  <2> QED  BY <2>2, <2>3
<1>5. CASE Crash(e) \/ Evict(e)
  <2>1. Moves(M, e, NoClient, NoSocket)  BY <1>5, CrashEffect, EvictEffect
  <2>2. client'[e].phase = "closed"  BY <2>1, MovesAt DEF NoClient
  <2> QED  BY <2>1, <2>2, MovesAt
<1> QED  BY <1>1, <1>2, <1>3, <1>4, <1>5 DEF Acts

LEMMA AckedBatch ==
  ASSUME SyncInv, Truth, NEW e \in Devices, Acts(e), NEW d \in Devices,
         client[d].phase # "closed", client'[d].phase # "closed", NEW b \in ToSet(client[d].pending)
  PROVE  b \in ToSet(client'[d].pending) \/ b.ops \subseteq RoomOps'
<1>1. /\ Shapes(Ops) /\ Basic(Ops) /\ NamesInv /\ LogInv
      /\ commits[e] < MaxCommits => <<e, commits[e] + 1>> \in Ops
  BY SyncParts
<1>2. CASE ReceiveAck(d)
  <2>1. PICK c, s :
           /\ Moves(Ops, d, c, s) /\ Took(Ops, d, "ack", <<>>, s)
           /\ ToSet(c.pending) = {q \in ToSet(client[d].pending) : q.id # Frame(d).id}
    BY <1>1, <1>2, ReceiveAckEffect
  <2>2. client'[d] = c  BY <1>1, <2>1, MovesAt
  <2>3. CASE b.id # Frame(d).id  BY <2>1, <2>2, <2>3
  <2>4. CASE b.id = Frame(d).id
    <3>1. TrueFrame(Frame(d)) /\ Frame(d).kind = "ack"  BY <1>1, <2>1, TookIsTrue DEF Truth
    <3>2. PICK n \in 1 .. headSeq : accepted[n].batch = b.id  BY <2>4, <3>1 DEF TrueFrame
    <3>3. b \in Known(d)  BY <1>1, KnownFacts
    <3>4. accepted[n].ops = b.ops  BY <1>1, <3>2, <3>3 DEF NamesInv, RowsAreBatches
    <3>5. headSeq' = headSeq /\ accepted' = accepted  BY <1>2 DEF ReceiveAck, logVars
    <3> QED  BY <3>2, <3>4, <3>5 DEF RoomOps
  <2> QED  BY <2>3, <2>4
<1>3. CASE ~ ReceiveAck(d)  BY <1>1, <1>3, QueueShrinks
<1> QED  BY <1>2, <1>3

LEMMA AckedStep ==
  ASSUME SyncInv, Truth, Next, NEW d \in Devices, IsOpen(d), IsOpen(d)', NEW i \in DOMAIN client[d].pending
  PROVE  \/ \E j \in DOMAIN client'[d].pending : client'[d].pending[j] = client[d].pending[i]
         \/ client[d].pending[i].ops \subseteq RoomOps'
<1>0. PICK e \in Devices : Acts(e)  BY NextIsAnAct
<1>1. PICK b : b = client[d].pending[i]  OBVIOUS
<1>2. b \in ToSet(client[d].pending)  BY <1>1 DEF ToSet
<1>3. client[d].phase # "closed" /\ client'[d].phase # "closed"  BY DEF IsOpen, Phase
<1>4. b \in ToSet(client'[d].pending) \/ b.ops \subseteq RoomOps'  BY <1>0, <1>2, <1>3, AckedBatch
<1>5. b \in ToSet(client'[d].pending) => \E j \in DOMAIN client'[d].pending : client'[d].pending[j] = b
  BY DEF ToSet
<1> QED  BY <1>1, <1>4, <1>5

\* What leaves the queue of an open handle is in the room, whatever is cut, crashes,
\* is evicted or delayed: an acknowledgement names the row that holds the batch's
\* operations, under whichever of its pushes it was stored.
THEOREM AckedIsSafe == Spec => AckedIsDurable
<1>1. SyncInv /\ Truth /\ [Next]_vars =>
        [\A d \in Devices : IsOpen(d) /\ IsOpen(d)' =>
           \A i \in DOMAIN client[d].pending :
             \/ \E j \in DOMAIN client'[d].pending : client'[d].pending[j] = client[d].pending[i]
             \/ client[d].pending[i].ops \subseteq RoomOps']_vars
  <2> SUFFICES ASSUME SyncInv, Truth, Next, NEW d \in Devices, IsOpen(d), IsOpen(d)',
                      NEW i \in DOMAIN client[d].pending
               PROVE  \/ \E j \in DOMAIN client'[d].pending : client'[d].pending[j] = client[d].pending[i]
                      \/ client[d].pending[i].ops \subseteq RoomOps'
    OBVIOUS
  <2> QED  BY AckedStep
<1> QED  BY <1>1, SyncInvariant, PTL DEF Spec, AckedIsDurable


LEMMA TwiceIsPruned ==
  ASSUME LogInv, NEW s \in 1 .. headSeq, NEW t \in 1 .. headSeq, s < t, accepted[s].batch = accepted[t].batch
  PROVE  s <= seqFloor
<1>1. DOMAIN rows = (seqFloor + 1) .. headSeq /\ seqFloor \in Nat /\ headSeq \in Nat
  BY DEF LogInv, LogTypeOK, LogIsSuffix
<1>2. CASE s > seqFloor
  <2>1. s \in DOMAIN rows /\ t \in DOMAIN rows  BY <1>1, <1>2
  <2>2. rows[s] = accepted[s] /\ rows[t] = accepted[t]  BY <2>1 DEF LogInv, RowsAreHistory
  <2>3. s = t  BY <2>1, <2>2 DEF LogInv, BatchIsUnique
  <2> QED  BY <2>3
<1> QED  BY <1>1, <1>2

\* A batch is in the room twice only when the first copy is under the checkpoint:
\* the table in which a replay is looked up has every row above it.
THEOREM ReplaysEndAtTheFloor ==
  Spec => [](\A s, t \in 1 .. headSeq : s < t /\ accepted[s].batch = accepted[t].batch => s <= seqFloor)
<1>1. SyncInv => \A s, t \in 1 .. headSeq : s < t /\ accepted[s].batch = accepted[t].batch => s <= seqFloor
  BY TwiceIsPruned DEF SyncInv
<1> QED  BY <1>1, SyncInvariant, PTL

Untrimmed == seqFloor = 0 /\ \A d \in Devices : job[d].stage = "none" /\ adrift[d] = {}

LEMMA UntrimmedKept ==
  ASSUME MaxCheckpoints = 0, SyncInv, Untrimmed, NEW d \in Devices, Acts(d)
  PROVE  Untrimmed'
<1>0. checkpoints \in Nat /\ job \in [Devices -> Jobs(Ops)] /\ Shapes(Ops)  BY DEF SyncInv, Shapes
<1>1. /\ seqFloor' = seqFloor
      /\ \/ job' = job /\ adrift' = adrift
         \/ \A e \in Devices : job'[e].stage = "none" /\ adrift'[e] = {}
  <2>1. CASE Hub(d)
    BY <2>1 DEF Hub, HubStep, ServeEvent, CloseLagged, HandleHello, SendState, HandleRowsReq, FinishRows, HandlePush,
                AppendAndPublish, AppendRow, logVars,
                engineVars
  <2>2. CASE Environment(d)
    BY <2>2 DEF Environment, HandleStalePush, LoseStale, AppendAndPublish, AppendRow, logVars,
                engineVars
  <2>3. CASE CheckpointWorker(d)
    <3>1. ~ BeginCheckpoint(d)  BY <1>0 DEF BeginCheckpoint
    <3>2. ~ (ExportSnapshot(d) \/ PostCheckpoint(d) \/ PostAnswered(d) \/ LoseCheckpoint(d))
      BY DEF Untrimmed, ExportSnapshot, PostCheckpoint, PostAnswered, StoreCheckpoint, LoseCheckpoint,
             LateCheckpoint
    <3> QED  BY <2>3, <3>1, <3>2 DEF CheckpointWorker, PostAnswered
  <2>4. CASE Session(d) \/ Cut(d) \/ Dial(d)
    BY <2>4 DEF Session, ReceiveState, FetchCheckpoint, ReceiveRow, ReceiveAck, ReceiveRowsDone, PushPending,
                SeeClose, Cut, Dial, EndSession, logVars, engineVars
  <2>5. CASE Open(d) \/ Commit(d) \/ SaveSnapshot(d) \/ BeginSave(d) \/ FinishSave(d)
    BY <2>5 DEF Open, Commit, SaveSnapshot, BeginSave, FinishSave, logVars, engineVars
  <2>6. CASE Crash(d) \/ Evict(d)
    <3>1. CloseHandle(d) /\ seqFloor' = seqFloor  BY <2>6 DEF Crash, Evict, CloseHandle, logVars
    <3>2. /\ \A e \in Devices : e # d => job'[e] = job[e] /\ adrift'[e] = adrift[e]
          /\ job'[d] = NoJob
          /\ \A p \in adrift'[d] : p \in adrift[d] \/ job[d].stage = "sent"
      BY <1>0, <3>1, CloseHandleEffect
    <3>3. adrift'[d] = {}  BY <3>2 DEF Untrimmed
    <3> QED  BY <3>1, <3>2, <3>3 DEF Untrimmed, NoJob
  <2> QED  BY <2>1, <2>2, <2>3, <2>4, <2>5, <2>6 DEF Acts
<1> QED  BY <1>1 DEF Untrimmed

\* Where no checkpoint is posted the room never trims, and however often a batch is
\* pushed - replayed on a rejoin, nudged again, arriving from a dead connection - it
\* is stored once.
THEOREM ReplayIsSafe ==
  ASSUME MaxCheckpoints = 0
  PROVE  Spec => []ReplayIsNoOp
<1>1. Init => Untrimmed  BY DEF Init, LogInit, Untrimmed, NoJob
<1>2. (SyncInv /\ Truth) /\ Untrimmed /\ [Next]_vars => Untrimmed'
  <2>1. ASSUME SyncInv, Untrimmed, Next PROVE Untrimmed'
    <3>1. PICK d \in Devices : Acts(d)  BY <2>1, NextIsAnAct
    <3> QED  BY <2>1, <3>1, UntrimmedKept
  <2>2. ASSUME Untrimmed, UNCHANGED vars PROVE Untrimmed'
    BY <2>2 DEF Untrimmed, vars, logVars, engineVars
  <2> QED  BY <2>1, <2>2
<1>3. SyncInv /\ Untrimmed => ReplayIsNoOp
  <2> SUFFICES ASSUME SyncInv, Untrimmed, NEW s \in 1 .. headSeq, NEW t \in 1 .. headSeq,
                      accepted[s].batch = accepted[t].batch
               PROVE  s = t
    BY DEF ReplayIsNoOp
  <2>1. LogInv /\ headSeq \in Nat /\ seqFloor = 0  BY DEF SyncInv, LogInv, LogTypeOK, Untrimmed
  <2>2. CASE s < t  BY <2>1, <2>2, TwiceIsPruned
  <2>3. CASE t < s  BY <2>1, <2>3, TwiceIsPruned
  <2> QED  BY <2>1, <2>2, <2>3
<1> QED  BY <1>1, <1>2, <1>3, SyncInvariant, PTL DEF Spec


-----------------------------------------------------------------------------
(***************************************************************************)
(* The outbox.  Made is the set of operations made so far; no copy of a    *)
(* document, a batch or a row holds another (Shapes(Made)).  As long as    *)
(* handles are not closed, whatever a device made is in its queue or in    *)
(* the room.                                                               *)
(***************************************************************************)

Made == {op \in Ops : op[2] <= commits[op[1]]}

LEMMA FramesGrow ==
  ASSUME NEW M, NEW N, M \subseteq N
  PROVE  /\ Batches(M) \subseteq Batches(N) /\ Pushes(M) \subseteq Pushes(N)
         /\ UpFrames(M) \subseteq UpFrames(N) /\ DownFrames(M) \subseteq DownFrames(N)
         /\ RoomEvents(M) \subseteq RoomEvents(N) /\ Stores(M) \subseteq Stores(N) /\ Jobs(M) \subseteq Jobs(N)
<1>1. Batches(M) \subseteq Batches(N)  BY DEF Batches
<1>2. Pushes(M) \subseteq Pushes(N)  BY <1>1 DEF Pushes
<1>3. UpFrames(M) \subseteq UpFrames(N)  BY <1>2 DEF UpFrames
<1>4. RowFrames(M) \subseteq RowFrames(N) /\ StateFrames(M) \subseteq StateFrames(N)  BY DEF RowFrames, StateFrames
<1>5. DownFrames(M) \subseteq DownFrames(N)  BY <1>4 DEF DownFrames
<1>6. RoomEvents(M) \subseteq RoomEvents(N)  BY <1>4 DEF RoomEvents
<1>7. Stores(M) \subseteq Stores(N) /\ Jobs(M) \subseteq Jobs(N)  BY DEF Stores, Jobs
<1> QED  BY <1>1, <1>2, <1>3, <1>5, <1>6, <1>7

LEMMA ShapesGrow ==
  ASSUME NEW M, NEW N, M \subseteq N, Shapes(M)
  PROVE  Shapes(N)
<1>1. /\ Seq(Batches(M)) \subseteq Seq(Batches(N)) /\ Seq(Pushes(M)) \subseteq Seq(Pushes(N))
      /\ Seq(UpFrames(M)) \subseteq Seq(UpFrames(N)) /\ Seq(DownFrames(M)) \subseteq Seq(DownFrames(N))
      /\ Seq(RoomEvents(M)) \subseteq Seq(RoomEvents(N))
  BY FramesGrow, SeqOfMore
<1>2. Socks(M) \subseteq Socks(N)
  <2> SUFFICES ASSUME NEW s \in Socks(M) PROVE s \in Socks(N)  OBVIOUS
  <2>1. PICK U, B, W : U = Seq(UpFrames(M)) /\ B = Seq(RoomEvents(M)) /\ W = Seq(DownFrames(M))  OBVIOUS
  <2>2. PICK V, C, X : V = Seq(UpFrames(N)) /\ C = Seq(RoomEvents(N)) /\ X = Seq(DownFrames(N))  OBVIOUS
  <2>3. U \subseteq V /\ B \subseteq C /\ W \subseteq X  BY <1>1, <2>1, <2>2
  <2>4. s \in [open : BOOLEAN, ready : BOOLEAN, owes : {"nothing", "state", "rowsDone"}, stats : Counts,
               up : U, bcast : B, down : W]
    BY <2>1 DEF Socks
  <2>5. s \in [open : BOOLEAN, ready : BOOLEAN, owes : {"nothing", "state", "rowsDone"}, stats : Counts,
               up : V, bcast : C, down : X]
    BY <2>3, <2>4
  <2> QED  BY <2>2, <2>5 DEF Socks
<1>3. Clients(M) \subseteq Clients(N)
  <2>1. PICK P, Q : P = Seq(Batches(M)) /\ Q = Seq(Batches(N)) /\ P \subseteq Q  BY <1>1
  <2>2. [phase : Phases, cursor : Nat, base : Nat, joined : BOOLEAN, after : Nat, pending : P, nudged : BOOLEAN]
        \subseteq
        [phase : Phases, cursor : Nat, base : Nat, joined : BOOLEAN, after : Nat, pending : Q, nudged : BOOLEAN]
    BY <2>1
  <2> QED  BY <2>1, <2>2 DEF Clients
<1>4. PICK A, B, C, P, Q, R, S, T :
        /\ A = Socks(M) /\ B = Socks(N) /\ C = Clients(M) /\ P = Clients(N)
        /\ Q = Stores(M) /\ R = Stores(N) /\ S = Jobs(M) /\ T = Jobs(N)
        /\ A \subseteq B /\ C \subseteq P /\ Q \subseteq R /\ S \subseteq T
  BY <1>2, <1>3, FramesGrow
<1>5. PICK X, Y : X = Seq(Pushes(M)) /\ Y = Seq(Pushes(N)) /\ X \subseteq Y  BY <1>1
<1>6. /\ sock \in [Devices -> A] /\ stale \in [Devices -> X] /\ client \in [Devices -> C]
      /\ doc \in [Devices -> SUBSET M] /\ disk \in [Devices -> Q] /\ saving \in [Devices -> SUBSET SUBSET M]
      /\ job \in [Devices -> S] /\ adrift \in [Devices -> SUBSET S] /\ LogOf(M)
      /\ commits \in [Devices -> Nat] /\ minted \in [Devices -> Nat] /\ faults \in Nat /\ checkpoints \in Nat
  BY <1>4, <1>5 DEF Shapes
<1>7. sock \in [Devices -> B] /\ stale \in [Devices -> Y] /\ client \in [Devices -> P]  BY <1>4, <1>5, <1>6
<1>8. doc \in [Devices -> SUBSET N] /\ saving \in [Devices -> SUBSET SUBSET N]  BY <1>6
<1>9. disk \in [Devices -> R] /\ job \in [Devices -> T] /\ adrift \in [Devices -> SUBSET T]  BY <1>4, <1>6
<1>10. LogOf(N)  BY <1>6 DEF LogOf
<1> QED  BY <1>4, <1>5, <1>6, <1>7, <1>8, <1>9, <1>10 DEF Shapes


\* Shapes(Made), with the set as a value.
OnlyMade == \E M \in SUBSET Ops : M = Made /\ Shapes(M)

LEMMA StepShapes ==
  ASSUME SyncInv, NEW N, Shapes(N), Basic(N), NEW d \in Devices, Acts(d),
         Commit(d) => <<d, commits[d] + 1>> \in N
  PROVE  Shapes(N)'
<1>0. /\ LogInv /\ headSeq <= MaxSeq
      /\ \A b \in Known(d) : b.id \in BatchIds
      /\ \A f \in ToSet(sock[d].up) : f.kind = "push" => f.batch \in Known(d)
  BY SyncParts
<1>1. CASE Hub(d)
  <2>1. HubStep(d) /\ Untouched  BY <1>1 DEF Hub, Untouched
  <2>2. \A f \in ToSet(sock[d].up) : f.kind = "push" => f.batch.id \in BatchIds  BY <1>0
  <2> QED  BY <1>0, <2>1, <2>2, HubNames
<1>2. CASE Environment(d) \/ CheckpointWorker(d)  BY <1>0, <1>2, ApartNames
<1>3. CASE Session(d) \/ Cut(d)  BY <1>3, SessionNames
<1>4. CASE Open(d)
  <2>1. PICK c, x : /\ x = StoredOrInit(d) /\ x \in SUBSET N
                    /\ c \in Clients(N) /\ client' = [client EXCEPT ![d] = c] /\ Shapes(N)'
    BY <1>4, OpenEffect
  <2> QED  BY <2>1
<1>5. CASE Commit(d)  BY <1>5, HandleNames
<1>6. CASE Dial(d)
  <2>1. PICK c, s : Moves(N, d, c, s) /\ Shapes(N)' /\ ToSet(s.up) = {Hello}  BY <1>6, DialEffect
  <2> QED  BY <2>1
<1>7. CASE SaveSnapshot(d) \/ BeginSave(d) \/ FinishSave(d)
  BY <1>7, SaveSnapshotEffect, BeginSaveEffect, FinishSaveEffect
<1>8. CASE Crash(d) \/ Evict(d)  BY <1>8, CrashEffect, EvictEffect
<1> QED  BY <1>1, <1>2, <1>3, <1>4, <1>5, <1>6, <1>7, <1>8 DEF Acts

LEMMA CommitsGrow ==
  ASSUME NEW M, Shapes(M), NEW d \in Devices, Acts(d)
  PROVE  /\ \A e \in Devices : commits[e] \in Nat /\ commits'[e] \in Nat
         /\ \A e \in Devices : e # d \/ ~ Commit(d) => commits'[e] = commits[e]
         /\ Commit(d) => commits'[d] = commits[d] + 1 /\ commits[d] < MaxCommits
<1>0. commits \in [Devices -> Nat]  BY DEF Shapes
<1>1. Commit(d) => commits' = [commits EXCEPT ![d] = @ + 1] /\ commits[d] < MaxCommits  BY DEF Commit
<1>2. ~ Commit(d) => commits' = commits
  <2>1. CASE Open(d) \/ SaveSnapshot(d) \/ BeginSave(d) \/ FinishSave(d) \/ Dial(d) \/ Hub(d) \/ Environment(d)
    BY <2>1 DEF Open, SaveSnapshot, BeginSave, FinishSave, Dial, Hub, Environment, engineVars
  <2>2. CASE CheckpointWorker(d)
    BY <2>2 DEF CheckpointWorker, BeginCheckpoint, ExportSnapshot, PostCheckpoint, StoreCheckpoint, LoseCheckpoint, LateCheckpoint,
                engineVars
  <2>3. CASE Session(d) \/ Cut(d)  BY <2>3, SessionNames
  <2>4. CASE Crash(d) \/ Evict(d)  BY <2>4 DEF Crash, Evict, CloseHandle
  <2> QED  BY <2>1, <2>2, <2>3, <2>4 DEF Acts
<1>3. CASE Commit(d)
  <2>1. commits'[d] = commits[d] + 1 /\ \A e \in Devices : e # d => commits'[e] = commits[e]  BY <1>0, <1>1, <1>3
  <2> QED  BY <1>0, <1>1, <1>3, <2>1
<1>4. CASE ~ Commit(d)  BY <1>0, <1>2, <1>4
<1> QED  BY <1>3, <1>4

LEMMA MadeIsBasic ==
  ASSUME NEW M, Shapes(M)
  PROVE  Basic(Made)
<1>1. \A d \in Devices : commits[d] \in Nat  BY ShapeParts
<1>2. \A d \in Devices : <<d, 0>> \in Ops  BY ChatSyncAssumption
<1> QED  BY <1>1, <1>2 DEF Made, Basic

LEMMA OnlyMadeKept ==
  ASSUME SyncInv, OnlyMade, NEW d \in Devices, Acts(d)
  PROVE  OnlyMade'
<1>1. PICK M \in SUBSET Ops : M = Made /\ Shapes(M)  BY DEF OnlyMade
<1>2. PICK N \in SUBSET Ops : N = Made'  BY DEF Made
<1>3. /\ \A e \in Devices : commits[e] \in Nat /\ commits'[e] \in Nat
      /\ \A e \in Devices : e # d \/ ~ Commit(d) => commits'[e] = commits[e]
      /\ Commit(d) => commits'[d] = commits[d] + 1 /\ commits[d] < MaxCommits
  BY <1>1, CommitsGrow
<1>4. \A op \in Ops : op[1] \in Devices /\ op[2] \in Nat  BY ChatSyncAssumption
<1>5. M \subseteq N
  <2>1. \A e \in Devices : commits[e] <= commits'[e]  BY <1>3
  <2>2. ASSUME NEW op \in Ops, op[2] <= commits[op[1]] PROVE op[2] <= commits'[op[1]]
    <3>1. PICK e \in Devices, n \in Nat : e = op[1] /\ n = op[2]  BY <1>4
    <3>2. n <= commits[e] /\ commits[e] <= commits'[e] /\ commits[e] \in Nat /\ commits'[e] \in Nat
      BY <1>3, <2>1, <2>2, <3>1
    <3>3. n <= commits'[e]  BY <3>2
    <3> QED  BY <3>1, <3>3
  <2> QED  BY <1>1, <1>2, <2>2 DEF Made
<1>6. Shapes(N) /\ Basic(N)
  <2>1. Basic(M)  BY <1>1, MadeIsBasic
  <2> QED  BY <1>1, <1>5, <2>1, ShapesGrow DEF Basic
<1>7. ASSUME Commit(d) PROVE <<d, commits[d] + 1>> \in N
  <2>1. PICK op : op = <<d, commits[d] + 1>>  OBVIOUS
  <2>2. op \in Ops  BY <1>3, <1>7, <2>1, ChatSyncAssumption
  <2>3. op[1] = d /\ op[2] = commits'[d]  BY <1>3, <1>7, <2>1
  <2>4. op \in N  BY <1>2, <1>3, <2>2, <2>3 DEF Made
  <2> QED  BY <2>1, <2>4
<1>8. Shapes(N)'  BY <1>6, <1>7, StepShapes
<1> QED  BY <1>2, <1>8 DEF OnlyMade


LEMMA PhaseStays ==
  ASSUME NEW M, Shapes(M), Basic(M), NEW d \in Devices, Acts(d), ~ Crash(d), ~ Evict(d),
         commits[d] < MaxCommits => <<d, commits[d] + 1>> \in M
  PROVE  \A e \in Devices : client'[e].phase = "closed" => client[e].phase = "closed"
<1>1. CASE Session(d) \/ Cut(d) \/ Dial(d)  BY <1>1, SessionPhase
<1>2. CASE \/ SaveSnapshot(d) \/ BeginSave(d) \/ FinishSave(d)
           \/ Hub(d) \/ Environment(d) \/ CheckpointWorker(d)
  <2>1. client' = client
    BY <1>2 DEF SaveSnapshot, BeginSave, FinishSave, Hub, Environment, CheckpointWorker, BeginCheckpoint,
           ExportSnapshot, PostCheckpoint, StoreCheckpoint, LoseCheckpoint, LateCheckpoint
  <2> QED  BY <2>1
<1>3. CASE Open(d)
  <2>1. PICK c, x :
          /\ x = StoredOrInit(d) /\ x \in SUBSET M
          /\ c \in Clients(M) /\ client' = [client EXCEPT ![d] = c] /\ Shapes(M)'
          /\ c.phase = "idle" /\ client[d].phase = "closed"
          /\ disk[d].cursor # 0 => minted' = minted
    BY <1>3, OpenEffect
  <2>2. client'[d].phase = "idle" /\ \A e \in Devices : e # d => client'[e] = client[e]  BY <2>1 DEF Shapes
  <2> QED  BY <2>2
<1>4. CASE Commit(d)
  <2>0. <<d, commits[d] + 1>> \in M  BY <1>4 DEF Commit
  <2>1. PICK c : client' = [client EXCEPT ![d] = c] /\ c.phase = client[d].phase /\ c.phase # "closed"
    BY <1>4, <2>0, CommitEffect
  <2>2. client'[d].phase # "closed" /\ \A e \in Devices : e # d => client'[e] = client[e]
    BY <2>1 DEF Shapes
  <2> QED  BY <2>2
<1> QED  BY <1>1, <1>2, <1>3, <1>4 DEF Acts

\* A handle that is closed was never opened, where handles are never closed.
Unopened(d) ==
  client[d].phase = "closed" =>
    disk[d].doc = {} /\ disk[d].cursor = 0 /\ commits[d] = 0 /\ saving[d] = {}

LEMMA UnopenedKept ==
  ASSUME NEW M, Shapes(M), Basic(M), NEW d \in Devices, Acts(d), ~ Crash(d), ~ Evict(d),
         commits[d] < MaxCommits => <<d, commits[d] + 1>> \in M,
         \A e \in Devices : Unopened(e)
  PROVE  \A e \in Devices : Unopened(e)'
<1> SUFFICES ASSUME NEW e \in Devices, client'[e].phase = "closed"
             PROVE  disk'[e].doc = {} /\ disk'[e].cursor = 0 /\ commits'[e] = 0 /\ saving'[e] = {}
  BY DEF Unopened
<1>0. /\ client[e].phase = "closed"
      /\ disk[e].doc = {} /\ disk[e].cursor = 0 /\ commits[e] = 0 /\ saving[e] = {}
  BY PhaseStays DEF Unopened
<1>1. commits'[e] = commits[e]
  <2>1. CASE Commit(d)
    <3>1. d # e  BY <1>0, <2>1 DEF Commit, IsOpen, Phase
    <3> QED  BY <3>1, CommitsGrow
  <2> QED  BY <2>1, CommitsGrow
<1>2. CASE Session(d) \/ Cut(d) \/ Dial(d)
  <2>1. saving' = saving
    BY <1>2 DEF Session, ReceiveState, FetchCheckpoint, ReceiveRow, ReceiveAck, ReceiveRowsDone, PushPending,
                SeeClose, Cut, Dial, EndSession
  <2>2. disk' = disk \/ (e # d /\ \A f \in Devices : f # d => disk'[f] = disk[f])
    <3>1. CASE FetchCheckpoint(d)  BY <1>0, <3>1 DEF FetchCheckpoint, Phase, Shapes
    <3>2. CASE ReceiveRow(d)  BY <1>0, <3>2 DEF ReceiveRow, Streaming, Phase, Shapes
    <3>3. CASE ReceiveAck(d)  BY <1>0, <3>3 DEF ReceiveAck, Streaming, Phase, Shapes
    <3>4. CASE ReceiveState(d) \/ ReceiveRowsDone(d) \/ PushPending(d) \/ SeeClose(d) \/ Cut(d) \/ Dial(d)
      BY <3>4 DEF ReceiveState, ReceiveRowsDone, PushPending, SeeClose, Cut, Dial, EndSession
    <3> QED  BY <1>2, <3>1, <3>2, <3>3, <3>4 DEF Session
  <2> QED  BY <1>0, <1>1, <2>1, <2>2
<1>3. CASE Hub(d) \/ Environment(d) \/ CheckpointWorker(d) \/ Commit(d)
  <2>1. disk' = disk /\ saving' = saving
    BY <1>3 DEF Hub, Environment, CheckpointWorker, BeginCheckpoint, ExportSnapshot, PostCheckpoint, StoreCheckpoint,
           LoseCheckpoint, LateCheckpoint, Commit
  <2> QED  BY <1>0, <1>1, <2>1
<1>4. CASE Open(d)
  <2>1. PICK c, x :
          /\ x = StoredOrInit(d) /\ x \in SUBSET M
          /\ c \in Clients(M) /\ client' = [client EXCEPT ![d] = c] /\ Shapes(M)'
          /\ c.phase = "idle"
          /\ \A f \in Devices : f # d => doc'[f] = doc[f] /\ disk'[f] = disk[f]
    BY <1>4, OpenEffect
  <2>2. client'[d].phase = "idle"  BY <2>1 DEF Shapes
  <2>3. saving' = saving  BY <1>4 DEF Open
  <2> QED  BY <1>0, <1>1, <2>1, <2>2, <2>3
<1>5. CASE SaveSnapshot(d) \/ BeginSave(d)
  <2>1. e # d  BY <1>0, <1>5 DEF SaveSnapshot, BeginSave, IsOpen, Phase
  <2>2. disk'[e] = disk[e] /\ saving'[e] = saving[e]
    BY <1>5, <2>1 DEF SaveSnapshot, BeginSave, Shapes
  <2> QED  BY <1>0, <1>1, <2>2
<1>6. CASE FinishSave(d)
  <2>1. e # d  BY <1>0, <1>6 DEF FinishSave
  <2>2. disk'[e] = disk[e] /\ saving'[e] = saving[e]  BY <1>6, <2>1, FinishSaveEffect
  <2> QED  BY <1>0, <1>1, <2>2
<1> QED  BY <1>2, <1>3, <1>4, <1>5, <1>6 DEF Acts


LEMMA OpenOnly ==
  ASSUME NEW M, Shapes(M), Basic(M), NEW d \in Devices, Acts(d), NEW e \in Devices,
         commits[d] < MaxCommits => <<d, commits[d] + 1>> \in M,
         client[e].phase = "closed", client'[e].phase # "closed"
  PROVE  e = d /\ Open(d)
<1>1. CASE Open(d)
  <2>1. PICK c, x :
          /\ x = StoredOrInit(d) /\ x \in SUBSET M
          /\ c \in Clients(M) /\ client' = [client EXCEPT ![d] = c] /\ Shapes(M)'
          /\ c.phase = "idle" /\ client[d].phase = "closed"
          /\ disk[d].cursor # 0 => minted' = minted
    BY <1>1, OpenEffect
  <2>2. \A f \in Devices : f # d => client'[f] = client[f]  BY <2>1 DEF Shapes
  <2> QED  BY <1>1, <2>2
<1>2. CASE Session(d) \/ Cut(d) \/ Dial(d) \/ Commit(d)
  <2>1. client[d].phase # "closed"
    BY <1>2 DEF Session, ReceiveState, FetchCheckpoint, ReceiveRow, ReceiveAck, ReceiveRowsDone, PushPending,
                SeeClose, Cut, Dial, Commit, Streaming, IsOpen, Phase
  <2>2. client \in [Devices -> Clients(M)] /\ \E c : client' = [client EXCEPT ![d] = c]
    <3>1. \E c : client' = [client EXCEPT ![d] = c]
      BY <1>2 DEF Session, ReceiveState, FetchCheckpoint, ReceiveRow, ReceiveAck, ReceiveRowsDone, PushPending,
                  SeeClose, Cut, Dial, Commit, EndSession
    <3> QED  BY <3>1 DEF Shapes
  <2>3. \A f \in Devices : f # d => client'[f] = client[f]  BY <2>2
  <2> QED  BY <2>1, <2>3
<1>3. CASE \/ SaveSnapshot(d) \/ BeginSave(d) \/ FinishSave(d)
           \/ Hub(d) \/ Environment(d) \/ CheckpointWorker(d)
  <2>1. client' = client
    BY <1>3 DEF SaveSnapshot, BeginSave, FinishSave, Hub, Environment, CheckpointWorker, BeginCheckpoint,
           ExportSnapshot, PostCheckpoint, StoreCheckpoint, LoseCheckpoint, LateCheckpoint
  <2> QED  BY <2>1
<1>4. CASE Crash(d) \/ Evict(d)
  <2>1. Moves(M, d, NoClient, NoSocket)  BY <1>4, CrashEffect, EvictEffect
  <2>2. client'[d].phase = "closed" /\ \A f \in Devices : f # d => client'[f] = client[f]
    BY <2>1, MovesAt DEF NoClient
  <2> QED  BY <2>2
<1> QED  BY <1>1, <1>2, <1>3, <1>4 DEF Acts

LEMMA RoomGrows ==
  ASSUME SyncInv, NEW d \in Devices, Acts(d)
  PROVE  RoomOps \subseteq RoomOps'
<1>0. headSeq \in Nat  BY DEF SyncInv, LogInv, LogTypeOK
<1>1. \A s \in 1 .. headSeq : s \in 1 .. headSeq' /\ accepted'[s] = accepted[s]
  <2>1. NameStep  BY StepNames
  <2>2. CASE LogKept  BY <2>2 DEF LogKept
  <2>3. CASE \E e \in Devices : Puts(e)  BY <1>0, <2>3 DEF Puts
  <2> QED  BY <2>1, <2>2, <2>3 DEF NameStep, NoNews, Mints
<1> QED  BY <1>1 DEF RoomOps

Waiting(d) == UNION {b.ops : b \in ToSet(client[d].pending)}

Outbox(d) == client[d].phase # "closed" => \A n \in 0 .. commits[d] : <<d, n>> \in RoomOps \cup Waiting(d)

LEMMA SingletonFits ==
  ASSUME NEW x
  PROVE  Cardinality({x}) <= MaxPushOps
<1>1. Cardinality({x}) = 1  BY FS_Singleton
<1>2. MaxPushOps \in Nat /\ MaxPushOps >= 1  BY ChatSyncAssumption, ChatLogAssumption
<1> QED  BY <1>1, <1>2

LEMMA OutboxStays ==
  ASSUME SyncInv, Truth, NEW d \in Devices, Acts(d), ~ Crash(d), ~ Evict(d),
         \A e \in Devices : Unopened(e) /\ Outbox(e)
  PROVE  \A e \in Devices : Outbox(e)'
<1>0. /\ Shapes(Ops) /\ Basic(Ops)
      /\ commits[d] < MaxCommits => <<d, commits[d] + 1>> \in Ops
      /\ \A e \in Devices : commits[e] \in Nat
  BY SyncParts, ShapeParts
<1> SUFFICES ASSUME NEW e \in Devices, client'[e].phase # "closed", NEW n \in 0 .. commits'[e]
             PROVE  <<e, n>> \in RoomOps' \cup Waiting(e)'
  BY DEF Outbox
<1>1. PICK q : q = client'[e].pending  OBVIOUS
<1>2. Waiting(e)' = UNION {b.ops : b \in ToSet(q)}  BY <1>1 DEF Waiting, ToSet
<1>3. CASE client[e].phase = "closed"
  <2>1. e = d /\ Open(d)  BY <1>0, <1>3, OpenOnly
  <2>2. disk[d].doc = {} /\ disk[d].cursor = 0 /\ commits[d] = 0  BY <1>3, <2>1 DEF Unopened
  <2>3. PICK c, x :
           /\ x = StoredOrInit(d) /\ x \in SUBSET Ops
           /\ c \in Clients(Ops) /\ client' = [client EXCEPT ![d] = c] /\ Shapes(Ops)'
           /\ disk[d].cursor = 0 =>
                /\ minted' = [minted EXCEPT ![d] = @ + 1]
                /\ ToSet(c.pending) = IF Cardinality(x) <= MaxPushOps THEN {Minted(d, x)} ELSE {}
    BY <1>0, <2>1, OpenEffect
  <2>4. x = {<<d, 0>>}  BY <2>2, <2>3 DEF StoredOrInit
  <2>5. Cardinality(x) <= MaxPushOps  BY <2>4, SingletonFits
  <2>6. q = c.pending  BY <1>0, <1>1, <2>1, <2>3 DEF Shapes
  <2>7. Minted(d, x) \in ToSet(q) /\ Minted(d, x).ops = x  BY <2>2, <2>3, <2>5, <2>6 DEF Minted
  <2>8. commits'[e] = 0  BY <2>1, <2>2 DEF Open
  <2>9. n = 0  BY <2>8
  <2>10. <<e, n>> \in x  BY <2>1, <2>4, <2>9
  <2>11. PICK b : b \in ToSet(q) /\ b.ops = x  BY <2>7
  <2> QED  BY <1>2, <2>10, <2>11
<1>4. CASE client[e].phase # "closed" /\ n <= commits[e]
  <2>1. <<e, n>> \in RoomOps \cup Waiting(e)
    <3>1. n \in 0 .. commits[e]
      <4>1. commits'[e] \in Nat  BY <1>0, CommitsGrow
      <4> QED  BY <1>0, <1>4, <4>1
    <3> QED  BY <1>4, <3>1 DEF Outbox
  <2>2. CASE <<e, n>> \in RoomOps  BY <2>2, RoomGrows
  <2>3. CASE <<e, n>> \in Waiting(e)
    <3>1. PICK b \in ToSet(client[e].pending) : <<e, n>> \in b.ops  BY <2>3 DEF Waiting
    <3>2. b \in ToSet(client'[e].pending) \/ b.ops \subseteq RoomOps'  BY <1>4, AckedBatch
    <3> QED  BY <1>1, <1>2, <3>1, <3>2
  <2> QED  BY <2>1, <2>2, <2>3
<1>5. CASE client[e].phase # "closed" /\ ~ n <= commits[e]
  <2>1. e = d /\ Commit(d) /\ commits'[d] = commits[d] + 1 /\ commits'[d] \in Nat
    <3>1. /\ commits[e] \in Nat /\ commits'[e] \in Nat
          /\ e # d \/ ~ Commit(d) => commits'[e] = commits[e]
          /\ Commit(d) => commits'[d] = commits[d] + 1
      BY <1>0, CommitsGrow
    <3> QED  BY <1>5, <3>1
  <2>2. n = commits[d] + 1  BY <1>0, <1>5, <2>1
  <2>3. <<d, commits[d] + 1>> \in Ops  BY <1>0, <2>1 DEF Commit
  <2>4. PICK c, x :
           /\ x = {<<d, commits[d] + 1>>} /\ x \in SUBSET Ops
           /\ c \in Clients(Ops) /\ client' = [client EXCEPT ![d] = c] /\ Shapes(Ops)'
           /\ c.phase = client[d].phase /\ c.phase # "closed" /\ c.joined = client[d].joined
           /\ ToSet(c.pending) = ToSet(client[d].pending)
                \cup IF Cardinality(x) <= MaxPushOps THEN {Minted(d, x)} ELSE {}
           /\ doc'[d] = doc[d] \cup x
    BY <1>0, <2>1, <2>3, CommitEffect
  <2>5. Cardinality(x) <= MaxPushOps  BY <2>4, SingletonFits
  <2>6. q = c.pending  BY <1>0, <1>1, <2>1, <2>4 DEF Shapes
  <2>7. Minted(d, x) \in ToSet(q) /\ Minted(d, x).ops = x  BY <2>4, <2>5, <2>6 DEF Minted
  <2>8. <<e, n>> \in x  BY <2>1, <2>2, <2>4
  <2>9. PICK b : b \in ToSet(q) /\ b.ops = x  BY <2>7
  <2> QED  BY <1>2, <2>8, <2>9
<1> QED  BY <1>3, <1>4, <1>5


LEMMA InitOnlyMade ==
  ASSUME Init
  PROVE  OnlyMade
<1>1. PICK M \in SUBSET Ops : M = Made  BY DEF Made
<1>2. Basic(M)
  <2>1. \A d \in Devices : <<d, 0>> \in Ops /\ commits[d] = 0  BY ChatSyncAssumption DEF Init
  <2> QED  BY <1>1, <2>1 DEF Made, Basic
<1>3. Shapes(M)  BY <1>2, InitShapes
<1> QED  BY <1>1, <1>3 DEF OnlyMade

LEMMA OnlyMadeStutters ==
  ASSUME OnlyMade, UNCHANGED vars
  PROVE  OnlyMade'
<1>1. PICK M \in SUBSET Ops : M = Made /\ Shapes(M)  BY DEF OnlyMade
<1>2. UNCHANGED <<rows, headSeq, seqFloor, checkpoint, accepted, sock, stale, client, doc, disk, saving, job,
                  adrift, commits, minted, faults, checkpoints>>
  BY DEF vars, logVars, roomVars, engineVars
<1>3. M = Made'  BY <1>1, <1>2 DEF Made
<1>4. Shapes(M)'  BY <1>1, <1>2 DEF Shapes, LogOf
<1> QED  BY <1>3, <1>4 DEF OnlyMade

\* No document, queue, frame, row or checkpoint holds an operation before its device
\* has made it: nothing is attributed to a device that the device did not commit.
THEOREM OnlyMadeIsKnown == Spec => []OnlyMade
<1>1. Init => OnlyMade  BY InitOnlyMade
<1>2. (SyncInv /\ Truth) /\ OnlyMade /\ [Next]_vars => OnlyMade'
  <2>1. ASSUME SyncInv, OnlyMade, Next PROVE OnlyMade'
    <3>1. PICK d \in Devices : Acts(d)  BY <2>1, NextIsAnAct
    <3> QED  BY <2>1, <3>1, OnlyMadeKept
  <2>2. ASSUME OnlyMade, UNCHANGED vars PROVE OnlyMade'  BY <2>2, OnlyMadeStutters
  <2> QED  BY <2>1, <2>2
<1> QED  BY <1>1, <1>2, SyncInvariant, PTL DEF Spec

OutboxInv == \A d \in Devices : Unopened(d) /\ Outbox(d)

LEMMA OutboxInvKept ==
  ASSUME "crash" \notin FaultKinds, "evict" \notin FaultKinds, SyncInv, Truth, OutboxInv, [Next]_vars
  PROVE  OutboxInv'
<1>1. CASE Next
  <2>1. PICK d \in Devices : Acts(d)  BY <1>1, NextIsAnAct
  <2>2. ~ Crash(d) /\ ~ Evict(d)  BY DEF Crash, Evict, MayFault
  <2>3. /\ Shapes(Ops) /\ Basic(Ops) /\ (commits[d] < MaxCommits => <<d, commits[d] + 1>> \in Ops)
        /\ \A e \in Devices : Unopened(e) /\ Outbox(e)
    BY SyncParts DEF OutboxInv
  <2>4. \A e \in Devices : Unopened(e)'  BY <2>1, <2>2, <2>3, UnopenedKept
  <2>5. \A e \in Devices : Outbox(e)'  BY <2>1, <2>2, <2>3, OutboxStays
  <2> QED  BY <2>4, <2>5 DEF OutboxInv
<1>2. CASE UNCHANGED vars
  <2>1. UNCHANGED <<headSeq, accepted, client, disk, saving, commits>>
    BY <1>2 DEF vars, logVars, engineVars
  <2>2. RoomOps' = RoomOps  BY <2>1 DEF RoomOps
  <2>3. \A d \in Devices : Waiting(d)' = Waiting(d)  BY <2>1 DEF Waiting, ToSet
  <2> QED  BY <2>1, <2>2, <2>3 DEF OutboxInv, Unopened, Outbox
<1> QED  BY <1>1, <1>2

LEMMA OutboxFollows ==
  ASSUME SyncInv, OnlyMade, OutboxInv
  PROVE  OutboxKept
<1> SUFFICES ASSUME NEW d \in Devices, client[d].phase = "steady", NEW op \in doc[d], op[1] = d
             PROVE  \/ op \in RoomOps \cup checkpoint.ops
                    \/ \E i \in DOMAIN client[d].pending : op \in client[d].pending[i].ops
  BY DEF OutboxKept, Phase
<1>1. PICK M \in SUBSET Ops : M = Made /\ Shapes(M)  BY DEF OnlyMade
<1>2. op \in Ops /\ op[2] <= commits[d]
  <2>1. op \in M  BY <1>1, ShapeParts
  <2> QED  BY <1>1, <2>1 DEF Made
<1>3. PICK n \in Nat : op = <<d, n>> /\ n <= commits[d] /\ commits[d] \in Nat
  <2>1. op[2] \in Nat /\ op = <<op[1], op[2]>>  BY <1>2, ChatSyncAssumption
  <2> QED  BY <1>1, <1>2, <2>1, ShapeParts
<1>4. <<d, n>> \in RoomOps \cup Waiting(d)
  <2>1. n \in 0 .. commits[d]  BY <1>3
  <2> QED  BY <2>1 DEF OutboxInv, Outbox
<1>5. CASE <<d, n>> \in Waiting(d)
  <2>1. PICK b \in ToSet(client[d].pending) : op \in b.ops  BY <1>3, <1>5 DEF Waiting
  <2>2. \E i \in DOMAIN client[d].pending : client[d].pending[i] = b  BY DEF ToSet
  <2> QED  BY <2>1, <2>2
<1> QED  BY <1>3, <1>4, <1>5

\* As long as no process dies and no handle is evicted - both forget the queue, a
\* restart pushes a document whole only when it never had an acknowledgement - what a
\* device made is in the room or in its queue, through any cuts, retried joins, replays,
\* overlapping saves and checkpoints.
THEOREM OutboxIsKept ==
  ASSUME "crash" \notin FaultKinds, "evict" \notin FaultKinds
  PROVE  Spec => []OutboxKept
<1>1. Init => OutboxInv
  <2> SUFFICES ASSUME Init, NEW d \in Devices PROVE Unopened(d) /\ Outbox(d)  BY DEF OutboxInv
  <2> QED  BY DEF Init, Unopened, Outbox, NoClient
<1>2. (SyncInv /\ Truth) /\ OutboxInv /\ [Next]_vars => OutboxInv'  BY OutboxInvKept
<1>3. SyncInv /\ OnlyMade /\ OutboxInv => OutboxKept  BY OutboxFollows
<1> QED  BY <1>1, <1>2, <1>3, SyncInvariant, OnlyMadeIsKnown, PTL DEF Spec

-----------------------------------------------------------------------------
(***************************************************************************)
(* Live rows.                                                              *)
(*                                                                         *)
(* A device has of its own what its open document holds, or the snapshot   *)
(* its next handle will open with.  Where no process dies, and no save     *)
(* outlives a handle, this never shrinks, and it holds every batch the     *)
(* device made: rows the room keeps from it as its own are rows it has.    *)
(***************************************************************************)

Own(d) == IF client[d].phase = "closed" THEN disk[d].doc ELSE doc[d]

\* No save is under way while no handle is open.
Settled(d) ==
  /\ client[d].phase = "closed" => saving[d] = {}
  /\ "overlap" \notin FaultKinds => saving[d] = {}

Owned(d) ==
  /\ \A b \in Known(d) : b.ops \subseteq Own(d)
  /\ \A n \in 1 .. headSeq : accepted[n].device = d => accepted[n].ops \subseteq Own(d)

LEMMA OwnGrows ==
  ASSUME NEW M, Shapes(M), Basic(M), NEW d \in Devices, Acts(d), ~ Crash(d),
         "overlap" \in FaultKinds => ~ Evict(d),
         commits[d] < MaxCommits => <<d, commits[d] + 1>> \in M,
         \A e \in Devices : Settled(e)
  PROVE  \A e \in Devices : Settled(e)' /\ Own(e) \subseteq Own(e)'
<1>0. \A e \in Devices : /\ client[e].phase = "closed" => saving[e] = {}
                         /\ "overlap" \notin FaultKinds => saving[e] = {}
  BY DEF Settled
<1> SUFFICES ASSUME NEW e \in Devices
             PROVE  /\ client'[e].phase = "closed" => saving'[e] = {}
                    /\ "overlap" \notin FaultKinds => saving'[e] = {}
                    /\ Own(e) \subseteq IF client'[e].phase = "closed" THEN disk'[e].doc ELSE doc'[e]
  BY DEF Settled, Own
<1>1. CASE Session(d) \/ Cut(d) \/ Dial(d)
  <2>1. saving' = saving
    BY <1>1 DEF Session, ReceiveState, FetchCheckpoint, ReceiveRow, ReceiveAck, ReceiveRowsDone, PushPending,
                SeeClose, Cut, Dial, EndSession
  <2>2. client'[e].phase = "closed" => client[e].phase = "closed"  BY <1>1, SessionPhase
  <2>3. /\ client[d].phase # "closed" /\ doc[d] \subseteq doc'[d]
        /\ \A f \in Devices : f # d => client'[f] = client[f] /\ doc'[f] = doc[f] /\ disk'[f] = disk[f]
    <3>0. client[d].phase # "closed"
      BY <1>1 DEF Session, ReceiveState, FetchCheckpoint, ReceiveRow, ReceiveAck, ReceiveRowsDone, PushPending,
                SeeClose, Cut, Dial, Streaming, Phase
    <3>1. \E c : client' = [client EXCEPT ![d] = c]
      BY <1>1 DEF Session, ReceiveState, FetchCheckpoint, ReceiveRow, ReceiveAck, ReceiveRowsDone, PushPending,
                  SeeClose, Cut, Dial, EndSession
    <3>2. \A f \in Devices : f # d => client'[f] = client[f]  BY <3>1 DEF Shapes
    <3>3. /\ doc[d] \subseteq doc'[d]
          /\ \A f \in Devices : f # d => doc'[f] = doc[f] /\ disk'[f] = disk[f]
      <4>1. CASE FetchCheckpoint(d)
        <5>1. /\ doc'[d] = doc[d] \cup checkpoint.ops
              /\ \A f \in Devices : f # d => doc'[f] = doc[f] /\ disk'[f] = disk[f]
          BY <4>1 DEF FetchCheckpoint, Shapes
        <5> QED  BY <5>1
      <4>2. CASE ReceiveRow(d)
        <5>1. /\ doc'[d] = doc[d] \cup Frame(d).ops
              /\ \A f \in Devices : f # d => doc'[f] = doc[f] /\ disk'[f] = disk[f]
          BY <4>2 DEF ReceiveRow, Shapes
        <5> QED  BY <5>1
      <4>3. CASE ReceiveAck(d)
        <5>1. doc' = doc /\ \A f \in Devices : f # d => disk'[f] = disk[f]  BY <4>3 DEF ReceiveAck, Shapes
        <5> QED  BY <5>1
      <4>4. CASE ReceiveState(d) \/ ReceiveRowsDone(d) \/ PushPending(d) \/ SeeClose(d) \/ Cut(d) \/ Dial(d)
        <5>1. doc' = doc /\ disk' = disk
          BY <4>4 DEF ReceiveState, ReceiveRowsDone, PushPending, SeeClose, Cut, Dial, EndSession
        <5> QED  BY <5>1
      <4> QED  BY <1>1, <4>1, <4>2, <4>3, <4>4 DEF Session
    <3> QED  BY <3>0, <3>2, <3>3
  <2> QED  BY <1>0, <2>1, <2>2, <2>3 DEF Own
<1>2. CASE Hub(d) \/ Environment(d) \/ CheckpointWorker(d)
  <2>1. client' = client /\ doc' = doc /\ disk' = disk /\ saving' = saving
    BY <1>2 DEF Hub, Environment, CheckpointWorker, BeginCheckpoint, ExportSnapshot, PostCheckpoint, StoreCheckpoint,
           LoseCheckpoint, LateCheckpoint
  <2> QED  BY <1>0, <2>1 DEF Own
<1>3. CASE Commit(d)
  <2>0. <<d, commits[d] + 1>> \in M  BY <1>3 DEF Commit
  <2>1. PICK c, x :
          /\ x = {<<d, commits[d] + 1>>} /\ x \in SUBSET M
          /\ c \in Clients(M) /\ client' = [client EXCEPT ![d] = c] /\ Shapes(M)'
          /\ c.phase = client[d].phase /\ c.phase # "closed"
          /\ doc'[d] = doc[d] \cup x /\ \A f \in Devices : f # d => doc'[f] = doc[f]
    BY <1>3, <2>0, CommitEffect
  <2>2. client'[d] = c /\ \A f \in Devices : f # d => client'[f] = client[f]  BY <2>1 DEF Shapes
  <2>3. disk' = disk /\ saving' = saving  BY <1>3 DEF Commit
  <2> QED  BY <1>0, <2>1, <2>2, <2>3 DEF Own
<1>4. CASE Open(d)
  <2>1. PICK c, x :
          /\ x = StoredOrInit(d) /\ x \in SUBSET M
          /\ c \in Clients(M) /\ client' = [client EXCEPT ![d] = c] /\ Shapes(M)'
          /\ client[d].phase = "closed" /\ c.phase = "idle"
          /\ doc'[d] = x
          /\ \A f \in Devices : f # d => doc'[f] = doc[f] /\ disk'[f] = disk[f]
    BY <1>4, OpenEffect
  <2>2. client'[d] = c /\ \A f \in Devices : f # d => client'[f] = client[f]  BY <2>1 DEF Shapes
  <2>3. disk[d].doc \subseteq x  BY <2>1 DEF StoredOrInit
  <2>4. saving' = saving  BY <1>4 DEF Open
  <2> QED  BY <1>0, <2>1, <2>2, <2>3, <2>4 DEF Own
<1>5. CASE SaveSnapshot(d)
  <2>1. /\ client[d].phase # "closed" /\ \A f \in Devices : f # d => disk'[f] = disk[f]
    BY <1>5, SaveSnapshotEffect
  <2>2. client' = client /\ doc' = doc /\ saving' = saving  BY <1>5 DEF SaveSnapshot
  <2> QED  BY <1>0, <2>1, <2>2 DEF Own
<1>6. CASE BeginSave(d)
  <2>1. /\ client[d].phase # "closed" /\ "overlap" \in FaultKinds
        /\ \A f \in Devices : f # d => saving'[f] = saving[f]
    BY <1>6, BeginSaveEffect
  <2>2. client' = client /\ doc' = doc /\ disk' = disk  BY <1>6 DEF BeginSave
  <2> QED  BY <1>0, <2>1, <2>2 DEF Own
<1>7. CASE FinishSave(d)
  <2>1. /\ disk'[d].doc \in saving[d] /\ saving'[d] = {}
        /\ \A f \in Devices : f # d => disk'[f] = disk[f] /\ saving'[f] = saving[f]
    BY <1>7, FinishSaveEffect
  <2>2. client' = client /\ doc' = doc  BY <1>7 DEF FinishSave
  <2>3. client[d].phase # "closed"  BY <1>0, <2>1
  <2> QED  BY <1>0, <2>1, <2>2, <2>3 DEF Own
<1>8. CASE Evict(d)
  <2>1. /\ Moves(M, d, NoClient, NoSocket)
        /\ disk'[d].doc = doc[d] /\ saving' = saving
        /\ \A f \in Devices : f # d => doc'[f] = doc[f] /\ disk'[f] = disk[f]
    BY <1>8, EvictEffect
  <2>2. client'[d].phase = "closed" /\ \A f \in Devices : f # d => client'[f] = client[f]
    BY <2>1, MovesAt DEF NoClient
  <2>3. client[d].phase # "closed"  BY <1>8 DEF Evict, IsOpen, Phase
  <2>4. saving[d] = {}  BY <1>0, <1>8
  <2> QED  BY <1>0, <2>1, <2>2, <2>3, <2>4 DEF Own
<1> QED  BY <1>1, <1>2, <1>3, <1>4, <1>5, <1>6, <1>7, <1>8 DEF Acts

\* Opening a chat and committing are the only steps that make a batch.
LEMMA MintedIsOwned ==
  ASSUME NEW M, Shapes(M), Basic(M), NEW d \in Devices, Open(d) \/ Commit(d),
         commits[d] < MaxCommits => <<d, commits[d] + 1>> \in M
  PROVE  /\ LogKept
         /\ \A e \in Devices : e # d => Known(e)' \subseteq Known(e)
         /\ \E Q : Known(d)' \subseteq Known(d) \cup Q /\ \A b \in Q : b.ops \subseteq Own(d)'
<1>0. LogKept  BY DEF Open, Commit, LogKept, logVars
<1>1. CASE Open(d)
  <2>1. PICK c, x :
          /\ x = StoredOrInit(d) /\ x \in SUBSET M
          /\ c \in Clients(M) /\ client' = [client EXCEPT ![d] = c] /\ Shapes(M)'
          /\ client[d].phase = "closed" /\ c.phase = "idle" /\ ~ c.joined
          /\ c.cursor = disk[d].cursor /\ c.base = disk[d].cursor /\ c.after = 0
          /\ disk[d].cursor = 0 =>
               /\ minted' = [minted EXCEPT ![d] = @ + 1]
               /\ ToSet(c.pending) = IF Cardinality(x) <= MaxPushOps THEN {Minted(d, x)} ELSE {}
          /\ disk[d].cursor # 0 => minted' = minted /\ ToSet(c.pending) = {}
          /\ doc'[d] = x /\ disk'[d].doc = x /\ disk'[d].cursor = disk[d].cursor
    BY <1>1, OpenEffect
  <2>2. PICK s \in Socks(M) : s = sock[d]  BY ShapeParts
  <2>3. sock' = [sock EXCEPT ![d] = s] /\ stale' = stale  BY <1>1, <2>2 DEF Open, roomVars, Shapes
  <2>4. Moves(M, d, c, s)  BY <2>1, <2>2, <2>3 DEF Moves
  <2>5. Pushed(ToSet(s.up)) \subseteq Known(d)  BY <2>2, KnownFacts
  <2>6. PICK Q : Q = {Minted(d, x)}  OBVIOUS
  <2>7. ToSet(c.pending) \subseteq ToSet(client[d].pending) \cup Q  BY <2>1, <2>6
  <2>8. Known(d)' \subseteq Known(d) \cup Q /\ \A e \in Devices : e # d => Known(e)' \subseteq Known(e)
    BY <2>3, <2>4, <2>5, <2>7, MoveKnows
  <2>9. Own(d)' = x
    <3>1. client'[d].phase = "idle"  BY <2>1 DEF Shapes
    <3> QED  BY <2>1, <3>1 DEF Own
  <2>10. \A b \in Q : b.ops = x  BY <2>6 DEF Minted
  <2> QED  BY <1>0, <2>8, <2>9, <2>10
<1>2. CASE Commit(d)
  <2>0. <<d, commits[d] + 1>> \in M  BY <1>2 DEF Commit
  <2>1. PICK c, x :
          /\ x = {<<d, commits[d] + 1>>} /\ x \in SUBSET M
          /\ c \in Clients(M) /\ client' = [client EXCEPT ![d] = c] /\ Shapes(M)'
          /\ c.phase = client[d].phase /\ c.phase # "closed"
          /\ ToSet(c.pending) = ToSet(client[d].pending)
               \cup IF Cardinality(x) <= MaxPushOps THEN {Minted(d, x)} ELSE {}
          /\ doc'[d] = doc[d] \cup x
    BY <1>2, <2>0, CommitEffect
  <2>2. PICK s \in Socks(M) : s = sock[d]  BY ShapeParts
  <2>3. sock' = [sock EXCEPT ![d] = s] /\ stale' = stale  BY <1>2, <2>2 DEF Commit, roomVars, Shapes
  <2>4. Moves(M, d, c, s)  BY <2>1, <2>2, <2>3 DEF Moves
  <2>5. Pushed(ToSet(s.up)) \subseteq Known(d)  BY <2>2, KnownFacts
  <2>6. PICK Q : Q = {Minted(d, x)}  OBVIOUS
  <2>7. ToSet(c.pending) \subseteq ToSet(client[d].pending) \cup Q  BY <2>1, <2>6
  <2>8. Known(d)' \subseteq Known(d) \cup Q /\ \A e \in Devices : e # d => Known(e)' \subseteq Known(e)
    BY <2>3, <2>4, <2>5, <2>7, MoveKnows
  <2>9. Own(d)' = doc[d] \cup x
    <3>1. client'[d].phase # "closed"  BY <2>1 DEF Shapes
    <3> QED  BY <2>1, <3>1 DEF Own
  <2>10. \A b \in Q : b.ops = x  BY <2>6 DEF Minted
  <2> QED  BY <1>0, <2>8, <2>9, <2>10
<1> QED  BY <1>1, <1>2

LEMMA OwnedKept ==
  ASSUME SyncInv, NEW d \in Devices, Acts(d),
         \A e \in Devices : Owned(e) /\ Own(e) \subseteq Own(e)'
  PROVE  \A e \in Devices : Owned(e)'
<1>0. /\ Shapes(Ops) /\ Basic(Ops) /\ headSeq \in Nat
      /\ commits[d] < MaxCommits => <<d, commits[d] + 1>> \in Ops
  BY SyncParts DEF LogInv, LogTypeOK
<1>1. ASSUME NEW e \in Devices, Known(e)' \subseteq Known(e), NEW b \in Known(e)'
      PROVE  b.ops \subseteq Own(e)'
  BY <1>1 DEF Owned
<1>2. ASSUME NEW e \in Devices, LogKept, NEW n \in 1 .. headSeq', accepted'[n].device = e
      PROVE  accepted'[n].ops \subseteq Own(e)'
  <2>1. n \in 1 .. headSeq /\ accepted'[n] = accepted[n]  BY <1>2 DEF LogKept
  <2>2. accepted[n].ops \subseteq Own(e)  BY <1>2, <2>1 DEF Owned
  <2> QED  BY <2>1, <2>2
<1>3. CASE Open(d) \/ Commit(d)
  <2>1. LogKept /\ \A e \in Devices : e # d => Known(e)' \subseteq Known(e)  BY <1>0, <1>3, MintedIsOwned
  <2>2. PICK Q : Known(d)' \subseteq Known(d) \cup Q /\ \A b \in Q : b.ops \subseteq Own(d)'
    BY <1>0, <1>3, MintedIsOwned
  <2>3. \A b \in Known(d)' : b.ops \subseteq Own(d)'
    <3>1. \A b \in Known(d) : b.ops \subseteq Own(d)  BY DEF Owned
    <3> QED  BY <2>2, <3>1
  <2> QED  BY <1>1, <1>2, <2>1, <2>3 DEF Owned
<1>4. CASE ~ Open(d) /\ ~ Commit(d)
  <2>1. NameStep /\ Shapes(Ops)'  BY StepNames
  <2>2. minted' = minted
    <3>1. CASE Session(d) \/ Cut(d) \/ Dial(d)
      BY <3>1 DEF Session, ReceiveState, FetchCheckpoint, ReceiveRow, ReceiveAck, ReceiveRowsDone, PushPending,
                  SeeClose, Cut, Dial, EndSession, engineVars
    <3>2. CASE Hub(d) \/ Environment(d) \/ CheckpointWorker(d)
      BY <3>2 DEF Hub, Environment, CheckpointWorker, BeginCheckpoint, ExportSnapshot, PostCheckpoint, StoreCheckpoint,
             LoseCheckpoint, LateCheckpoint, engineVars
    <3>3. CASE SaveSnapshot(d) \/ BeginSave(d) \/ FinishSave(d) \/ Crash(d) \/ Evict(d)
      BY <3>3 DEF SaveSnapshot, BeginSave, FinishSave, Crash, Evict, CloseHandle, engineVars
    <3> QED  BY <1>4, <3>1, <3>2, <3>3 DEF Acts
  <2>3. \A e \in Devices : ~ Mints(e)  BY <1>0, <2>2, ShapeParts DEF Mints
  <2>4. CASE NoNews  BY <1>1, <1>2, <2>4 DEF NoNews, Owned
  <2>5. ASSUME NEW f \in Devices, Puts(f) PROVE \A e \in Devices : Owned(e)'
    <3>1. /\ \A e \in Devices : Known(e)' \subseteq Known(e)
          /\ headSeq' = headSeq + 1
          /\ \A n \in 1 .. headSeq : accepted'[n] = accepted[n]
      BY <2>5 DEF Puts
    <3>2. PICK b \in Known(f) : accepted'[headSeq + 1] = [device |-> f, batch |-> b.id, ops |-> b.ops]
      BY <2>5 DEF Puts
    <3>3. ASSUME NEW e \in Devices, NEW n \in 1 .. headSeq', accepted'[n].device = e
          PROVE  accepted'[n].ops \subseteq Own(e)'
      <4>1. CASE n \in 1 .. headSeq
        <5>1. accepted'[n] = accepted[n]  BY <3>1, <4>1
        <5>2. accepted[n].ops \subseteq Own(e)  BY <3>3, <4>1, <5>1 DEF Owned
        <5> QED  BY <5>1, <5>2
      <4>2. CASE n = headSeq + 1
        <5>1. e = f /\ accepted'[n].ops = b.ops  BY <3>2, <3>3, <4>2
        <5>2. b.ops \subseteq Own(f)  BY DEF Owned
        <5> QED  BY <5>1, <5>2
      <4> QED  BY <1>0, <3>1, <4>1, <4>2
    <3> QED  BY <1>1, <3>1, <3>3 DEF Owned
  <2> QED  BY <2>1, <2>3, <2>4, <2>5 DEF NameStep
<1> QED  BY <1>3, <1>4

\* The operations a socket will bring: those of the rows sent and of the rows relayed.
RowsIn(frames) == UNION {f.ops : f \in {g \in frames : g.kind = "row"}}

Coming(s) == RowsIn(ToSet(s.down)) \cup RowsIn({v.frame : v \in ToSet(s.bcast)})

Asked(s) == \E f \in ToSet(s.up) : f.kind = "rowsReq"

Holds(s, kind) == \E f \in ToSet(s.down) : f.kind = kind

\* How a client and its socket talk: hello, one request, then pushes.  The STATE is
\* sent to a socket that is ready, the end of the backfill behind its rows.
Talking(s, c) ==
  s.open =>
    /\ c.phase \in {"hello", "fetch", "backfill", "steady"}
    /\ c.phase # "hello" => s.ready
    /\ s.owes = "state" \/ Holds(s, "state") => s.ready
    /\ c.phase = "hello" => ToSet(s.up) = IF s.ready THEN {} ELSE {Hello}
    /\ c.phase = "fetch" => ToSet(s.up) = {}
    /\ c.phase = "backfill" =>
         \A f \in ToSet(s.up) : f.kind = "rowsReq" /\ (f.after <= c.cursor \/ f.after <= seqFloor)
    /\ c.phase = "steady" => \A f \in ToSet(s.up) : f.kind = "push"
    /\ c.phase # "steady" => Len(s.up) <= 1
    /\ c.phase \in {"hello", "fetch"} \/ Asked(s) => s.owes # "rowsDone" /\ ~ Holds(s, "rowsDone")

\* The room has answered the request for rows: what it has appended since is relayed.
Answered(s, c) == s.open /\ c.phase \in {"backfill", "steady"} /\ ~ Asked(s)

\* Then whatever the cursor has not passed is in the document, or comes, or is pruned.
Whole(s, c, x) ==
  Answered(s, c) =>
    \A n \in 1 .. headSeq : n > c.cursor => n <= seqFloor \/ accepted[n].ops \subseteq x \cup Coming(s)

Relays(d) == Talking(sock[d], client[d]) /\ Whole(sock[d], client[d], doc[d])

LEMMA RowsInMore ==
  ASSUME NEW F, NEW G, F \subseteq G
  PROVE  RowsIn(F) \subseteq RowsIn(G)
BY DEF RowsIn

LEMMA RowsInOne ==
  ASSUME NEW F, NEW f \in F, f.kind = "row"
  PROVE  f.ops \subseteq RowsIn(F)
BY DEF RowsIn

LEMMA RowsInBoth ==
  ASSUME NEW F, NEW f, NEW G, F = {f} \cup G
  PROVE  RowsIn(F) \subseteq RowsIn(G) \cup IF f.kind = "row" THEN f.ops ELSE {}
BY DEF RowsIn

\* A socket with fewer waiting events and more frames, or the other way round.
LEMMA ComingGrows ==
  ASSUME NEW s, NEW r, ToSet(s.down) \subseteq ToSet(r.down), ToSet(s.bcast) \subseteq ToSet(r.bcast)
  PROVE  Coming(s) \subseteq Coming(r)
<1>1. RowsIn(ToSet(s.down)) \subseteq RowsIn(ToSet(r.down))  BY RowsInMore
<1>2. RowsIn({v.frame : v \in ToSet(s.bcast)}) \subseteq RowsIn({v.frame : v \in ToSet(r.bcast)})
  <2>1. {v.frame : v \in ToSet(s.bcast)} \subseteq {v.frame : v \in ToSet(r.bcast)}  OBVIOUS
  <2> QED  BY <2>1, RowsInMore
<1> QED  BY <1>1, <1>2 DEF Coming

LEMMA WholeLasts ==
  ASSUME NEW M, NEW s, NEW c, NEW x, NEW r, NEW b, NEW y, LogInv, LogInv',
         c \in Clients(M), b \in Clients(M),
         LogGrows, headSeq' = headSeq, Whole(s, c, x),
         Answered(r, b) => Answered(s, c) /\ c.cursor <= b.cursor /\ x \cup Coming(s) \subseteq y \cup Coming(r)
  PROVE  Whole(r, b, y)'
<1> SUFFICES ASSUME Answered(r, b), NEW n \in 1 .. headSeq', n > b.cursor
             PROVE  n <= seqFloor' \/ accepted'[n].ops \subseteq y \cup Coming(r)
  BY DEF Whole, Answered, Asked, Coming, RowsIn
<1>0. headSeq \in Nat /\ seqFloor \in Nat /\ seqFloor' \in Nat /\ c.cursor \in Nat /\ b.cursor \in Nat
  BY ClientParts DEF LogInv, LogTypeOK
<1>1. n \in 1 .. headSeq /\ n > c.cursor  BY <1>0
<1>2. n <= seqFloor \/ accepted[n].ops \subseteq x \cup Coming(s)  BY <1>1 DEF Whole
<1>3. accepted'[n] = accepted[n] /\ seqFloor' >= seqFloor  BY <1>1 DEF LogGrows
<1> QED  BY <1>0, <1>1, <1>2, <1>3

LEMMA TalkingLasts ==
  ASSUME NEW M, NEW s \in Socks(M), NEW c \in Clients(M), LogInv, LogInv', LogGrows, Talking(s, c)
  PROVE  Talking(s, c)'
<1>0. seqFloor \in Nat /\ seqFloor' \in Nat /\ seqFloor' >= seqFloor  BY DEF LogInv, LogTypeOK, LogGrows
<1>1. s.open /\ c.phase = "backfill" =>
        \A f \in ToSet(s.up) : f.kind = "rowsReq" /\ (f.after <= c.cursor \/ f.after <= seqFloor')
  <2>1. ASSUME s.open, c.phase = "backfill", NEW f \in ToSet(s.up)
        PROVE  f.kind = "rowsReq" /\ (f.after <= c.cursor \/ f.after <= seqFloor')
    <3>1. f.kind = "rowsReq" /\ (f.after <= c.cursor \/ f.after <= seqFloor)  BY <2>1 DEF Talking
    <3>2. f.after \in Nat
      <4>1. ToSet(s.up) \subseteq UpFrames(M)  BY SockParts
      <4> QED  BY <3>1, <4>1, FrameParts
    <3> QED  BY <1>0, <3>1, <3>2
  <2> QED  BY <2>1
<1> QED  BY <1>1 DEF Talking, Asked, Holds

\* The loop of the hub, but for the frames it takes from the client.
LEMMA LoopTalks ==
  ASSUME NEW s, NEW r, NEW c, Talking(s, c), s.open, r.open, r.ready = s.ready, r.up = s.up,
         r.owes \in {s.owes, "nothing"},
         \A kind \in {"state", "rowsDone"} : Holds(r, kind) => Holds(s, kind) \/ s.owes = kind
  PROVE  Talking(r, c)
<1>1. Asked(r) = Asked(s)  BY DEF Asked
<1> QED  BY <1>1 DEF Talking

LEMMA RelaysBecomes ==
  ASSUME NEW d \in Devices, NEW s, NEW c, NEW x, s = sock'[d], c = client'[d], x = doc'[d],
         Talking(s, c)', Whole(s, c, x)'
  PROVE  Relays(d)'
BY DEF Relays, Talking, Whole, Answered, Asked, Holds, Coming, RowsIn

\* A device the step leaves alone, but for what its document gains.
LEMMA RelaysStays ==
  ASSUME NEW M, Shapes(M), LogInv, LogInv', LogGrows, headSeq' = headSeq, NEW d \in Devices, Relays(d),
         sock'[d] = sock[d], doc[d] \subseteq doc'[d],
         NEW c \in Clients(M), c = client'[d], c.phase = client[d].phase, c.cursor = client[d].cursor
  PROVE  Relays(d)'
<1>0. PICK x, y : x = doc[d] /\ y = doc'[d]  OBVIOUS
<1>1. PICK s \in Socks(M), b \in Clients(M) : s = sock[d] /\ b = client[d]  BY ShapeParts
<1>2. Talking(s, b) /\ Whole(s, b, x)  BY <1>0, <1>1 DEF Relays
<1>3. c.phase = b.phase /\ c.cursor = b.cursor /\ b.cursor \in Nat  BY <1>1, ClientParts
<1>4. Talking(s, c)  BY <1>2, <1>3 DEF Talking
<1>5. Talking(s, c)'  BY <1>4, TalkingLasts
<1>6. Answered(s, c) => Answered(s, b) /\ b.cursor <= c.cursor /\ x \cup Coming(s) \subseteq y \cup Coming(s)
  BY <1>0, <1>1, <1>3 DEF Answered
<1>7. Whole(s, c, y)'  BY <1>2, <1>6, WholeLasts
<1> QED  BY <1>0, <1>1, <1>5, <1>7, RelaysBecomes

\* A step of the hub's loop that keeps the talk in order and brings no less.
LEMMA LoopRelays ==
  ASSUME NEW M, Shapes(M), LogInv, NEW d \in Devices, NEW s, LoopStep(M, d, s),
         Talking(s, client[d]), Whole(s, client[d], doc[d]), \A e \in Devices : Relays(e)
  PROVE  \A e \in Devices : Relays(e)'
<1>0. /\ sock'[d] = s /\ \A e \in Devices : e # d => sock'[e] = sock[e]
      /\ UNCHANGED <<logVars, client, doc>>
  BY LoopKeepsShapes DEF LoopStep
<1>1. LogInv' /\ LogGrows /\ headSeq' = headSeq
  BY <1>0 DEF LogInv, LogTypeOK, LogIsSuffix, RowsAreHistory, BatchIsUnique, PrunedIsCovered, logVars, LogGrows
<1>2. ASSUME NEW e \in Devices, e # d PROVE Relays(e)'
  <2>1. PICK c \in Clients(M) : c = client'[e]  BY <1>0, ShapeParts
  <2> QED  BY <1>0, <1>1, <1>2, <2>1, RelaysStays
<1>3. Relays(d)'
  <2>1. PICK c \in Clients(M), x \in SUBSET M : c = client[d] /\ x = doc[d]  BY ShapeParts
  <2>2. s \in Socks(M)  BY DEF LoopStep
  <2>3. Talking(s, c)'  BY <1>1, <2>1, <2>2, TalkingLasts
  <2>4. c.cursor \in Nat  BY ClientParts
  <2>5. Whole(s, c, x)'  BY <1>1, <2>1, <2>4, WholeLasts
  <2> QED  BY <1>0, <2>1, <2>3, <2>5, RelaysBecomes
<1> QED  BY <1>2, <1>3

\* A row appended is relayed to every socket but its origin's, and the device behind
\* that one has it.
LEMMA PublishRelays ==
  ASSUME NEW M, Shapes(M), LogInv, NEW socks \in [Devices -> Socks(M)], NEW origin, NEW device, NEW b,
         PublishStep(M, socks, origin, device, b), UNCHANGED <<client, doc>>,
         \A e \in Devices : Talking(socks[e], client[e]) /\ Whole(socks[e], client[e], doc[e]),
         \A e \in Devices : e = origin => b.ops \subseteq doc[e]
  PROVE  \A e \in Devices : Relays(e)'
<1>0. LogInv' /\ headSeq \in Nat /\ headSeq' \in Nat  BY DEF PublishStep, LogInv, LogTypeOK
<1>1. LogGrows
  <2>1. CASE Appended(socks, origin, device, b)  BY <1>0, <2>1 DEF Appended, LogGrows, LogInv, LogTypeOK
  <2>2. CASE Replayed(socks, origin, b)  BY <1>0, <2>2 DEF Replayed, LogGrows, LogInv, LogTypeOK, logVars
  <2> QED  BY <2>1, <2>2 DEF PublishStep
<1>2. ASSUME NEW e \in Devices PROVE Relays(e)'
  <2>1. PICK o \in Socks(M), s \in Socks(M), c \in Clients(M), x \in SUBSET M :
          o = socks[e] /\ s = sock'[e] /\ c = client[e] /\ x = doc[e]
    BY ShapeParts DEF PublishStep
  <2>2. SameButEvents(o, s) /\ Talking(o, c) /\ Whole(o, c, x)  BY <2>1 DEF PublishStep
  <2>3. Talking(s, c)
    <3>1. \A kind : Holds(s, kind) = Holds(o, kind)  BY <2>2 DEF SameButEvents, Holds
    <3>2. ~ s.open => Talking(s, c)  BY DEF Talking
    <3> QED  BY <2>2, <3>1, <3>2, LoopTalks DEF SameButEvents
  <2>4. Talking(s, c)'  BY <1>0, <1>1, <2>3, TalkingLasts
  <2>5. Answered(s, c) = Answered(o, c)  BY <2>2 DEF SameButEvents, Answered, Asked
  <2>6. Answered(o, c) => ToSet(o.bcast) \subseteq ToSet(s.bcast)
    <3>1. CASE Appended(socks, origin, device, b)  BY <2>1, <3>1 DEF Appended, Answered
    <3>2. CASE Replayed(socks, origin, b)  BY <2>1, <3>2 DEF Replayed, Answered
    <3> QED  BY <3>1, <3>2 DEF PublishStep
  <2>7. Answered(o, c) => Coming(o) \subseteq Coming(s)
    <3>1. ToSet(o.down) \subseteq ToSet(s.down)  BY <2>2 DEF SameButEvents
    <3> QED  BY <2>6, <3>1, ComingGrows
  <2>8. Whole(s, c, x)'
    <3> SUFFICES ASSUME Answered(s, c), NEW n \in 1 .. headSeq', n > c.cursor
                 PROVE  n <= seqFloor' \/ accepted'[n].ops \subseteq x \cup Coming(s)
      BY DEF Whole, Answered, Asked, Coming, RowsIn
    <3>1. CASE n <= headSeq
      <4>1. n \in 1 .. headSeq  BY <1>0, <3>1
      <4>2. n <= seqFloor \/ accepted[n].ops \subseteq x \cup Coming(o)  BY <2>2, <2>5, <4>1 DEF Whole
      <4>3. accepted'[n] = accepted[n] /\ seqFloor' >= seqFloor  BY <1>1, <4>1 DEF LogGrows
      <4>4. seqFloor \in Nat /\ seqFloor' \in Nat  BY <1>0 DEF LogInv, LogTypeOK
      <4> QED  BY <1>0, <2>5, <2>7, <4>2, <4>3, <4>4
    <3>2. CASE ~ n <= headSeq
      <4>1. Appended(socks, origin, device, b)
        <5>1. Replayed(socks, origin, b) => headSeq' = headSeq  BY DEF Replayed, logVars
        <5> QED  BY <1>0, <3>2, <5>1 DEF PublishStep
      <4>2. n = headSeq + 1 /\ accepted'[n].ops = b.ops
        <5>1. headSeq' = headSeq + 1 /\ accepted'[headSeq + 1] = [device |-> device, batch |-> b.id, ops |-> b.ops]
          BY <4>1 DEF Appended
        <5>2. n = headSeq + 1  BY <1>0, <3>2, <5>1
        <5> QED  BY <5>1, <5>2
      <4>3. CASE e = origin  BY <2>1, <4>2, <4>3
      <4>4. CASE e # origin
        <5>1. PICK v : v = RowEvent(origin, headSeq + 1, b.ops)  OBVIOUS
        <5>2. v \in ToSet(s.bcast)  BY <2>1, <2>5, <4>1, <4>4, <5>1 DEF Appended, Answered
        <5>3. v.frame.kind = "row" /\ v.frame.ops = b.ops  BY <5>1, EventsMade
        <5>4. b.ops \subseteq RowsIn({w.frame : w \in ToSet(s.bcast)})
          <6>1. v.frame \in {w.frame : w \in ToSet(s.bcast)}  BY <5>2
          <6> QED  BY <5>3, <6>1, RowsInOne
        <5> QED  BY <4>2, <5>4 DEF Coming
      <4> QED  BY <4>3, <4>4
    <3> QED  BY <3>1, <3>2
  <2>9. c = client'[e] /\ x = doc'[e]  BY <2>1
  <2> QED  BY <2>1, <2>4, <2>8, <2>9, RelaysBecomes
<1> QED  BY <1>2

LEMMA WholeMoves ==
  ASSUME NEW s, NEW c, NEW x, NEW r, NEW b, NEW y, LogInv, c.cursor \in Nat, b.cursor \in Nat, Whole(s, c, x),
         Answered(r, b) => Answered(s, c) /\ c.cursor <= b.cursor /\ x \cup Coming(s) \subseteq y \cup Coming(r)
  PROVE  Whole(r, b, y)
<1> SUFFICES ASSUME Answered(r, b), NEW n \in 1 .. headSeq, n > b.cursor
             PROVE  n <= seqFloor \/ accepted[n].ops \subseteq y \cup Coming(r)
  BY DEF Whole
<1>1. headSeq \in Nat  BY DEF LogInv, LogTypeOK
<1>2. n > c.cursor  BY <1>1
<1> QED  BY <1>2 DEF Whole

\* A sequence with one entry.
LEMMA LoneTail ==
  ASSUME NEW S, NEW q \in Seq(S), Len(q) <= 1, q # <<>>
  PROVE  ToSet(Tail(q)) = {} /\ Len(Tail(q)) = 0
<1>1. Tail(q) \in Seq(S) /\ Len(Tail(q)) = 0
  <2>1. Tail(q) \in Seq(S) /\ Len(Tail(q)) = Len(q) - 1  BY ToSetOfTail
  <2>2. Len(Tail(q)) \in Nat /\ Len(q) \in Nat  BY <2>1
  <2> QED  BY <2>1, <2>2
<1>2. ToSet(Tail(q)) = {Tail(q)[i] : i \in 1 .. Len(Tail(q))}  BY <1>1, ToSetOfSeq
<1> QED  BY <1>1, <1>2

LEMMA NoneIsShort ==
  ASSUME NEW S, NEW q \in Seq(S), ToSet(q) = {}
  PROVE  Len(q) = 0
<1>1. ToSet(q) = {q[i] : i \in 1 .. Len(q)} /\ Len(q) \in Nat  BY ToSetOfSeq
<1>2. ASSUME Len(q) # 0 PROVE FALSE
  <2>1. 1 \in 1 .. Len(q)  BY <1>1, <1>2
  <2> QED  BY <1>1, <2>1
<1> QED  BY <1>2

LEMMA ServeRelays ==
  ASSUME NEW M, Shapes(M), LogInv, NEW d \in Devices, ServeEvent(d), Untouched, \A e \in Devices : Relays(e)
  PROVE  \A e \in Devices : Relays(e)'
<1>1. PICK o \in Socks(M), c \in Clients(M), x \in SUBSET M : o = sock[d] /\ c = client[d] /\ x = doc[d]  BY ShapeParts
<1>20. PICK s :
         /\ LoopStep(M, d, s)
         /\ sock[d].open /\ s.open = sock[d].open /\ s.ready = sock[d].ready
         /\ s.owes = sock[d].owes /\ s.stats = sock[d].stats /\ s.up = sock[d].up
         /\ \E e \in RoomEvents(M) :
              /\ ToSet(sock[d].bcast) = {e} \cup ToSet(s.bcast)
              /\ ToSet(s.down) = IF Delivered(d, e) THEN ToSet(sock[d].down) \cup {e.frame}
                                 ELSE ToSet(sock[d].down)
  BY ServeEventEffect
<1>21. PICK v \in RoomEvents(M) :
         /\ ToSet(sock[d].bcast) = {v} \cup ToSet(s.bcast)
         /\ ToSet(s.down) = IF Delivered(d, v) THEN ToSet(sock[d].down) \cup {v.frame}
                            ELSE ToSet(sock[d].down)
  BY <1>20
<1>2. /\ LoopStep(M, d, s)
      /\ sock[d].open /\ s.open = sock[d].open /\ s.ready = sock[d].ready
      /\ s.owes = sock[d].owes /\ s.up = sock[d].up
      /\ v \in RoomEvents(M)
      /\ ToSet(sock[d].bcast) = {v} \cup ToSet(s.bcast)
      /\ ToSet(s.down) = IF Delivered(d, v) THEN ToSet(sock[d].down) \cup {v.frame}
                         ELSE ToSet(sock[d].down)
  BY <1>20, <1>21
<1>3. Talking(o, c) /\ Whole(o, c, x)  BY <1>1 DEF Relays
<1>4. v.frame.kind \in {"row", "ack"}  BY <1>2, FrameParts
<1>5. Talking(s, c)
  <2>1. \A kind \in {"state", "rowsDone"} : Holds(s, kind) => Holds(o, kind)  BY <1>1, <1>2, <1>4 DEF Holds
  <2> QED  BY <1>1, <1>2, <1>3, <2>1, LoopTalks
<1>6. Answered(s, c) => Answered(o, c) /\ Coming(o) \subseteq Coming(s)
  <2> SUFFICES ASSUME Answered(s, c) PROVE Answered(o, c) /\ Coming(o) \subseteq Coming(s)  OBVIOUS
  <2>1. Answered(o, c)  BY <1>1, <1>2 DEF Answered, Asked
  <2>2. o.ready  BY <1>3, <2>1 DEF Talking, Answered
  <2>3. ToSet(s.down) = ToSet(o.down) \cup {v.frame}  BY <1>1, <1>2, <2>2 DEF Delivered
  <2>4. PICK F, G, H : F = ToSet(s.down) /\ G = {w.frame : w \in ToSet(s.bcast)} /\ H = {w.frame : w \in ToSet(o.bcast)}
    OBVIOUS
  <2>5. H = {v.frame} \cup G  BY <1>1, <1>2, <2>4
  <2>6. RowsIn(H) \subseteq RowsIn(G) \cup IF v.frame.kind = "row" THEN v.frame.ops ELSE {}  BY <2>5, RowsInBoth
  <2>7. v.frame.kind = "row" => v.frame.ops \subseteq RowsIn(F)  BY <2>3, <2>4, RowsInOne
  <2>8. RowsIn(ToSet(o.down)) \subseteq RowsIn(F)  BY <2>3, <2>4, RowsInMore
  <2> QED  BY <2>1, <2>4, <2>6, <2>7, <2>8 DEF Coming
<1>7. Whole(s, c, x)
  <2>1. c.cursor \in Nat  BY ClientParts
  <2> QED  BY <1>3, <1>6, <2>1, WholeMoves
<1> QED  BY <1>1, <1>2, <1>5, <1>7, LoopRelays

LEMMA RequestRelays ==
  ASSUME NEW M, Shapes(M), LogInv, NEW d \in Devices, HandleRowsReq(d), Untouched,
         \A e \in Devices : Relays(e) /\ Owned(e)
  PROVE  \A e \in Devices : Relays(e)'
<1>1. PICK o \in Socks(M), c \in Clients(M), x \in SUBSET M : o = sock[d] /\ c = client[d] /\ x = doc[d]  BY ShapeParts
<1>2. Talking(o, c) /\ o.up \in Seq(UpFrames(M)) /\ c.cursor \in Nat
  BY <1>1, ClientParts, SockParts DEF Relays
<1>3. PICK req : req = Head(o.up)  OBVIOUS
<1>4. PICK s :
         /\ LoopStep(M, d, s) /\ NextFrame(d, "rowsReq")
         /\ sock[d].open /\ s.open = sock[d].open /\ s.ready = sock[d].ready /\ s.owes = "rowsDone"
         /\ s.up = Tail(sock[d].up) /\ s.bcast = sock[d].bcast
         /\ ToSet(s.down) = ToSet(sock[d].down) \cup Sent(req.after, Excluded(d, req))
  BY <1>1, <1>3, HandleRowsReqEffect
<1>5. /\ req \in ToSet(o.up) /\ req \in UpFrames(M) /\ req.kind = "rowsReq" /\ o.up # <<>>
  BY <1>1, <1>3, <1>4, NextFrameParts DEF NextFrame
<1>6. c.phase = "backfill" /\ req.after \in Nat /\ (req.after <= c.cursor \/ req.after <= seqFloor)
  <2>1. Hello.kind = "hello"  BY DEF Hello
  <2> QED  BY <1>1, <1>2, <1>4, <1>5, <2>1, FrameParts DEF Talking
<1>7. ToSet(s.up) = {} /\ Len(s.up) = 0
  <2>1. Len(o.up) <= 1  BY <1>1, <1>2, <1>4, <1>6 DEF Talking
  <2> QED  BY <1>1, <1>2, <1>4, <1>5, <2>1, LoneTail
<1>8. \A f \in Sent(req.after, Excluded(d, req)) : f.kind = "row"  BY DEF Sent, RowFrame
<1>9. Talking(s, c)
  <2>1. \A kind \in {"state", "rowsDone"} : Holds(s, kind) => Holds(o, kind)  BY <1>1, <1>4, <1>8 DEF Holds
  <2>2. ~ Asked(s)  BY <1>7 DEF Asked
  <2>3. s.ready /\ s.open /\ Len(s.up) <= 1  BY <1>1, <1>2, <1>4, <1>6, <1>7 DEF Talking
  <2> QED  BY <1>6, <1>7, <2>2, <2>3 DEF Talking
<1>10. Whole(s, c, x)
  <2> SUFFICES ASSUME NEW n \in 1 .. headSeq, n > c.cursor, ~ n <= seqFloor
               PROVE  accepted[n].ops \subseteq x \cup Coming(s)
    BY DEF Whole
  <2>1. headSeq \in Nat /\ seqFloor \in Nat  BY DEF LogInv, LogTypeOK
  <2>2. n \in DOMAIN rows /\ rows[n] = accepted[n]
    BY <2>1 DEF LogInv, LogIsSuffix, RowsAreHistory
  <2>3. n > req.after  BY <1>2, <1>6, <2>1
  <2>4. CASE rows[n].device \in Excluded(d, req)
    <3>1. accepted[n].device = d  BY <2>2, <2>4 DEF Excluded
    <3>2. accepted[n].ops \subseteq Own(d)  BY <3>1 DEF Owned
    <3> QED  BY <1>1, <1>6, <3>2 DEF Own
  <2>5. CASE rows[n].device \notin Excluded(d, req)
    <3>1. PICK f : f = RowFrame(n, rows[n].ops)  OBVIOUS
    <3>2. f \in Sent(req.after, Excluded(d, req))  BY <2>2, <2>3, <2>5, <3>1 DEF Sent, RowsAfter
    <3>3. f \in ToSet(s.down) /\ f.kind = "row" /\ f.ops = accepted[n].ops  BY <1>4, <2>2, <3>1, <3>2 DEF RowFrame
    <3>4. f.ops \subseteq RowsIn(ToSet(s.down))  BY <3>3, RowsInOne
    <3> QED  BY <3>3, <3>4 DEF Coming
  <2> QED  BY <2>4, <2>5
<1> QED  BY <1>1, <1>4, <1>9, <1>10, LoopRelays

LEMMA PushRelays ==
  ASSUME NEW M, Shapes(M), Basic(M), LogInv, NEW d \in Devices, HandlePush(d), Untouched,
         \A f \in ToSet(sock[d].up) : f.kind = "push" => f.batch.id \in BatchIds,
         \A e \in Devices : Relays(e) /\ Owned(e)
  PROVE  \A e \in Devices : Relays(e)'
<1>1. PICK o \in Socks(M), c \in Clients(M), x \in SUBSET M : o = sock[d] /\ c = client[d] /\ x = doc[d]  BY ShapeParts
<1>2. Talking(o, c) /\ Whole(o, c, x)  BY <1>1 DEF Relays
<1>3. PICK b \in Batches(M), socks \in [Devices -> Socks(M)] :
           /\ NextFrame(d, "push") /\ Head(sock[d].up).batch = b
           /\ Head(sock[d].up) \in ToSet(sock[d].up)
           /\ \A e \in Devices : e # d => socks[e] = sock[e]
           /\ socks[d].open /\ socks[d].open = sock[d].open /\ socks[d].ready = sock[d].ready
           /\ socks[d].owes = sock[d].owes /\ socks[d].down = sock[d].down
           /\ socks[d].bcast = sock[d].bcast /\ socks[d].up = Tail(sock[d].up)
           /\ PublishStep(M, socks, d, d, b) /\ UNCHANGED stale
  BY HandlePushEffect
<1>4. PICK s \in Socks(M) : s = socks[d]  OBVIOUS
<1>5. PICK f : f = Head(o.up)  OBVIOUS
<1>6. f \in ToSet(o.up) /\ f.kind = "push" /\ f.batch = b /\ ToSet(s.up) \subseteq ToSet(o.up)
  <2>1. ToSet(sock[d].up) = {Head(sock[d].up)} \cup ToSet(Tail(sock[d].up))  BY <1>3, NextFrameParts
  <2> QED  BY <1>1, <1>3, <1>4, <1>5, <2>1 DEF NextFrame
<1>7. c.phase = "steady"
  <2>1. Hello.kind = "hello"  BY DEF Hello
  <2> QED  BY <1>1, <1>2, <1>3, <1>6, <2>1 DEF Talking
<1>8. s.open = o.open /\ s.ready = o.ready /\ s.owes = o.owes /\ s.down = o.down /\ s.bcast = o.bcast
  BY <1>1, <1>3, <1>4
<1>9. ~ Asked(s) /\ ~ Asked(o)
  <2>1. o.open  BY <1>1, <1>3
  <2>2. \A g \in ToSet(o.up) : g.kind = "push"  BY <1>2, <1>7, <2>1 DEF Talking
  <2> QED  BY <1>6, <2>2 DEF Asked
<1>10. Talking(s, c)
  <2>1. \A kind : Holds(s, kind) = Holds(o, kind)  BY <1>8 DEF Holds
  <2> QED  BY <1>2, <1>6, <1>7, <1>8, <1>9, <2>1 DEF Talking
<1>11. Whole(s, c, x)
  <2>1. Coming(o) = Coming(s)  BY <1>8 DEF Coming
  <2>2. c.cursor \in Nat  BY ClientParts
  <2>3. Answered(s, c) => Answered(o, c) /\ c.cursor <= c.cursor /\ x \cup Coming(o) \subseteq x \cup Coming(s)
    BY <1>8, <1>9, <2>1, <2>2 DEF Answered
  <2> QED  BY <1>2, <2>2, <2>3, WholeMoves
<1>12. b.ops \subseteq doc[d]
  <2>1. PICK F : F = ToSet(sock[d].up)  OBVIOUS
  <2>2. f \in F  BY <1>1, <1>6, <2>1
  <2>3. b \in Pushed(F)  BY <1>6, <2>2, PushedFacts
  <2>4. b \in Known(d)  BY <2>1, <2>3, KnownFacts
  <2>5. b.ops \subseteq Own(d)  BY <2>4 DEF Owned
  <2> QED  BY <1>1, <1>7, <2>5 DEF Own
<1>13. ASSUME NEW e \in Devices PROVE Talking(socks[e], client[e]) /\ Whole(socks[e], client[e], doc[e])
  <2>1. CASE e = d  BY <1>1, <1>4, <1>10, <1>11, <2>1
  <2>2. CASE e # d  BY <1>3, <2>2 DEF Relays
  <2> QED  BY <2>1, <2>2
<1>14. PublishStep(M, socks, d, d, b) /\ UNCHANGED <<client, doc>>  BY <1>3 DEF Untouched
<1> QED  BY <1>12, <1>13, <1>14, PublishRelays

LEMMA HubRelays ==
  ASSUME NEW M, Shapes(M), Basic(M), LogInv, NEW d \in Devices, HubStep(d), Untouched,
         \A f \in ToSet(sock[d].up) : f.kind = "push" => f.batch.id \in BatchIds,
         \A e \in Devices : Relays(e) /\ Owned(e)
  PROVE  \A e \in Devices : Relays(e)'
<1>0. PICK o \in Socks(M), c \in Clients(M), x \in SUBSET M : o = sock[d] /\ c = client[d] /\ x = doc[d]  BY ShapeParts
<1>00. Talking(o, c) /\ Whole(o, c, x) /\ c.cursor \in Nat /\ o.up \in Seq(UpFrames(M))
  BY <1>0, ClientParts, SockParts DEF Relays
<1>1. CASE CloseLagged(d)
  <2>1. PICK s : LoopStep(M, d, s) /\ ~ s.open  BY <1>1, CloseLaggedEffect
  <2>2. Talking(s, client[d]) /\ Whole(s, client[d], doc[d])  BY <2>1 DEF Talking, Whole, Answered
  <2> QED  BY <2>1, <2>2, LoopRelays
<1>2. CASE HandleHello(d)
  <2>1. PICK s :
           /\ LoopStep(M, d, s) /\ NextFrame(d, "hello")
           /\ sock[d].open /\ s.open = sock[d].open /\ s.ready /\ s.owes = "state"
           /\ s.down = sock[d].down /\ s.bcast = sock[d].bcast
           /\ s.up = Tail(sock[d].up)
    BY <1>2, HandleHelloEffect
  <2>2. /\ Head(o.up) \in ToSet(o.up) /\ Head(o.up).kind = "hello" /\ o.up # <<>>
    BY <1>0, <2>1, NextFrameParts DEF NextFrame
  <2>3. c.phase = "hello" /\ Len(o.up) <= 1  BY <1>0, <1>00, <2>1, <2>2 DEF Talking
  <2>4. ToSet(s.up) = {} /\ Len(s.up) = 0  BY <1>0, <1>00, <2>1, <2>2, <2>3, LoneTail
  <2>5. ~ Asked(s) /\ s.owes # "rowsDone" /\ ~ Holds(s, "rowsDone")
    <3>1. ~ Holds(o, "rowsDone")  BY <1>0, <1>00, <2>1, <2>3 DEF Talking
    <3> QED  BY <1>0, <2>1, <2>4, <3>1 DEF Asked, Holds
  <2>6. Talking(s, c)
    <3>1. Len(s.up) <= 1  BY <2>4
    <3>2. s.ready  BY <2>1, Zenon
    <3> QED  BY <2>3, <2>4, <2>5, <3>1, <3>2 DEF Talking
  <2>7. Whole(s, c, x)  BY <2>3 DEF Whole, Answered
  <2> QED  BY <1>0, <2>1, <2>6, <2>7, LoopRelays
<1>3. CASE SendState(d) \/ FinishRows(d)
  <2>1. PICK s, f :
           /\ LoopStep(M, d, s) /\ sock[d].open /\ s.open = sock[d].open /\ s.ready = sock[d].ready
           /\ s.owes = "nothing" /\ s.up = sock[d].up /\ s.bcast = sock[d].bcast
           /\ ToSet(s.down) = ToSet(sock[d].down) \cup {f} /\ f.kind = sock[d].owes
    <3>1. CASE SendState(d)
      <4>1. PICK s : /\ LoopStep(M, d, s) /\ sock[d].owes = "state"
                     /\ sock[d].open /\ s.open = sock[d].open /\ s.ready = sock[d].ready /\ s.owes = "nothing"
                     /\ s.up = sock[d].up /\ s.bcast = sock[d].bcast
                     /\ ToSet(s.down) = ToSet(sock[d].down) \cup {State(sock[d].stats, checkpoint.frontier)}
        BY <3>1, SendStateEffect
      <4>2. State(sock[d].stats, checkpoint.frontier).kind = "state"  BY DEF State
      <4> QED  BY <4>1, <4>2
    <3>2. CASE FinishRows(d)
      <4>1. PICK s : /\ LoopStep(M, d, s) /\ sock[d].owes = "rowsDone"
                     /\ sock[d].open /\ s.open = sock[d].open /\ s.ready = sock[d].ready /\ s.owes = "nothing"
                     /\ s.up = sock[d].up /\ s.bcast = sock[d].bcast
                     /\ ToSet(s.down) = ToSet(sock[d].down) \cup {RowsDone(headSeq)}
        BY <3>2, FinishRowsEffect
      <4>2. RowsDone(headSeq).kind = "rowsDone"  BY DEF RowsDone
      <4> QED  BY <4>1, <4>2
    <3> QED  BY <1>3, <3>1, <3>2
  <2>2. Talking(s, c)
    <3>1. \A kind \in {"state", "rowsDone"} : Holds(s, kind) => Holds(o, kind) \/ o.owes = kind
      BY <1>0, <2>1 DEF Holds
    <3> QED  BY <1>0, <1>00, <2>1, <3>1, LoopTalks
  <2>3. Coming(o) \subseteq Coming(s)
    <3>1. ToSet(o.down) \subseteq ToSet(s.down) /\ ToSet(o.bcast) \subseteq ToSet(s.bcast)  BY <1>0, <2>1
    <3> QED  BY <3>1, ComingGrows
  <2>4. Answered(s, c) => Answered(o, c)  BY <1>0, <2>1 DEF Answered, Asked
  <2>5. Whole(s, c, x)  BY <1>00, <2>3, <2>4, WholeMoves
  <2> QED  BY <1>0, <2>1, <2>2, <2>5, LoopRelays
<1> QED  BY <1>1, <1>2, <1>3, ServeRelays, RequestRelays, PushRelays DEF HubStep

LEMMA StaleRelays ==
  ASSUME NEW M, Shapes(M), Basic(M), LogInv, NEW d \in Devices, HandleStalePush(d), Untouched,
         \A f \in ToSet(stale[d]) : f.batch.id \in BatchIds,
         \A e \in Devices : Relays(e)
  PROVE  \A e \in Devices : Relays(e)'
<1>1. PICK b \in Batches(M) : PublishStep(M, sock, DeadSocket, d, b)  BY HandleStalePushEffect
<1>2. PICK socks \in [Devices -> Socks(M)] : socks = sock  BY DEF Shapes
<1>3. \A e \in Devices : Talking(socks[e], client[e]) /\ Whole(socks[e], client[e], doc[e])  BY <1>2 DEF Relays
<1>4. \A e \in Devices : e # DeadSocket  BY ChatRoomAssumption
<1> QED  BY <1>1, <1>2, <1>3, <1>4, PublishRelays DEF Untouched

\* A step of the client's side.
LEMMA MoveRelays ==
  ASSUME NEW M, Shapes(M), LogInv, UNCHANGED logVars, NEW d \in Devices, NEW c, NEW s, Moves(M, d, c, s),
         NEW x, x = doc'[d], Talking(s, c), Whole(s, c, x),
         \A e \in Devices : e # d => doc'[e] = doc[e],
         \A e \in Devices : Relays(e)
  PROVE  \A e \in Devices : Relays(e)'
<1>0. /\ client'[d] = c /\ sock'[d] = s /\ s \in Socks(M) /\ c \in Clients(M)
      /\ \A e \in Devices : e # d => client'[e] = client[e] /\ sock'[e] = sock[e]
  BY MovesAt DEF Moves
<1>1. LogInv' /\ LogGrows /\ headSeq' = headSeq
  BY DEF LogInv, LogTypeOK, LogIsSuffix, RowsAreHistory, BatchIsUnique, PrunedIsCovered, logVars, LogGrows
<1>2. ASSUME NEW e \in Devices, e # d PROVE Relays(e)'
  <2>1. PICK b \in Clients(M) : b = client'[e]  BY <1>0, <1>2, ShapeParts
  <2>2. b = client[e] /\ sock'[e] = sock[e] /\ doc[e] \subseteq doc'[e]  BY <1>0, <1>2, <2>1
  <2> QED  BY <1>1, <2>1, <2>2, RelaysStays
<1>3. Relays(d)'
  <2>1. Talking(s, c)'  BY <1>0, <1>1, TalkingLasts
  <2>2. c.cursor \in Nat  BY <1>0, ClientParts
  <2>3. Whole(s, c, x)'  BY <1>0, <1>1, <2>2, WholeLasts
  <2> QED  BY <1>0, <2>1, <2>3, RelaysBecomes
<1> QED  BY <1>2, <1>3

LEMMA TookBrings ==
  ASSUME NEW M, Shapes(M), NEW d \in Devices, NEW kind, NEW sent, NEW s, Took(M, d, kind, sent, s),
         NEW o, o = sock[d]
  PROVE  /\ s.open = o.open /\ s.ready = o.ready /\ s.owes = o.owes /\ Frame(d).kind = kind
         /\ Holds(o, kind) /\ \A k : Holds(s, k) => Holds(o, k)
         /\ o.open => ToSet(s.up) = ToSet(o.up) \cup ToSet(sent) /\ Len(s.up) = Len(o.up) + Len(sent)
         /\ Coming(o) \subseteq Coming(s) \cup IF kind = "row" THEN Frame(d).ops ELSE {}
<1>1. /\ s.open = o.open /\ s.ready = o.ready /\ s.owes = o.owes /\ Frame(d).kind = kind
      /\ Holds(o, kind) /\ \A k : Holds(s, k) => Holds(o, k)
  BY DEF Took, Holds
<1>2. o.open => ToSet(s.up) = ToSet(o.up) \cup ToSet(sent) /\ Len(s.up) = Len(o.up) + Len(sent)  BY DEF Took
<1>3. Coming(o) \subseteq Coming(s) \cup IF kind = "row" THEN Frame(d).ops ELSE {}
  <2>1. PICK F, G, f : F = ToSet(o.down) /\ G = ToSet(s.down) /\ f = Frame(d)  OBVIOUS
  <2>2. F = {f} \cup G /\ s.bcast = o.bcast  BY <2>1 DEF Took
  <2>3. RowsIn(F) \subseteq RowsIn(G) \cup IF f.kind = "row" THEN f.ops ELSE {}  BY <2>2, RowsInBoth
  <2>4. Coming(o) = RowsIn(F) \cup RowsIn({v.frame : v \in ToSet(o.bcast)})  BY <2>1 DEF Coming
  <2>5. Coming(s) = RowsIn(G) \cup RowsIn({v.frame : v \in ToSet(o.bcast)})  BY <2>1, <2>2 DEF Coming
  <2> QED  BY <1>1, <2>1, <2>3, <2>4, <2>5
<1> QED  BY <1>1, <1>2, <1>3

\* A client that asks for the rows after a number it has reached, or one the room has
\* pruned up to.
LEMMA AskingTalks ==
  ASSUME NEW s, NEW c, NEW n \in Nat, NEW b \in BOOLEAN, c.phase = "backfill", s.ready,
         s.open => ToSet(s.up) = {RowsReq(n, b)} /\ Len(s.up) = 1,
         n <= c.cursor \/ n <= seqFloor, s.owes # "rowsDone", ~ Holds(s, "rowsDone")
  PROVE  \A x : Talking(s, c) /\ Whole(s, c, x)
<1>1. PICK r : r = RowsReq(n, b)  OBVIOUS
<1>2. r.kind = "rowsReq" /\ r.after = n  BY <1>1 DEF RowsReq
<1>3. s.open => \A f \in ToSet(s.up) : f = r  BY <1>1
<1>4. s.open => Asked(s)  BY <1>1, <1>2 DEF Asked
<1>5. ASSUME s.open PROVE Talking(s, c)
  <2>0. Len(s.up) = 1  BY <1>5
  <2>1. Len(s.up) <= 1  BY <2>0
  <2>2. \A f \in ToSet(s.up) : f.kind = "rowsReq" /\ (f.after <= c.cursor \/ f.after <= seqFloor)
    BY <1>2, <1>3, <1>5
  <2> QED  BY <2>1, <2>2 DEF Talking
<1>6. ~ s.open => Talking(s, c)  BY DEF Talking
<1>7. \A x : Whole(s, c, x)  BY <1>4 DEF Whole, Answered
<1> QED  BY <1>5, <1>6, <1>7

\* The catch-up: hello answered, checkpoint fetched, rows asked for.
LEMMA CatchUpRelays ==
  ASSUME NEW M, Shapes(M), LogInv, NEW d \in Devices, ReceiveState(d) \/ FetchCheckpoint(d),
         TrueTo(d), \A e \in Devices : Relays(e)
  PROVE  \A e \in Devices : Relays(e)'
<1>0. PICK o \in Socks(M), b \in Clients(M) : o = sock[d] /\ b = client[d]  BY ShapeParts
<1>00. /\ Talking(o, b) /\ b.cursor \in Nat /\ b.after \in Nat /\ b.joined \in BOOLEAN
       /\ b.after <= seqFloor /\ o.up \in Seq(UpFrames(M))
  BY <1>0, ClientParts, SockParts DEF Relays, TrueTo, ClientTrue
<1>1. CASE ReceiveState(d)
  <2>0. UNCHANGED <<logVars, doc>>  BY <1>1 DEF ReceiveState
  <2>1. PICK c, s :
           /\ Moves(M, d, c, s) /\ Shapes(M)'
           /\ client[d].phase = "hello" /\ c.phase # "closed"
           /\ c.base = client[d].base /\ c.joined = client[d].joined /\ c.pending = client[d].pending
           /\ \/ /\ c.phase = "backfill" /\ c.after = client[d].after
                 /\ LET after == RowsOnlyAfter(d, Frame(d))
                    IN  /\ c.cursor = IF after < client[d].cursor THEN after ELSE client[d].cursor
                        /\ Took(M, d, "state", <<RowsReq(after, client[d].joined)>>, s)
                        /\ after \in Nat
                        /\ after <= client[d].cursor \/ after = Frame(d).stats.ckptSeq
              \/ /\ c.phase = "fetch" /\ c.after = Frame(d).stats.ckptSeq /\ c.cursor = client[d].cursor
                 /\ Took(M, d, "state", <<>>, s)
    BY <1>1, ReceiveStateEffect
  <2>2. PICK sent : Took(M, d, "state", sent, s)  BY <2>1
  <2>3. TrueFrame(Frame(d)) /\ Frame(d).kind = "state"  BY <2>2, TookIsTrue
  <2>4. /\ s.open = o.open /\ s.ready = o.ready /\ s.owes = o.owes /\ Holds(o, "state")
        /\ \A k : Holds(s, k) => Holds(o, k)
    BY <1>0, <2>2, TookBrings
  <2>5. ASSUME o.open
        PROVE  s.ready /\ s.owes # "rowsDone" /\ ~ Holds(s, "rowsDone") /\ ToSet(o.up) = {} /\ Len(o.up) = 0
    <3>1. o.ready /\ o.owes # "rowsDone" /\ ~ Holds(o, "rowsDone")
      BY <1>0, <1>00, <2>1, <2>4, <2>5 DEF Talking
    <3>2. ToSet(o.up) = {}  BY <1>0, <1>00, <2>1, <2>5, <3>1 DEF Talking
    <3>3. Len(o.up) = 0  BY <1>00, <3>2, NoneIsShort
    <3> QED  BY <2>4, <3>1, <3>2, <3>3
  <2>6. PICK x : x = doc'[d]  OBVIOUS
  <2>7. CASE ~ o.open
    <3>1. ~ s.open  BY <2>4, <2>7
    <3>2. Talking(s, c) /\ Whole(s, c, x)  BY <3>1 DEF Talking, Whole, Answered
    <3> QED  BY <2>0, <2>1, <2>6, <3>2, MoveRelays
  <2>8. CASE o.open /\ c.phase = "backfill"
    <3>0. PICK n : n = RowsOnlyAfter(d, Frame(d))  OBVIOUS
    <3>1. /\ c.cursor = IF n < client[d].cursor THEN n ELSE client[d].cursor
          /\ Took(M, d, "state", <<RowsReq(n, client[d].joined)>>, s)
          /\ n \in Nat
          /\ n <= client[d].cursor \/ n = Frame(d).stats.ckptSeq
      <4>1. c.phase # "fetch"  BY <2>8
      <4> QED  BY <2>1, <3>0, <4>1
    <3>2. n <= c.cursor \/ n <= seqFloor
      <4>1. Frame(d).stats.ckptSeq <= seqFloor  BY <2>3 DEF TrueFrame
      <4> QED  BY <1>0, <1>00, <3>1, <4>1
    <3>3. ToSet(s.up) = {RowsReq(n, b.joined)} /\ Len(s.up) = 1
      <4>1. PICK r \in UpFrames(M) : r = RowsReq(n, b.joined)  BY <1>00, <3>1, FramesMade
      <4>2. ToSet(<<r>>) = {r} /\ Len(<<r>>) = 1  BY ToSetOfOne
      <4>3. Took(M, d, "state", <<r>>, s)  BY <1>0, <3>1, <4>1
      <4>4. ToSet(s.up) = ToSet(o.up) \cup ToSet(<<r>>) /\ Len(s.up) = Len(o.up) + Len(<<r>>)
        <5>1. PICK w : w = <<r>>  OBVIOUS
        <5>2. Took(M, d, "state", w, s)  BY <4>3, <5>1
        <5>3. ToSet(s.up) = ToSet(o.up) \cup ToSet(w) /\ Len(s.up) = Len(o.up) + Len(w)
          BY <1>0, <2>8, <5>2, TookBrings
        <5> QED  BY <5>1, <5>3
      <4> QED  BY <2>5, <2>8, <4>1, <4>2, <4>4
    <3>4. Talking(s, c) /\ Whole(s, c, x)  BY <1>00, <2>4, <2>5, <2>8, <3>1, <3>2, <3>3, AskingTalks
    <3> QED  BY <2>0, <2>1, <2>6, <3>4, MoveRelays
  <2>9. CASE o.open /\ c.phase = "fetch"
    <3>1. Took(M, d, "state", <<>>, s)  BY <2>1, <2>9
    <3>2. ToSet(<<>>) = {} /\ Len(<<>>) = 0  BY DEF ToSet
    <3>3. ToSet(s.up) = ToSet(o.up) \cup ToSet(<<>>) /\ Len(s.up) = Len(o.up) + Len(<<>>)
      BY <1>0, <2>9, <3>1, TookBrings
    <3>4. ToSet(s.up) = {} /\ Len(s.up) = 0  BY <2>5, <2>9, <3>2, <3>3
    <3>5. Len(s.up) <= 1  BY <3>4
    <3>6. Talking(s, c)  BY <2>5, <2>9, <3>4, <3>5 DEF Talking
    <3>7. Whole(s, c, x)  BY <2>9 DEF Whole, Answered
    <3> QED  BY <2>0, <2>1, <2>6, <3>6, <3>7, MoveRelays
  <2> QED  BY <2>1, <2>7, <2>8, <2>9
<1>2. CASE FetchCheckpoint(d)
  <2>0. UNCHANGED logVars  BY <1>2 DEF FetchCheckpoint
  <2>1. PICK c, s :
           /\ Moves(M, d, c, s) /\ Shapes(M)'
           /\ client[d].phase = "fetch" /\ c.phase = "backfill"
           /\ c.cursor = client[d].after /\ c.after = client[d].after
           /\ c.base = client[d].base /\ c.joined = client[d].joined /\ c.pending = client[d].pending
           /\ Wrote(M, d, <<RowsReq(client[d].after, client[d].joined)>>, s)
           /\ doc'[d] = doc[d] \cup checkpoint.ops
           /\ disk'[d].doc = doc'[d] /\ disk'[d].cursor = client[d].after
           /\ \A e \in Devices : e # d => doc'[e] = doc[e] /\ disk'[e] = disk[e]
    BY <1>2, FetchCheckpointEffect
  <2>2. PICK x : x = doc'[d]  OBVIOUS
  <2>3. PICK r \in UpFrames(M) : r = RowsReq(b.after, b.joined)  BY <1>00, FramesMade
  <2>4. ToSet(<<r>>) = {r} /\ Len(<<r>>) = 1  BY ToSetOfOne
  <2>5. /\ s.open = o.open /\ s.ready = o.ready /\ s.owes = o.owes /\ s.down = o.down
        /\ o.open => ToSet(s.up) = ToSet(o.up) \cup ToSet(<<r>>) /\ Len(s.up) = Len(o.up) + Len(<<r>>)
    BY <1>0, <2>1, <2>3 DEF Wrote
  <2>6. CASE ~ o.open
    <3>1. ~ s.open  BY <2>5, <2>6
    <3>2. Talking(s, c) /\ Whole(s, c, x)  BY <3>1 DEF Talking, Whole, Answered
    <3> QED  BY <2>0, <2>1, <2>2, <3>2, MoveRelays
  <2>7. CASE o.open
    <3>1. o.ready /\ o.owes # "rowsDone" /\ ~ Holds(o, "rowsDone") /\ ToSet(o.up) = {}
      BY <1>0, <1>00, <2>1, <2>7 DEF Talking
    <3>2. Len(o.up) = 0  BY <1>00, <3>1, NoneIsShort
    <3>3. ToSet(s.up) = {r} /\ Len(s.up) = 1  BY <2>4, <2>5, <2>7, <3>1, <3>2
    <3>4. s.ready /\ s.owes # "rowsDone" /\ ~ Holds(s, "rowsDone")  BY <2>5, <3>1 DEF Holds
    <3>5. Talking(s, c) /\ Whole(s, c, x)  BY <1>0, <1>00, <2>1, <2>3, <3>3, <3>4, AskingTalks
    <3> QED  BY <2>0, <2>1, <2>2, <3>5, MoveRelays
  <2> QED  BY <2>6, <2>7
<1> QED  BY <1>1, <1>2

\* A frame taken that is neither the STATE nor the end of the backfill.
LEMMA FrameRelays ==
  ASSUME NEW M, Shapes(M), LogInv, NEW d \in Devices, ReceiveRow(d) \/ ReceiveAck(d),
         \A e \in Devices : Relays(e)
  PROVE  \A e \in Devices : Relays(e)'
<1>0. PICK o \in Socks(M), b \in Clients(M), x \in SUBSET M : o = sock[d] /\ b = client[d] /\ x = doc[d]
  BY ShapeParts
<1>1. Talking(o, b) /\ Whole(o, b, x) /\ b.cursor \in Nat  BY <1>0, ClientParts DEF Relays
<1>2. PICK c, s, w, y, kind :
        /\ Moves(M, d, c, s) /\ Took(M, d, kind, w, s) /\ w = <<>>
        /\ b.phase \in {"backfill", "steady"} /\ c.phase = b.phase
        /\ c.cursor = Greater(b.cursor, Frame(d).seq)
        /\ y = doc'[d] /\ x \cup (IF kind = "row" THEN Frame(d).ops ELSE {}) \subseteq y
        /\ kind \in {"row", "ack"} /\ UNCHANGED logVars
        /\ \A e \in Devices : e # d => doc'[e] = doc[e]
  <2>1. CASE ReceiveRow(d)
    <3>1. PICK c, s :
           /\ Moves(M, d, c, s) /\ Shapes(M)'
           /\ Took(M, d, "row", <<>>, s)
           /\ client[d].phase \in {"backfill", "steady"} /\ c.phase = client[d].phase
           /\ c.cursor = Greater(client[d].cursor, Frame(d).seq) /\ c.after = client[d].after
           /\ c.base = client[d].base /\ c.joined = client[d].joined /\ c.pending = client[d].pending
           /\ doc'[d] = doc[d] \cup Frame(d).ops
           /\ disk'[d].doc = doc'[d] /\ disk'[d].cursor = Frame(d).seq
           /\ \A e \in Devices : e # d => doc'[e] = doc[e] /\ disk'[e] = disk[e]
      BY <2>1, ReceiveRowEffect
    <3>2. UNCHANGED logVars  BY <2>1 DEF ReceiveRow
    <3>3. PICK w, y, kind : w = <<>> /\ y = doc'[d] /\ kind = "row"  OBVIOUS
    <3>4. x \cup (IF kind = "row" THEN Frame(d).ops ELSE {}) \subseteq y  BY <1>0, <3>1, <3>3
    <3>5. Took(M, d, kind, w, s) /\ kind \in {"row", "ack"}  BY <3>1, <3>3
    <3> QED  BY <1>0, <3>1, <3>2, <3>3, <3>4, <3>5
  <2>2. CASE ReceiveAck(d)
    <3>1. PICK c, s :
           /\ Moves(M, d, c, s) /\ Shapes(M)'
           /\ Took(M, d, "ack", <<>>, s)
           /\ client[d].phase \in {"backfill", "steady"} /\ c.phase = client[d].phase
           /\ c.cursor = Greater(client[d].cursor, Frame(d).seq) /\ c.after = client[d].after
           /\ c.base = client[d].base /\ c.joined = client[d].joined
           /\ ToSet(c.pending) = {p \in ToSet(client[d].pending) : p.id # Frame(d).id}
           /\ disk'[d].doc = doc[d] /\ disk'[d].cursor = c.cursor
           /\ \A e \in Devices : e # d => disk'[e] = disk[e]
      BY <2>2, ReceiveAckEffect
    <3>2. UNCHANGED <<logVars, doc>>  BY <2>2 DEF ReceiveAck
    <3>3. PICK w, y, kind : w = <<>> /\ y = doc'[d] /\ kind = "ack"  OBVIOUS
    <3>4. x \cup (IF kind = "row" THEN Frame(d).ops ELSE {}) \subseteq y  BY <1>0, <3>2, <3>3
    <3>5. Took(M, d, kind, w, s) /\ kind \in {"row", "ack"}  BY <3>1, <3>3
    <3>6. UNCHANGED logVars /\ \A e \in Devices : e # d => doc'[e] = doc[e]  BY <3>2
    <3> QED  BY <1>0, <3>1, <3>3, <3>4, <3>5, <3>6
  <2> QED  BY <2>1, <2>2
<1>3. /\ s.open = o.open /\ s.ready = o.ready /\ s.owes = o.owes /\ \A k : Holds(s, k) => Holds(o, k)
      /\ o.open => ToSet(s.up) = ToSet(o.up) \cup ToSet(w) /\ Len(s.up) = Len(o.up) + Len(w)
      /\ Coming(o) \subseteq Coming(s) \cup IF kind = "row" THEN Frame(d).ops ELSE {}
  BY <1>0, <1>2, TookBrings
<1>4. o.open => ToSet(s.up) = ToSet(o.up) /\ Len(s.up) = Len(o.up)
  <2>1. ToSet(w) = {} /\ Len(w) = 0  BY <1>2 DEF ToSet
  <2>2. Len(o.up) \in Nat  BY SockParts
  <2> QED  BY <1>3, <2>1, <2>2
<1>5. b.cursor <= c.cursor /\ c.cursor \in Nat
  <2>1. Frame(d).seq \in Nat
    <3>1. Frame(d) \in DownFrames(M) /\ Frame(d).kind = kind  BY <1>2 DEF Took
    <3> QED  BY <1>2, <3>1, FrameParts
  <2> QED  BY <1>1, <1>2, <2>1 DEF Greater
<1>6. Talking(s, c)
  <2>1. ASSUME o.open PROVE Talking(s, c)
    <3>1. Asked(s) = Asked(o)  BY <1>4, <2>1 DEF Asked
    <3>2. b.phase = "backfill" => \A f \in ToSet(s.up) : f.kind = "rowsReq" /\ (f.after <= c.cursor \/ f.after <= seqFloor)
      <4>1. ASSUME b.phase = "backfill", NEW f \in ToSet(s.up)
            PROVE  f.kind = "rowsReq" /\ (f.after <= c.cursor \/ f.after <= seqFloor)
        <5>1. f.kind = "rowsReq" /\ (f.after <= b.cursor \/ f.after <= seqFloor)  BY <1>1, <1>4, <2>1, <4>1 DEF Talking
        <5>2. f.after \in Nat
          <6>1. f \in UpFrames(M)  BY <1>4, <2>1, <4>1, SockParts
          <6> QED  BY <5>1, <6>1, FrameParts
        <5> QED  BY <1>1, <1>5, <5>1, <5>2
      <4> QED  BY <4>1
    <3>3. s.ready /\ b.phase \in {"hello", "fetch", "backfill", "steady"}  BY <1>1, <1>2, <1>3, <2>1 DEF Talking
    <3>4. b.phase = "steady" => \A f \in ToSet(s.up) : f.kind = "push"  BY <1>1, <1>4, <2>1 DEF Talking
    <3>5. b.phase # "steady" => Len(s.up) <= 1  BY <1>1, <1>4, <2>1 DEF Talking
    <3>6. Asked(s) => s.owes # "rowsDone" /\ ~ Holds(s, "rowsDone")  BY <1>1, <1>3, <2>1, <3>1 DEF Talking
    <3> QED  BY <1>2, <3>2, <3>3, <3>4, <3>5, <3>6 DEF Talking
  <2>2. ~ s.open => Talking(s, c)  BY DEF Talking
  <2> QED  BY <1>3, <2>1, <2>2
<1>7. Whole(s, c, y)
  <2>1. Answered(s, c) => Answered(o, b)  BY <1>2, <1>3, <1>4 DEF Answered, Asked
  <2>2. x \cup Coming(o) \subseteq y \cup Coming(s)  BY <1>2, <1>3
  <2> QED  BY <1>1, <1>5, <2>1, <2>2, WholeMoves
<1> QED  BY <1>2, <1>6, <1>7, MoveRelays

\* Pushes written to a socket that has its answer.
LEMMA PushingTalks ==
  ASSUME NEW M, NEW o \in Socks(M), NEW b \in Clients(M), NEW s, NEW c \in Clients(M), NEW x,
         LogInv, Talking(o, b), Whole(o, b, x),
         s.open = o.open, s.ready = o.ready, s.owes = o.owes, \A k : Holds(s, k) => Holds(o, k),
         Coming(o) \subseteq Coming(s), c.cursor = b.cursor, c.phase = "steady", b.phase \in {"backfill", "steady"},
         o.open => ~ Asked(o) /\ \A f \in ToSet(s.up) : f.kind = "push"
  PROVE  Talking(s, c) /\ Whole(s, c, x)
<1>1. ~ s.open => Talking(s, c)  BY DEF Talking
<1>2. ASSUME s.open PROVE Talking(s, c)
  <2>1. o.ready  BY <1>2 DEF Talking
  <2>2. s.ready  BY <2>1
  <2>3. ~ Asked(s) /\ \A f \in ToSet(s.up) : f.kind = "push"  BY <1>2 DEF Asked
  <2> QED  BY <2>2, <2>3 DEF Talking
<1>3. Answered(s, c) => Answered(o, b)  BY DEF Answered
<1>4. b.cursor \in Nat /\ b.cursor <= c.cursor /\ x \cup Coming(o) \subseteq x \cup Coming(s)  BY ClientParts
<1>5. Whole(s, c, x)  BY <1>3, <1>4, WholeMoves
<1> QED  BY <1>1, <1>2, <1>5

LEMMA PushingRelays ==
  ASSUME NEW M, Shapes(M), LogInv, NEW d \in Devices, ReceiveRowsDone(d) \/ PushPending(d),
         \A e \in Devices : Relays(e)
  PROVE  \A e \in Devices : Relays(e)'
<1>0. PICK o \in Socks(M), b \in Clients(M), x \in SUBSET M : o = sock[d] /\ b = client[d] /\ x = doc[d]
  BY ShapeParts
<1>1. Talking(o, b) /\ Whole(o, b, x)  BY <1>0 DEF Relays
<1>2. UNCHANGED <<logVars, doc>>  BY DEF ReceiveRowsDone, PushPending
<1>3. \A p : Push(p).kind = "push"  BY DEF Push
<1>4. CASE ReceiveRowsDone(d)
  <2>1. PICK c, s, sent :
           /\ Moves(M, d, c, s) /\ Shapes(M)'
           /\ sent \in Seq(UpFrames(M)) /\ ToSet(sent) \subseteq {Push(p) : p \in ToSet(client[d].pending)}
           /\ Took(M, d, "rowsDone", sent, s)
           /\ client[d].phase = "backfill" /\ c.phase = "steady"
           /\ c.cursor = client[d].cursor /\ c.after = client[d].after
           /\ c.base = client[d].base /\ c.joined /\ c.pending = client[d].pending
    BY <1>4, ReceiveRowsDoneEffect
  <2>2. PICK kind : kind = "rowsDone"  OBVIOUS
  <2>3. Took(M, d, kind, sent, s)  BY <2>1, <2>2
  <2>4. /\ s.open = o.open /\ s.ready = o.ready /\ s.owes = o.owes
        /\ Holds(o, kind) /\ \A k : Holds(s, k) => Holds(o, k)
        /\ o.open => ToSet(s.up) = ToSet(o.up) \cup ToSet(sent) /\ Len(s.up) = Len(o.up) + Len(sent)
        /\ Coming(o) \subseteq Coming(s) \cup IF kind = "row" THEN Frame(d).ops ELSE {}
    BY <1>0, <2>3, TookBrings
  <2>5. Coming(o) \subseteq Coming(s)  BY <2>2, <2>4
  <2>6. o.open => ~ Asked(o) /\ \A f \in ToSet(s.up) : f.kind = "push"
    <3>1. ASSUME o.open PROVE ~ Asked(o) /\ \A f \in ToSet(s.up) : f.kind = "push"
      <4>1. ~ Asked(o)  BY <1>1, <2>2, <2>4, <3>1 DEF Talking
      <4>2. \A f \in ToSet(o.up) : f.kind = "rowsReq"  BY <1>0, <1>1, <2>1, <3>1 DEF Talking
      <4>3. ToSet(o.up) = {}  BY <4>1, <4>2 DEF Asked
      <4>4. \A f \in ToSet(sent) : f.kind = "push"  BY <1>3, <2>1
      <4> QED  BY <2>4, <3>1, <4>1, <4>3, <4>4
    <3> QED  BY <3>1
  <2>7. c \in Clients(M) /\ c.cursor = b.cursor /\ b.phase \in {"backfill", "steady"}  BY <1>0, <2>1 DEF Moves
  <2>8. Talking(s, c) /\ Whole(s, c, x)  BY <1>1, <2>1, <2>4, <2>5, <2>6, <2>7, PushingTalks
  <2> QED  BY <1>0, <1>2, <2>1, <2>8, MoveRelays
<1>5. CASE PushPending(d)
  <2>0. PICK sent : sent = PushAll(d)  OBVIOUS
  <2>1. PICK c, s :
           /\ Moves(M, d, c, s) /\ Shapes(M)'
           /\ Wrote(M, d, PushAll(d), s)
           /\ ToSet(PushAll(d)) = {Push(p) : p \in ToSet(client[d].pending)}
           /\ client[d].phase = "steady" /\ c.phase = "steady"
           /\ c.cursor = client[d].cursor /\ c.after = client[d].after
           /\ c.base = client[d].base /\ c.joined = client[d].joined /\ c.pending = client[d].pending
    BY <1>5, PushPendingEffect
  <2>2. Wrote(M, d, sent, s) /\ ToSet(sent) = {Push(p) : p \in ToSet(client[d].pending)}  BY <2>0, <2>1
  <2>3. /\ s.open = o.open /\ s.ready = o.ready /\ s.owes = o.owes /\ s.bcast = o.bcast /\ s.down = o.down
        /\ o.open => ToSet(s.up) = ToSet(o.up) \cup ToSet(sent)
    BY <1>0, <2>2 DEF Wrote
  <2>4. Coming(o) \subseteq Coming(s) /\ \A k : Holds(s, k) => Holds(o, k)  BY <2>3 DEF Coming, Holds
  <2>5. o.open => ~ Asked(o) /\ \A f \in ToSet(s.up) : f.kind = "push"
    <3>1. ASSUME o.open PROVE ~ Asked(o) /\ \A f \in ToSet(s.up) : f.kind = "push"
      <4>1. \A f \in ToSet(o.up) : f.kind = "push"  BY <1>0, <1>1, <2>1, <3>1 DEF Talking
      <4>2. ~ Asked(o)  BY <4>1 DEF Asked
      <4>3. \A f \in ToSet(sent) : f.kind = "push"  BY <1>3, <2>2
      <4> QED  BY <2>3, <3>1, <4>1, <4>2, <4>3
    <3> QED  BY <3>1
  <2>6. c \in Clients(M) /\ c.cursor = b.cursor /\ b.phase \in {"backfill", "steady"}  BY <1>0, <2>1 DEF Moves
  <2>7. Talking(s, c) /\ Whole(s, c, x)  BY <1>1, <2>1, <2>3, <2>4, <2>5, <2>6, PushingTalks
  <2> QED  BY <1>0, <1>2, <2>1, <2>7, MoveRelays
<1> QED  BY <1>4, <1>5

LEMMA SessionRelays ==
  ASSUME NEW M, Shapes(M), LogInv, NEW d \in Devices, Session(d) \/ Cut(d) \/ Dial(d),
         TrueTo(d), \A e \in Devices : Relays(e)
  PROVE  \A e \in Devices : Relays(e)'
<1>1. CASE SeeClose(d) \/ Cut(d)
  <2>0. EndSession(d) /\ faults' \in Nat /\ UNCHANGED <<logVars, doc>>
    <3>1. EndSession(d) /\ faults \in Nat  BY <1>1 DEF SeeClose, Cut, Shapes
    <3>2. faults' = faults \/ faults' = faults + 1  BY <1>1 DEF SeeClose, Cut, MayFault
    <3>3. UNCHANGED <<logVars, doc>>  BY <3>1 DEF EndSession
    <3> QED  BY <3>1, <3>2, <3>3
  <2>1. PICK c : Moves(M, d, c, NoSocket)  BY <2>0, EndSessionEffect
  <2>2. PICK s, x : s = NoSocket /\ x = doc'[d]  OBVIOUS
  <2>3. ~ s.open  BY <2>2 DEF NoSocket
  <2>4. Talking(s, c) /\ Whole(s, c, x)  BY <2>3 DEF Talking, Whole, Answered
  <2> QED  BY <2>0, <2>1, <2>2, <2>4, MoveRelays
<1>2. CASE Dial(d)
  <2>0. UNCHANGED <<logVars, doc>>  BY <1>2 DEF Dial
  <2>1. PICK c, s :
           /\ Moves(M, d, c, s) /\ Shapes(M)'
           /\ client[d].phase = "idle" /\ c.phase = "hello"
           /\ c.cursor = client[d].cursor /\ c.after = client[d].after
           /\ c.base = client[d].base /\ c.joined = client[d].joined /\ c.pending = client[d].pending
           /\ s.open /\ ~ s.ready /\ s.owes = "nothing" /\ s.stats = NoStats
           /\ ToSet(s.up) = {Hello} /\ Len(s.up) = 1 /\ ToSet(s.bcast) = {} /\ ToSet(s.down) = {}
    BY <1>2, DialEffect
  <2>2. PICK x : x = doc'[d]  OBVIOUS
  <2>3. ~ Asked(s) /\ (\A k : ~ Holds(s, k)) /\ Len(s.up) <= 1
    <3>1. Hello.kind = "hello"  BY DEF Hello
    <3>2. ~ Asked(s)  BY <2>1, <3>1 DEF Asked
    <3>3. \A k : ~ Holds(s, k)  BY <2>1 DEF Holds
    <3>4. Len(s.up) <= 1  BY <2>1
    <3> QED  BY <3>2, <3>3, <3>4
  <2>4. Talking(s, c)  BY <2>1, <2>3 DEF Talking
  <2>5. Whole(s, c, x)  BY <2>1 DEF Whole, Answered
  <2> QED  BY <2>0, <2>1, <2>2, <2>4, <2>5, MoveRelays
<1> QED  BY <1>1, <1>2, CatchUpRelays, FrameRelays, PushingRelays DEF Session

LEMMA QuietRelays ==
  ASSUME NEW M, Shapes(M), LogInv, LogInv', LogGrows, headSeq' = headSeq, UNCHANGED <<sock, client, doc>>,
         \A e \in Devices : Relays(e)
  PROVE  \A e \in Devices : Relays(e)'
<1>1. ASSUME NEW e \in Devices PROVE Relays(e)'
  <2>1. PICK c \in Clients(M) : c = client[e]  BY ShapeParts
  <2> QED  BY <2>1, RelaysStays
<1> QED  BY <1>1

LEMMA HandleRelays ==
  ASSUME NEW M, Shapes(M), Basic(M), LogInv, NEW d \in Devices,
         Open(d) \/ Commit(d) \/ SaveSnapshot(d) \/ BeginSave(d) \/ FinishSave(d) \/ Crash(d) \/ Evict(d),
         commits[d] < MaxCommits => <<d, commits[d] + 1>> \in M,
         \A e \in Devices : Relays(e)
  PROVE  \A e \in Devices : Relays(e)'
<1>0. UNCHANGED logVars
  BY DEF Open, Commit, SaveSnapshot, BeginSave, FinishSave, Crash, Evict, CloseHandle
<1>00. LogInv' /\ LogGrows /\ headSeq' = headSeq
  BY <1>0 DEF LogInv, LogTypeOK, LogIsSuffix, RowsAreHistory, BatchIsUnique, PrunedIsCovered, logVars, LogGrows
<1>1. CASE Open(d)
  <2>1. PICK c, x :
          /\ x = StoredOrInit(d) /\ x \in SUBSET M
          /\ c \in Clients(M) /\ client' = [client EXCEPT ![d] = c] /\ Shapes(M)'
          /\ client[d].phase = "closed" /\ c.phase = "idle" /\ ~ c.joined
          /\ c.cursor = disk[d].cursor /\ c.base = disk[d].cursor /\ c.after = 0
          /\ disk[d].cursor = 0 =>
               /\ minted' = [minted EXCEPT ![d] = @ + 1]
               /\ ToSet(c.pending) = IF Cardinality(x) <= MaxPushOps THEN {Minted(d, x)} ELSE {}
          /\ disk[d].cursor # 0 => minted' = minted /\ ToSet(c.pending) = {}
          /\ doc'[d] = x /\ disk'[d].doc = x /\ disk'[d].cursor = disk[d].cursor
          /\ \A e \in Devices : e # d => doc'[e] = doc[e] /\ disk'[e] = disk[e]
    BY <1>1, OpenEffect
  <2>2. PICK s \in Socks(M) : s = sock[d]  BY ShapeParts
  <2>3. Moves(M, d, c, s)
    <3>1. sock' = [sock EXCEPT ![d] = s]  BY <1>1, <2>2 DEF Open, roomVars, Shapes
    <3> QED  BY <2>1, <3>1 DEF Moves
  <2>4. ~ s.open  BY <2>1, <2>2 DEF Relays, Talking
  <2>5. Talking(s, c) /\ Whole(s, c, x)  BY <2>4 DEF Talking, Whole, Answered
  <2> QED  BY <1>0, <2>1, <2>3, <2>5, MoveRelays
<1>2. CASE Commit(d)
  <2>0. <<d, commits[d] + 1>> \in M  BY <1>2 DEF Commit
  <2>1. PICK c, x :
           /\ x = {<<d, commits[d] + 1>>} /\ x \in SUBSET M
           /\ c \in Clients(M) /\ client' = [client EXCEPT ![d] = c] /\ Shapes(M)'
           /\ c.phase = client[d].phase /\ c.phase # "closed" /\ c.joined = client[d].joined
           /\ c.cursor = client[d].cursor /\ c.base = client[d].base /\ c.after = client[d].after
           /\ ToSet(c.pending) = ToSet(client[d].pending)
                \cup IF Cardinality(x) <= MaxPushOps THEN {Minted(d, x)} ELSE {}
           /\ doc'[d] = doc[d] \cup x /\ \A e \in Devices : e # d => doc'[e] = doc[e]
    BY <1>2, <2>0, CommitEffect
  <2>2. sock' = sock  BY <1>2 DEF Commit, roomVars
  <2>3. client'[d] = c /\ \A e \in Devices : e # d => client'[e] = client[e]  BY <2>1 DEF Shapes
  <2>4. Relays(d)'
    <3>1. c = client'[d] /\ doc[d] \subseteq doc'[d] /\ sock'[d] = sock[d] /\ c \in Clients(M)
          /\ c.phase = client[d].phase /\ c.cursor = client[d].cursor
      BY <2>1, <2>2, <2>3
    <3> QED  BY <1>00, <3>1, RelaysStays
  <2>5. ASSUME NEW e \in Devices, e # d PROVE Relays(e)'
    <3>1. PICK b \in Clients(M) : b = client[e]  BY ShapeParts
    <3>2. b = client'[e] /\ doc[e] \subseteq doc'[e] /\ sock'[e] = sock[e]  BY <2>1, <2>2, <2>3, <2>5, <3>1
    <3> QED  BY <1>00, <3>1, <3>2, RelaysStays
  <2> QED  BY <2>4, <2>5
<1>3. CASE SaveSnapshot(d) \/ BeginSave(d) \/ FinishSave(d)
  <2>1. UNCHANGED <<sock, client, doc>>  BY <1>3 DEF SaveSnapshot, BeginSave, FinishSave, roomVars
  <2> QED  BY <1>00, <2>1, QuietRelays
<1>4. CASE Crash(d) \/ Evict(d)
  <2>1. Moves(M, d, NoClient, NoSocket) /\ \A e \in Devices : e # d => doc'[e] = doc[e]
    BY <1>4, CrashEffect, EvictEffect
  <2>2. PICK c, s, x : c = NoClient /\ s = NoSocket /\ x = doc'[d]  OBVIOUS
  <2>3. ~ s.open  BY <2>2 DEF NoSocket
  <2>4. Talking(s, c) /\ Whole(s, c, x)  BY <2>3 DEF Talking, Whole, Answered
  <2> QED  BY <1>0, <2>1, <2>2, <2>4, MoveRelays
<1> QED  BY <1>1, <1>2, <1>3, <1>4

RelayInv == \A d \in Devices : Settled(d) /\ Owned(d) /\ Relays(d)

LEMMA RelayInvStep ==
  ASSUME SyncInv, Truth, RelayInv, NEW d \in Devices, Acts(d), ~ Crash(d),
         "overlap" \in FaultKinds => ~ Evict(d)
  PROVE  RelayInv'
<1>0. /\ Shapes(Ops) /\ Basic(Ops) /\ LogInv /\ headSeq <= MaxSeq
      /\ commits[d] < MaxCommits => <<d, commits[d] + 1>> \in Ops
      /\ \A b \in Known(d) : b.id \in BatchIds
      /\ \A f \in ToSet(sock[d].up) : f.kind = "push" => f.batch \in Known(d)
      /\ \A f \in ToSet(stale[d]) : f.kind = "push" /\ f.batch \in Known(d)
      /\ TrueTo(d) /\ LogInv'
  BY SyncParts, StepNames DEF Truth
<1>1. \A e \in Devices : Settled(e) /\ Owned(e) /\ Relays(e)  BY DEF RelayInv
<1>2. \A e \in Devices : Settled(e)' /\ Own(e) \subseteq Own(e)'  BY <1>0, <1>1, OwnGrows
<1>3. \A e \in Devices : Owned(e)'  BY <1>1, <1>2, OwnedKept
<1>4. \A e \in Devices : Relays(e)'
  <2>1. CASE Hub(d)
    <3>1. HubStep(d) /\ Untouched  BY <2>1 DEF Hub, Untouched
    <3>2. \A f \in ToSet(sock[d].up) : f.kind = "push" => f.batch.id \in BatchIds  BY <1>0
    <3> QED  BY <1>0, <1>1, <3>1, <3>2, HubRelays
  <2>2. CASE HandleStalePush(d) /\ Untouched
    <3>1. \A f \in ToSet(stale[d]) : f.batch.id \in BatchIds  BY <1>0
    <3> QED  BY <1>0, <1>1, <2>2, <3>1, StaleRelays
  <2>3. CASE Session(d) \/ Cut(d) \/ Dial(d)  BY <1>0, <1>1, <2>3, SessionRelays
  <2>4. CASE Open(d) \/ Commit(d) \/ SaveSnapshot(d) \/ BeginSave(d) \/ FinishSave(d) \/ Crash(d) \/ Evict(d)
    BY <1>0, <1>1, <2>4, HandleRelays
  <2>5. CASE (LoseStale(d) /\ Untouched) \/ CheckpointWorker(d)
    <3>1. /\ UNCHANGED <<sock, client, doc>>
          /\ headSeq' = headSeq /\ accepted' = accepted /\ seqFloor' >= seqFloor
      <4>1. CASE LoseStale(d) /\ Untouched
        BY <1>0, <4>1 DEF LoseStale, Untouched, logVars, LogInv, LogTypeOK
      <4>2. CASE BeginCheckpoint(d) \/ ExportSnapshot(d) \/ PostCheckpoint(d) \/ LoseCheckpoint(d)
        <5>1. UNCHANGED <<logVars, roomVars, client, doc, disk, saving, adrift, commits, minted, faults>>
          BY <1>0, <4>2, WorkerEffect
        <5> QED  BY <1>0, <5>1 DEF logVars, roomVars, LogInv, LogTypeOK
      <4>3. CASE PostAnswered(d)
        BY <1>0, <4>3, AnsweredEffect DEF roomVars
      <4> QED  BY <2>5, <4>1, <4>2, <4>3 DEF CheckpointWorker, PostAnswered
    <3>2. LogGrows  BY <1>0, <3>1 DEF LogGrows, LogInv, LogTypeOK
    <3> QED  BY <1>0, <1>1, <3>1, <3>2, QuietRelays
  <2> QED  BY <2>1, <2>2, <2>3, <2>4, <2>5 DEF Acts, Environment, Untouched
<1> QED  BY <1>2, <1>3, <1>4 DEF RelayInv

LEMMA RelayInvKept ==
  ASSUME "crash" \notin FaultKinds, ~ ({"evict", "overlap"} \subseteq FaultKinds),
         SyncInv, Truth, RelayInv, [Next]_vars
  PROVE  RelayInv'
<1>1. CASE Next
  <2>1. PICK d \in Devices : Acts(d)  BY <1>1, NextIsAnAct
  <2>2. ~ Crash(d) /\ ("overlap" \in FaultKinds => ~ Evict(d))  BY DEF Crash, Evict, MayFault
  <2> QED  BY <2>1, <2>2, RelayInvStep
<1>2. CASE UNCHANGED vars
  <2>1. UNCHANGED <<logVars, headSeq, accepted, sock, stale, client, doc, disk, saving>>
    BY <1>2 DEF vars, logVars, roomVars
  <2>2. \A d \in Devices : Settled(d) /\ Owned(d) /\ Relays(d)  BY DEF RelayInv
  <2>3. \A d \in Devices : Settled(d)'  BY <2>1, <2>2 DEF Settled
  <2>4. \A d \in Devices : Owned(d)'
    <3>1. \A d \in Devices : Known(d)' = Known(d)  BY <2>1 DEF Known, KnownIn, Pushed, ToSet
    <3>2. \A d \in Devices : Own(d)' = Own(d)  BY <2>1 DEF Own
    <3> QED  BY <2>1, <2>2, <3>1, <3>2 DEF Owned
  <2>5. \A d \in Devices : Relays(d)'
    <3>1. Shapes(Ops) /\ LogInv  BY SyncParts
    <3>2. LogInv' /\ LogGrows
      BY <2>1, <3>1 DEF LogInv, LogTypeOK, LogIsSuffix, RowsAreHistory, BatchIsUnique, PrunedIsCovered, logVars,
                        LogGrows
    <3> QED  BY <2>1, <2>2, <3>1, <3>2, QuietRelays
  <2> QED  BY <2>3, <2>4, <2>5 DEF RelayInv
<1> QED  BY <1>1, <1>2

LEMMA InitRelayInv ==
  ASSUME Init
  PROVE  RelayInv
<1> SUFFICES ASSUME NEW d \in Devices PROVE Settled(d) /\ Owned(d) /\ Relays(d)  BY DEF RelayInv
<1>1. /\ sock[d] = NoSocket /\ client[d] = NoClient /\ stale[d] = <<>> /\ saving[d] = {} /\ headSeq = 0
  BY DEF Init, RoomInit, LogInit
<1>2. Settled(d)  BY <1>1 DEF Settled
<1>3. Owned(d)
  <2>1. ToSet(<<>>) = {} /\ NoClient.pending = <<>> /\ NoSocket.up = <<>>  BY DEF ToSet, NoClient, NoSocket
  <2>2. Known(d) = {}  BY <1>1, <2>1, PushedOfNone DEF Known, KnownIn
  <2>3. 1 .. headSeq = {}  BY <1>1
  <2> QED  BY <2>2, <2>3 DEF Owned
<1>4. Relays(d)
  <2>1. PICK s, c, x : s = sock[d] /\ c = client[d] /\ x = doc[d]  OBVIOUS
  <2>2. ~ s.open  BY <1>1, <2>1 DEF NoSocket
  <2> QED  BY <2>1, <2>2 DEF Relays, Talking, Whole, Answered
<1> QED  BY <1>2, <1>3, <1>4

LEMMA RelayFollows ==
  ASSUME SyncInv, RelayInv
  PROVE  RelayIsComplete
<1> SUFFICES ASSUME NEW d \in Devices, client[d].phase = "steady", sock[d].open,
                    NEW n \in client[d].cursor + 1 .. headSeq
             PROVE  accepted[n].ops \subseteq doc[d] \cup OnItsWay(d) \/ n <= seqFloor
  BY DEF RelayIsComplete, Phase
<1>0. PICK s \in Socks(Ops), c \in Clients(Ops), x \in SUBSET Ops : s = sock[d] /\ c = client[d] /\ x = doc[d]
  BY SyncParts, ShapeParts
<1>1. Talking(s, c) /\ Whole(s, c, x)  BY <1>0 DEF RelayInv, Relays
<1>2. Answered(s, c)
  <2>1. \A f \in ToSet(s.up) : f.kind = "push"  BY <1>0, <1>1 DEF Talking
  <2>2. ~ Asked(s)  BY <2>1 DEF Asked
  <2> QED  BY <1>0, <2>2 DEF Answered
<1>3. n \in 1 .. headSeq /\ n > c.cursor
  <2>1. headSeq \in Nat /\ c.cursor \in Nat  BY SyncParts, ClientParts DEF LogInv, LogTypeOK
  <2> QED  BY <1>0, <2>1
<1>4. n <= seqFloor \/ accepted[n].ops \subseteq x \cup Coming(s)  BY <1>1, <1>2, <1>3 DEF Whole
<1>5. Coming(s) \subseteq OnItsWay(d)
  <2>1. ASSUME NEW f \in ToSet(s.down), f.kind = "row" PROVE f.ops \subseteq OnItsWay(d)
    <3>1. PICK i \in DOMAIN s.down : f = s.down[i]  BY <2>1 DEF ToSet
    <3> QED  BY <1>0, <2>1, <3>1 DEF OnItsWay
  <2>2. ASSUME NEW v \in ToSet(s.bcast), v.frame.kind = "row" PROVE v.frame.ops \subseteq OnItsWay(d)
    <3>1. PICK i \in DOMAIN s.bcast : v = s.bcast[i]  BY <2>2 DEF ToSet
    <3> QED  BY <1>0, <2>2, <3>1 DEF OnItsWay
  <2>3. RowsIn(ToSet(s.down)) \subseteq OnItsWay(d)  BY <2>1 DEF RowsIn
  <2>4. RowsIn({v.frame : v \in ToSet(s.bcast)}) \subseteq OnItsWay(d)
    <3>1. \A f \in {v.frame : v \in ToSet(s.bcast)} : f.kind = "row" => f.ops \subseteq OnItsWay(d)  BY <2>2
    <3> QED  BY <3>1 DEF RowsIn
  <2> QED  BY <2>3, <2>4 DEF Coming
<1> QED  BY <1>0, <1>4, <1>5

\* A caught-up socket misses nothing live, however rows, acks, pushes, replays, lag
\* closes, cuts and checkpoints interleave: a row above the cursor is in the document,
\* in the room's queue for the socket, on its way down, or pruned.  Of its own rows a
\* rejoined device is sent none, so this needs its documents never to fall behind what
\* it pushed: no process may die before its debounced save, and no save that outlives
\* an evicted handle may overwrite a newer snapshot.
THEOREM RelayIsAlwaysComplete ==
  ASSUME "crash" \notin FaultKinds, ~ ({"evict", "overlap"} \subseteq FaultKinds)
  PROVE  Spec => []RelayIsComplete
<1>1. Init => RelayInv  BY InitRelayInv
<1>2. (SyncInv /\ Truth) /\ RelayInv /\ [Next]_vars => RelayInv'  BY RelayInvKept
<1>3. SyncInv /\ RelayInv => RelayIsComplete  BY RelayFollows
<1> QED  BY <1>1, <1>2, <1>3, SyncInvariant, PTL DEF Spec

===============================================================================
