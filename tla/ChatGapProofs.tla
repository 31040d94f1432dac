---------------------------- MODULE ChatGapProofs ----------------------------
(***************************************************************************)
(* Cursors and checkpoints of chat sync leave no gap, for every set of     *)
(* devices and for every bound - where no connection ends in the middle of *)
(* a backfill, no save is overtaken by another one, no process dies with   *)
(* operations unsaved, and one device at most posts checkpoints.           *)
(*                                                                         *)
(* A cursor is moved by whatever frame comes, so what counts is the order  *)
(* of frames on a socket: a live row comes behind the rows below it.  That *)
(* is so from the end of the backfill on; before it, rows come in any      *)
(* order, and the end of the backfill makes good for that.  A checkpoint   *)
(* is whole if the cursor it was made under left no gap, and who catches   *)
(* up by one that is whole is left with none.                              *)
(***************************************************************************)
EXTENDS ChatSyncProofs

-----------------------------------------------------------------------------
(* Sequences of frames *)

\* Frames that move a cursor.
Numbered(f) == f.kind \in {"row", "ack"}

\* Row j of the frames waiting for a session is live: once the session is steady each
\* row is, before that only those behind the end of the backfill.
Live(q, phase, j) ==
  q[j].kind = "row" /\ (phase = "steady" \/ \E k \in 1 .. j - 1 : q[k].kind = "rowsDone")

LiveRows(q, phase) == {q[j] : j \in {i \in 1 .. Len(q) : Live(q, phase, i)}}

\* A live row is above all that comes before it.
InOrder(q, phase) ==
  \A j \in 1 .. Len(q) : Live(q, phase, j) =>
    \A i \in 1 .. j - 1 : Numbered(q[i]) => q[i].seq < q[j].seq

\* Of waiting events every row is live.
EventsInOrder(b) ==
  \A j \in 1 .. Len(b) : b[j].frame.kind = "row" => \A i \in 1 .. j - 1 : b[i].frame.seq < b[j].frame.seq

LEMMA LiveRowsWait ==
  ASSUME NEW S, NEW q \in Seq(S), NEW phase
  PROVE  /\ LiveRows(q, phase) \subseteq ToSet(q)
         /\ \A f \in LiveRows(q, phase) : f.kind = "row"
         /\ phase = "steady" => \A f \in ToSet(q) : f.kind = "row" => f \in LiveRows(q, phase)
         /\ (phase # "steady" /\ \A f \in ToSet(q) : f.kind # "rowsDone") => LiveRows(q, phase) = {}
<1>1. ToSet(q) = {q[k] : k \in 1 .. Len(q)}  BY ToSetOfSeq
<1>2. Len(q) \in Nat  OBVIOUS
<1>3. \A j \in 1 .. Len(q) : 1 .. j - 1 \subseteq 1 .. Len(q)  BY <1>2
<1>4. (phase # "steady" /\ \A f \in ToSet(q) : f.kind # "rowsDone") => LiveRows(q, phase) = {}
  <2> SUFFICES ASSUME phase # "steady", \A f \in ToSet(q) : f.kind # "rowsDone",
                      NEW j \in 1 .. Len(q), Live(q, phase, j)
               PROVE  FALSE
    BY DEF LiveRows
  <2>1. PICK k \in 1 .. j - 1 : q[k].kind = "rowsDone"  BY DEF Live
  <2> QED  BY <1>1, <1>3, <2>1
<1> QED  BY <1>1, <1>4 DEF LiveRows, Live

\* A frame is sent: it must be above all others if it is a live row.
LEMMA OrderOfAppend ==
  ASSUME NEW S, NEW q \in Seq(S), NEW f \in S, NEW phase, InOrder(q, phase),
         f.kind = "row" /\ (phase = "steady" \/ \E g \in ToSet(q) : g.kind = "rowsDone") =>
           \A g \in ToSet(q) : Numbered(g) => g.seq < f.seq
  PROVE  /\ InOrder(Append(q, f), phase)
         /\ LiveRows(Append(q, f), phase) \subseteq LiveRows(q, phase) \cup {f}
         /\ f.kind # "row" => LiveRows(Append(q, f), phase) \subseteq LiveRows(q, phase)
<1>0. PICK n \in Nat : n = Len(q)  OBVIOUS
<1>1. PICK r : n = Len(q) /\ r = Append(q, f)  BY <1>0
<1>2. Len(r) = n + 1 /\ r[n + 1] = f /\ \A i \in 1 .. n : r[i] = q[i]  BY <1>1
<1>3. ToSet(q) = {q[i] : i \in 1 .. n}  BY <1>1, ToSetOfSeq
<1>4. \A j \in 1 .. n + 1 : 1 .. j - 1 \subseteq 1 .. n  OBVIOUS
<1>5. \A j \in 1 .. n : Live(r, phase, j) <=> Live(q, phase, j)
  <2> SUFFICES ASSUME NEW j \in 1 .. n PROVE Live(r, phase, j) <=> Live(q, phase, j)  OBVIOUS
  <2>1. r[j] = q[j] /\ \A k \in 1 .. j - 1 : r[k] = q[k]  BY <1>2, <1>4
  <2> QED  BY <2>1 DEF Live
<1>6. LiveRows(r, phase) \subseteq LiveRows(q, phase) \cup {f}
      /\ (f.kind # "row" => LiveRows(r, phase) \subseteq LiveRows(q, phase))
  <2> SUFFICES ASSUME NEW j \in 1 .. n + 1, Live(r, phase, j)
               PROVE  r[j] \in LiveRows(q, phase) \/ (r[j] = f /\ f.kind = "row")
    BY <1>2 DEF LiveRows
  <2>1. CASE j \in 1 .. n  BY <1>1, <1>2, <1>5, <2>1 DEF LiveRows
  <2>2. CASE j = n + 1  BY <1>2, <2>2 DEF Live
  <2> QED  BY <2>1, <2>2
<1>7. InOrder(r, phase)
  <2> SUFFICES ASSUME NEW j \in 1 .. n + 1, Live(r, phase, j), NEW i \in 1 .. j - 1, Numbered(r[i])
               PROVE  r[i].seq < r[j].seq
    BY <1>2 DEF InOrder
  <2>1. i \in 1 .. n /\ r[i] = q[i]  BY <1>2, <1>4
  <2>2. CASE j \in 1 .. n  BY <1>1, <1>2, <1>5, <2>1, <2>2 DEF InOrder
  <2>3. CASE j = n + 1
    <3>1. f.kind = "row" /\ (phase = "steady" \/ \E k \in 1 .. n : q[k].kind = "rowsDone")
      <4>1. r[n + 1].kind = "row" /\ (phase = "steady" \/ \E k \in 1 .. j - 1 : r[k].kind = "rowsDone")
        BY <2>3 DEF Live
      <4>2. \A k \in 1 .. j - 1 : k \in 1 .. n /\ r[k] = q[k]  BY <1>2, <1>4
      <4> QED  BY <1>2, <4>1, <4>2
    <3>2. \A g \in ToSet(q) : Numbered(g) => g.seq < f.seq  BY <1>3, <3>1
    <3> QED  BY <1>2, <1>3, <2>1, <2>3, <3>2
  <2> QED  BY <2>2, <2>3
<1> QED  BY <1>1, <1>6, <1>7

\* A frame is taken: what stays live is above it.  The end of the backfill makes all
\* that comes behind it live.
LEMMA OrderOfTail ==
  ASSUME NEW S, NEW q \in Seq(S), q # <<>>, NEW phase, NEW next, InOrder(q, phase),
         next = "steady" => phase = "steady" \/ Head(q).kind = "rowsDone"
  PROVE  /\ InOrder(Tail(q), next)
         /\ LiveRows(Tail(q), next) \subseteq LiveRows(q, phase)
         /\ Numbered(Head(q)) => \A f \in LiveRows(Tail(q), next) : Head(q).seq < f.seq
<1>1. PICK l \in Nat : l = Len(q) /\ l # 0  OBVIOUS
<1>2. PICK u : u = Tail(q)  OBVIOUS
<1>3. Len(u) = l - 1 /\ (\A i \in 1 .. l - 1 : u[i] = q[i + 1]) /\ Head(q) = q[1]  BY <1>1, <1>2
<1>4. \A j \in 1 .. l - 1 : j + 1 \in 1 .. l /\ 1 \in 1 .. j + 1 - 1 /\ \A i \in 1 .. j - 1 : i \in 1 .. l - 1 /\ i + 1 \in 1 .. j + 1 - 1
  BY <1>1
<1>5. \A j \in 1 .. l - 1 : Live(u, next, j) => Live(q, phase, j + 1)
  <2> SUFFICES ASSUME NEW j \in 1 .. l - 1, Live(u, next, j) PROVE Live(q, phase, j + 1)  OBVIOUS
  <2>1. u[j] = q[j + 1] /\ \A k \in 1 .. j - 1 : u[k] = q[k + 1]  BY <1>3, <1>4
  <2>2. q[j + 1].kind = "row"  BY <2>1 DEF Live
  <2>3. CASE next = "steady"
    <3>1. phase = "steady" \/ q[1].kind = "rowsDone"  BY <1>3, <2>3
    <3> QED  BY <1>4, <2>2, <3>1 DEF Live
  <2>4. CASE \E k \in 1 .. j - 1 : u[k].kind = "rowsDone"
    <3>1. PICK k \in 1 .. j - 1 : u[k].kind = "rowsDone"  BY <2>4
    <3>2. k + 1 \in 1 .. j + 1 - 1 /\ q[k + 1].kind = "rowsDone"  BY <1>4, <2>1, <3>1
    <3> QED  BY <2>2, <3>2 DEF Live
  <2> QED  BY <2>3, <2>4 DEF Live
<1>6. LiveRows(u, next) \subseteq LiveRows(q, phase)
  <2> SUFFICES ASSUME NEW j \in 1 .. l - 1, Live(u, next, j) PROVE u[j] \in LiveRows(q, phase)
    BY <1>3 DEF LiveRows
  <2>1. j + 1 \in 1 .. l /\ u[j] = q[j + 1]  BY <1>3, <1>4
  <2> QED  BY <1>1, <1>5, <2>1 DEF LiveRows
<1>7. Numbered(q[1]) => \A f \in LiveRows(u, next) : q[1].seq < f.seq
  <2> SUFFICES ASSUME Numbered(q[1]), NEW j \in 1 .. l - 1, Live(u, next, j) PROVE q[1].seq < u[j].seq
    BY <1>3 DEF LiveRows
  <2>1. j + 1 \in 1 .. l /\ 1 \in 1 .. j + 1 - 1 /\ u[j] = q[j + 1]  BY <1>3, <1>4
  <2> QED  BY <1>1, <1>5, <2>1 DEF InOrder
<1>8. InOrder(u, next)
  <2> SUFFICES ASSUME NEW j \in 1 .. l - 1, Live(u, next, j), NEW i \in 1 .. j - 1, Numbered(u[i])
               PROVE  u[i].seq < u[j].seq
    BY <1>3 DEF InOrder
  <2>1. j + 1 \in 1 .. l /\ i + 1 \in 1 .. j + 1 - 1 /\ u[j] = q[j + 1] /\ u[i] = q[i + 1]  BY <1>3, <1>4
  <2> QED  BY <1>1, <1>5, <2>1 DEF InOrder
<1> QED  BY <1>2, <1>3, <1>6, <1>7, <1>8

LEMMA NoLiveRowsInOrder ==
  ASSUME NEW S, NEW q \in Seq(S), NEW phase, LiveRows(q, phase) = {}
  PROVE  InOrder(q, phase)
BY DEF InOrder, LiveRows

LEMMA EventsOfAppend ==
  ASSUME NEW S, NEW b \in Seq(S), NEW v \in S, EventsInOrder(b),
         v.frame.kind = "row" => \A w \in ToSet(b) : w.frame.seq < v.frame.seq
  PROVE  EventsInOrder(Append(b, v))
<1>1. PICK n \in Nat : n = Len(b)  OBVIOUS
<1>2. PICK r : r = Append(b, v)  OBVIOUS
<1>3. Len(r) = n + 1 /\ r[n + 1] = v /\ \A i \in 1 .. n : r[i] = b[i]  BY <1>1, <1>2
<1>4. ToSet(b) = {b[i] : i \in 1 .. n}  BY <1>1, ToSetOfSeq
<1>5. \A j \in 1 .. n + 1 : 1 .. j - 1 \subseteq 1 .. n  OBVIOUS
<1> SUFFICES ASSUME NEW j \in 1 .. n + 1, r[j].frame.kind = "row", NEW i \in 1 .. j - 1
             PROVE  r[i].frame.seq < r[j].frame.seq
  BY <1>2, <1>3 DEF EventsInOrder
<1>6. i \in 1 .. n /\ r[i] = b[i]  BY <1>3, <1>5
<1>7. CASE j \in 1 .. n  BY <1>1, <1>3, <1>6, <1>7 DEF EventsInOrder
<1>8. CASE j = n + 1  BY <1>3, <1>4, <1>6, <1>8
<1> QED  BY <1>7, <1>8

LEMMA EventsOfTail ==
  ASSUME NEW S, NEW b \in Seq(S), b # <<>>, EventsInOrder(b)
  PROVE  /\ EventsInOrder(Tail(b))
         /\ \A w \in ToSet(Tail(b)) : w.frame.kind = "row" => Head(b).frame.seq < w.frame.seq
<1>1. PICK l \in Nat : l = Len(b) /\ l # 0  OBVIOUS
<1>2. PICK u : u = Tail(b)  OBVIOUS
<1>3. Len(u) = l - 1 /\ (\A i \in 1 .. l - 1 : u[i] = b[i + 1]) /\ Head(b) = b[1]  BY <1>1, <1>2
<1>4. \A j \in 1 .. l - 1 : j + 1 \in 1 .. l /\ 1 \in 1 .. j + 1 - 1 /\ \A i \in 1 .. j - 1 : i \in 1 .. l - 1 /\ i + 1 \in 1 .. j + 1 - 1
  BY <1>1
<1>5. ToSet(u) = {u[i] : i \in 1 .. l - 1}
  <2>1. u \in Seq(S)  BY <1>2, ToSetOfTail
  <2> QED  BY <1>3, <2>1, ToSetOfSeq
<1>6. \A w \in ToSet(u) : w.frame.kind = "row" => b[1].frame.seq < w.frame.seq
  <2> SUFFICES ASSUME NEW j \in 1 .. l - 1, u[j].frame.kind = "row" PROVE b[1].frame.seq < u[j].frame.seq
    BY <1>5
  <2>1. j + 1 \in 1 .. l /\ 1 \in 1 .. j + 1 - 1 /\ u[j] = b[j + 1]  BY <1>3, <1>4
  <2> QED  BY <1>1, <2>1 DEF EventsInOrder
<1>7. EventsInOrder(u)
  <2> SUFFICES ASSUME NEW j \in 1 .. l - 1, u[j].frame.kind = "row", NEW i \in 1 .. j - 1
               PROVE  u[i].frame.seq < u[j].frame.seq
    BY <1>3 DEF EventsInOrder
  <2>1. j + 1 \in 1 .. l /\ i + 1 \in 1 .. j + 1 - 1 /\ u[j] = b[j + 1] /\ u[i] = b[i + 1]  BY <1>3, <1>4
  <2> QED  BY <1>1, <2>1 DEF EventsInOrder
<1> QED  BY <1>2, <1>3, <1>6, <1>7

\* One entry is kept, or none.
LEMMA KeepAtOne ==
  ASSUME NEW S, NEW q \in Seq(S), NEW I, NEW m \in 1 .. Len(q), I \cap (1 .. Len(q)) = {m}
  PROVE  KeepAt(q, I) = <<q[m]>>
<1>1. PICK k : k = KeepAt(q, I)  OBVIOUS
<1>2. PICK g : IsPart(S, q, I, Len(q), k, g)  BY <1>1, KeepAtFacts
<1>3. k \in Seq(S) /\ Len(k) \in Nat  BY <1>2 DEF IsPart
<1>4. \A j \in 1 .. Len(k) : g[j] = m /\ k[j] = q[m]  BY <1>2 DEF IsPart
<1>5. \E j \in 1 .. Len(k) : g[j] = m  BY <1>2 DEF IsPart
<1>6. \A i, j \in 1 .. Len(k) : i < j => g[i] < g[j]  BY <1>2 DEF IsPart
<1>7. Len(k) = 1
  <2>1. ASSUME Len(k) > 1 PROVE FALSE
    <3>1. 1 \in 1 .. Len(k) /\ 2 \in 1 .. Len(k) /\ 1 < 2  BY <1>3, <2>1
    <3>2. g[1] < g[2] /\ g[1] = m /\ g[2] = m  BY <1>4, <1>6, <3>1
    <3>3. m \in Nat  OBVIOUS
    <3> QED  BY <3>2, <3>3
  <2>2. PICK n \in Nat : n = Len(k)  BY <1>3
  <2>3. PICK j \in 1 .. n : TRUE  BY <1>5, <2>2
  <2>4. ~ n > 1  BY <2>1, <2>2
  <2> QED  BY <2>2, <2>3, <2>4
<1>8. 1 \in 1 .. Len(k)  BY <1>7
<1>9. k[1] = q[m]  BY <1>4, <1>8
<1> QED  BY <1>1, <1>3, <1>7, <1>9

LEMMA KeepAtNone ==
  ASSUME NEW S, NEW q \in Seq(S), NEW I, I \cap (1 .. Len(q)) = {}
  PROVE  KeepAt(q, I) = <<>>
<1>1. PICK k : k = KeepAt(q, I)  OBVIOUS
<1>2. PICK g : IsPart(S, q, I, Len(q), k, g)  BY <1>1, KeepAtFacts
<1>3. k \in Seq(S) /\ Len(k) \in Nat /\ \A j \in 1 .. Len(k) : FALSE  BY <1>2 DEF IsPart
<1>4. Len(k) = 0
  <2>1. Len(k) # 0 => 1 \in 1 .. Len(k)  BY <1>3
  <2> QED  BY <1>3, <2>1
<1> QED  BY <1>1, <1>3, <1>4

-----------------------------------------------------------------------------
(* What is stored *)

\* What a session does to a document and its snapshot.
LEMMA SessionStores ==
  ASSUME NEW M, Shapes(M), NEW d \in Devices, Session(d) \/ Cut(d) \/ Dial(d)
  PROVE  /\ saving' = saving /\ commits' = commits /\ client[d].phase # "closed"
         /\ doc[d] \subseteq doc'[d]
         /\ (doc'[d] = doc[d] /\ disk'[d] = disk[d]) \/ disk'[d].doc = doc'[d]
         /\ \A e \in Devices : e # d => client'[e] = client[e] /\ doc'[e] = doc[e] /\ disk'[e] = disk[e]
<1>1. saving' = saving /\ commits' = commits /\ client[d].phase # "closed"
  BY DEF Session, ReceiveState, FetchCheckpoint, ReceiveRow, ReceiveAck, ReceiveRowsDone, PushPending,
         SeeClose, Cut, Dial, EndSession, Streaming, Phase, engineVars
<1>2. \A e \in Devices : e # d => client'[e] = client[e]
  <2>1. \E c : client' = [client EXCEPT ![d] = c]
    BY DEF Session, ReceiveState, FetchCheckpoint, ReceiveRow, ReceiveAck, ReceiveRowsDone, PushPending,
           SeeClose, Cut, Dial, EndSession
  <2> QED  BY <2>1 DEF Shapes
<1>3. /\ doc[d] \subseteq doc'[d]
      /\ (doc'[d] = doc[d] /\ disk'[d] = disk[d]) \/ disk'[d].doc = doc'[d]
      /\ \A e \in Devices : e # d => doc'[e] = doc[e] /\ disk'[e] = disk[e]
  <2>1. CASE FetchCheckpoint(d)
    <3>1. PICK x : x = doc[d] \cup checkpoint.ops  OBVIOUS
    <3>2. doc' = [doc EXCEPT ![d] = x] /\ disk' = [disk EXCEPT ![d] = [doc |-> x, cursor |-> client[d].after]]
      BY <2>1, <3>1 DEF FetchCheckpoint
    <3>3. doc'[d] = x /\ disk'[d].doc = x /\ \A e \in Devices : e # d => doc'[e] = doc[e] /\ disk'[e] = disk[e]
      BY <3>2 DEF Shapes
    <3> QED  BY <3>1, <3>3
  <2>2. CASE ReceiveRow(d)
    <3>1. PICK x : x = doc[d] \cup Frame(d).ops  OBVIOUS
    <3>2. doc' = [doc EXCEPT ![d] = x] /\ disk' = [disk EXCEPT ![d] = [doc |-> x, cursor |-> Frame(d).seq]]
      BY <2>2, <3>1 DEF ReceiveRow
    <3>3. doc'[d] = x /\ disk'[d].doc = x /\ \A e \in Devices : e # d => doc'[e] = doc[e] /\ disk'[e] = disk[e]
      BY <3>2 DEF Shapes
    <3> QED  BY <3>1, <3>3
  <2>3. CASE ReceiveAck(d)
    <3>1. doc' = doc /\ \E n : disk' = [disk EXCEPT ![d] = [doc |-> doc[d], cursor |-> n]]
      BY <2>3 DEF ReceiveAck
    <3>2. disk'[d].doc = doc[d] /\ \A e \in Devices : e # d => disk'[e] = disk[e]  BY <3>1 DEF Shapes
    <3> QED  BY <3>1, <3>2
  <2>4. CASE ReceiveState(d) \/ ReceiveRowsDone(d) \/ PushPending(d) \/ SeeClose(d) \/ Cut(d) \/ Dial(d)
    <3>1. doc' = doc /\ disk' = disk
      BY <2>4 DEF ReceiveState, ReceiveRowsDone, PushPending, SeeClose, Cut, Dial, EndSession
    <3> QED  BY <3>1
  <2> QED  BY <2>1, <2>2, <2>3, <2>4 DEF Session
<1> QED  BY <1>1, <1>2, <1>3

-----------------------------------------------------------------------------
(* What the theorems ask of a behaviour: a session that has begun a backfill *)
(* comes to its end, and a handle ends with its document stored, whether it  *)
(* is evicted or its process dies.                                           *)

BackfillsEnd == \A d \in Devices : Phase(d) = "backfill" => Phase(d)' \in {"backfill", "steady"}

StoredAtTheEnd == \A d \in Devices : IsOpen(d) /\ ~ IsOpen(d)' => disk'[d].doc = doc[d]

\* What an open handle has is what is stored.
Stored(d) == client[d].phase # "closed" => disk[d].doc = doc[d]

LEMMA HandleEnds ==
  ASSUME "overlap" \notin FaultKinds, SyncInv, NEW d \in Devices, Acts(d),
         "crash" \notin FaultKinds \/ \A e \in Devices : Stored(e)
  PROVE  StoredAtTheEnd
<1>0. Shapes(Ops) /\ Basic(Ops) /\ (commits[d] < MaxCommits => <<d, commits[d] + 1>> \in Ops)  BY SyncParts
<1>1. CASE Crash(d) \/ Evict(d)
  <2>1. Moves(Ops, d, NoClient, NoSocket)  BY <1>0, <1>1, CrashEffect, EvictEffect
  <2>2. \A e \in Devices : e # d => client'[e] = client[e]  BY <1>0, <2>1, MovesAt
  <2>3. disk'[d].doc = doc[d]
    <3>1. CASE Crash(d)
      <4>1. disk' = disk /\ client[d].phase # "closed" /\ "crash" \in FaultKinds
        BY <3>1 DEF Crash, MayFault, IsOpen, Phase
      <4> QED  BY <4>1 DEF Stored
    <3>2. CASE Evict(d)  BY <1>0, <3>2, EvictEffect
    <3> QED  BY <1>1, <3>1, <3>2
  <2> QED  BY <2>2, <2>3 DEF StoredAtTheEnd, IsOpen, Phase
<1>2. CASE ~ Crash(d) /\ ~ Evict(d)
  <2>1. \A e \in Devices : client'[e].phase = "closed" => client[e].phase = "closed"
    BY <1>0, <1>2, PhaseStays
  <2> QED  BY <2>1 DEF StoredAtTheEnd, IsOpen, Phase
<1> QED  BY <1>1, <1>2

LEMMA StoredStep ==
  ASSUME "overlap" \notin FaultKinds, Committers = {}, SyncInv, NEW d \in Devices, Acts(d),
         \A e \in Devices : Settled(e) /\ Stored(e)
  PROVE  \A e \in Devices : Settled(e)' /\ Stored(e)'
<1>0. Shapes(Ops) /\ Basic(Ops) /\ (commits[d] < MaxCommits => <<d, commits[d] + 1>> \in Ops)  BY SyncParts
<1>1. \A e \in Devices : saving[e] = {} /\ (client[e].phase # "closed" => disk[e].doc = doc[e])
  BY DEF Settled, Stored
<1> SUFFICES \A e \in Devices : saving'[e] = {} /\ (client'[e].phase # "closed" => disk'[e].doc = doc'[e])
  BY DEF Settled, Stored
<1>2. CASE Session(d) \/ Cut(d) \/ Dial(d)
  <2>1. /\ saving' = saving /\ client[d].phase # "closed"
        /\ (doc'[d] = doc[d] /\ disk'[d] = disk[d]) \/ disk'[d].doc = doc'[d]
        /\ \A e \in Devices : e # d => client'[e] = client[e] /\ doc'[e] = doc[e] /\ disk'[e] = disk[e]
    BY <1>0, <1>2, SessionStores
  <2> QED  BY <1>1, <2>1
<1>3. CASE Hub(d) \/ Environment(d) \/ CheckpointWorker(d)
  <2>1. client' = client /\ doc' = doc /\ disk' = disk /\ saving' = saving
    BY <1>3 DEF Hub, Environment, CheckpointWorker, BeginCheckpoint, ExportSnapshot, PostCheckpoint, StoreCheckpoint,
           LoseCheckpoint, LateCheckpoint
  <2> QED  BY <1>1, <2>1
<1>4. CASE Open(d)
  <2>1. PICK c, x :
          /\ x = StoredOrInit(d) /\ x \in SUBSET Ops
          /\ c \in Clients(Ops) /\ client' = [client EXCEPT ![d] = c] /\ Shapes(Ops)'
          /\ client[d].phase = "closed" /\ c.phase = "idle" /\ ~ c.joined
          /\ c.cursor = disk[d].cursor /\ c.base = disk[d].cursor /\ c.after = 0
          /\ disk[d].cursor = 0 =>
               /\ minted' = [minted EXCEPT ![d] = @ + 1]
               /\ ToSet(c.pending) = IF Cardinality(x) <= MaxPushOps THEN {Minted(d, x)} ELSE {}
          /\ disk[d].cursor # 0 => minted' = minted /\ ToSet(c.pending) = {}
          /\ doc'[d] = x /\ disk'[d].doc = x /\ disk'[d].cursor = disk[d].cursor
          /\ \A f \in Devices : f # d => doc'[f] = doc[f] /\ disk'[f] = disk[f]
    BY <1>0, <1>4, OpenEffect
  <2>2. saving' = saving /\ \A f \in Devices : f # d => client'[f] = client[f]
    BY <1>0, <1>4, <2>1 DEF Shapes, Open
  <2> QED  BY <1>1, <2>1, <2>2
<1>5. CASE SaveSnapshot(d) \/ BeginSave(d) \/ FinishSave(d) \/ Commit(d)
  <2>1. FALSE
    <3>1. ~ Commit(d) /\ ~ BeginSave(d)  BY DEF Commit, BeginSave
    <3>2. ~ FinishSave(d)  BY <1>1 DEF FinishSave
    <3>3. ~ SaveSnapshot(d)  BY <1>1 DEF SaveSnapshot, IsOpen, Phase
    <3> QED  BY <1>5, <3>1, <3>2, <3>3
  <2> QED  BY <2>1
<1>6. CASE Crash(d) \/ Evict(d)
  <2>1. Moves(Ops, d, NoClient, NoSocket)  BY <1>0, <1>6, CrashEffect, EvictEffect
  <2>2. client'[d].phase = "closed" /\ \A e \in Devices : e # d => client'[e] = client[e]
    BY <1>0, <2>1, MovesAt DEF NoClient
  <2>3. \A e \in Devices : e # d => doc'[e] = doc[e] /\ disk'[e] = disk[e]
    <3>1. CASE Crash(d)
      <4>1. disk' = disk  BY <3>1 DEF Crash
      <4>2. \A e \in Devices : e # d => doc'[e] = doc[e]  BY <1>0, <3>1, CrashEffect
      <4> QED  BY <4>1, <4>2
    <3>2. CASE Evict(d)  BY <1>0, <3>2, EvictEffect
    <3> QED  BY <1>6, <3>1, <3>2
  <2>4. saving' = saving \/ (saving'[d] = {} /\ \A e \in Devices : e # d => saving'[e] = saving[e])
    <3>1. CASE Crash(d)  BY <1>0, <3>1, CrashEffect
    <3>2. CASE Evict(d)  BY <1>0, <3>2, EvictEffect
    <3> QED  BY <1>6, <3>1, <3>2
  <2> QED  BY <1>1, <2>2, <2>3, <2>4
<1> QED  BY <1>2, <1>3, <1>4, <1>5, <1>6 DEF Acts

\* A handle that is evicted ends with its document stored, and so does every process
\* that dies if nobody commits: rows, acks and checkpoints are stored as they come.
THEOREM HandlesEndStored ==
  ASSUME "overlap" \notin FaultKinds, "crash" \notin FaultKinds \/ Committers = {}
  PROVE  Spec => [][StoredAtTheEnd]_vars
<1>1. Init => \A e \in Devices : Settled(e) /\ Stored(e)  BY DEF Init, Settled, Stored, NoClient
<1>2. CASE Committers = {}
  <2>1. ASSUME SyncInv, \A e \in Devices : Settled(e) /\ Stored(e), [Next]_vars
        PROVE  (\A e \in Devices : Settled(e) /\ Stored(e))' /\ [StoredAtTheEnd]_vars
    <3>1. CASE Next
      <4>1. PICK d \in Devices : Acts(d)  BY <3>1, NextIsAnAct
      <4>2. \A e \in Devices : Settled(e)' /\ Stored(e)'  BY <1>2, <2>1, <4>1, StoredStep
      <4>3. StoredAtTheEnd  BY <2>1, <4>1, HandleEnds
      <4> QED  BY <4>2, <4>3
    <3>2. CASE UNCHANGED vars
      <4>1. UNCHANGED <<client, doc, disk, saving>>  BY <3>2 DEF vars
      <4> QED  BY <2>1, <3>2, <4>1 DEF Settled, Stored
    <3> QED  BY <2>1, <3>1, <3>2
  <2>2. SyncInv /\ (\A e \in Devices : Settled(e) /\ Stored(e)) /\ [Next]_vars
          => (\A e \in Devices : Settled(e) /\ Stored(e))' /\ [StoredAtTheEnd]_vars
    BY <2>1
  <2> QED  BY <1>1, <2>2, SyncInvariant, PTL DEF Spec
<1>3. CASE "crash" \notin FaultKinds
  <2>1. ASSUME SyncInv, Next PROVE StoredAtTheEnd
    <3>1. PICK d \in Devices : Acts(d)  BY <2>1, NextIsAnAct
    <3> QED  BY <1>3, <2>1, <3>1, HandleEnds
  <2>2. SyncInv /\ [Next]_vars => [StoredAtTheEnd]_vars  BY <2>1
  <2> QED  BY <2>2, SyncInvariant, PTL DEF Spec
<1> QED  BY <1>2, <1>3

\* A process that dies with its document stored takes nothing with it.
LEMMA RelayInvStays ==
  ASSUME "overlap" \notin FaultKinds, SyncInv, Truth, RelayInv, NEW d \in Devices, Acts(d), StoredAtTheEnd
  PROVE  RelayInv'
<1>0. /\ Shapes(Ops) /\ Basic(Ops) /\ LogInv
      /\ commits[d] < MaxCommits => <<d, commits[d] + 1>> \in Ops
  BY SyncParts
<1>1. \A e \in Devices : Settled(e) /\ Owned(e) /\ Relays(e)  BY DEF RelayInv
<1>2. CASE ~ Crash(d)  BY <1>2, RelayInvStep
<1>3. CASE Crash(d)
  <2>1. /\ Moves(Ops, d, NoClient, NoSocket)
        /\ saving'[d] = {}
        /\ \A e \in Devices : e # d => doc'[e] = doc[e] /\ saving'[e] = saving[e]
    BY <1>0, <1>3, CrashEffect
  <2>2. /\ client'[d].phase = "closed" /\ client[d].phase # "closed" /\ disk' = disk
        /\ \A e \in Devices : e # d => client'[e] = client[e]
    BY <1>0, <1>3, <2>1, MovesAt DEF NoClient, Crash, IsOpen, Phase
  <2>3. disk'[d].doc = doc[d]  BY <2>2 DEF StoredAtTheEnd, IsOpen, Phase
  <2>4. \A e \in Devices : Settled(e)'  BY <1>1, <2>1, <2>2 DEF Settled
  <2>5. \A e \in Devices : Own(e) \subseteq Own(e)'  BY <2>1, <2>2, <2>3 DEF Own
  <2>6. \A e \in Devices : Owned(e)'  BY <1>1, <2>5, OwnedKept
  <2>7. \A e \in Devices : Relays(e)'  BY <1>0, <1>1, <1>3, HandleRelays
  <2> QED  BY <2>4, <2>6, <2>7 DEF RelayInv
<1> QED  BY <1>2, <1>3

-----------------------------------------------------------------------------
(* Gaps.                                                                   *)
(*                                                                         *)
(* Of a device look at its socket s, its client c, its document x and what *)
(* is stored, z.                                                           *)

\* The rows the room still has are held up to n.
HeldTo(x, n) == \A m \in 1 .. headSeq : seqFloor < m /\ m <= n => accepted[m].ops \subseteq x

\* A session between backfills has nothing to catch up on but what is above its cursor,
\* and what a handle will start from is as good.
Resting(c, x, z) ==
  /\ c.phase = "closed" => HeldTo(z.doc, z.cursor)
  /\ c.phase \in {"idle", "hello", "fetch"} => HeldTo(x, c.cursor) /\ HeldTo(x, z.cursor)
  /\ c.phase # "closed" => HeldTo(x, c.base)

\* A backfill asks for all that is missing, and nobody answers before it is asked for.
Asking(s, c, x) ==
  /\ c.phase = "backfill" => \A f \in ToSet(s.up) : f.kind = "rowsReq" => HeldTo(x, f.after)
  /\ c.phase \in {"hello", "fetch"} => s.owes # "rowsDone" /\ ~ Holds(s, "rowsDone")

\* The hub has answered.
Fed(s, c) == c.phase = "steady" \/ (c.phase = "backfill" /\ (s.owes = "rowsDone" \/ Holds(s, "rowsDone")))

Ranked(s, c, z) ==
  Fed(s, c) =>
    /\ InOrder(s.down, c.phase) /\ EventsInOrder(s.bcast)
    /\ \A f \in LiveRows(s.down, c.phase) : f.seq > c.cursor /\ f.seq > z.cursor
    /\ \A v \in ToSet(s.bcast) : v.frame.kind = "row" =>
         /\ v.frame.seq > c.cursor /\ v.frame.seq > z.cursor
         /\ \A f \in ToSet(s.down) : Numbered(f) => f.seq < v.frame.seq

\* A cursor may get as far as row n, or the socket is still being served.
Reached(s, c, z, n) ==
  n <= c.cursor \/ n <= z.cursor \/ s.open \/ \E f \in ToSet(s.down) : Numbered(f) /\ n <= f.seq

Brings(s, n) ==
  \/ \E f \in ToSet(s.down) : f.kind = "row" /\ f.seq = n
  \/ \E v \in ToSet(s.bcast) : v.frame.kind = "row" /\ v.frame.seq = n

Covered(s, c, x, z) ==
  Fed(s, c) =>
    \A n \in 1 .. headSeq : seqFloor < n /\ Reached(s, c, z, n) => accepted[n].ops \subseteq x \/ Brings(s, n)

\* What is stored lacks nothing of the rows its cursor names that the document holds.
StoredWell(c, x, z) ==
  c.phase # "closed" =>
    /\ z.doc \subseteq x
    /\ \A n \in 1 .. headSeq : n <= z.cursor => accepted[n].ops \cap x \subseteq z.doc

NoGap(s, c, x, z) ==
  Resting(c, x, z) /\ Asking(s, c, x) /\ Ranked(s, c, z) /\ Covered(s, c, x, z) /\ StoredWell(c, x, z)

Gapless(d) == NoGap(sock[d], client[d], doc[d], disk[d])

Typed(s, c, z) == s \in Socks(Ops) /\ c \in Clients(Ops) /\ z \in Stores(Ops)

LEMMA HeldToMore ==
  ASSUME LogInv, NEW x, NEW y, NEW n \in Nat, NEW m \in Nat, HeldTo(x, n), x \subseteq y, m <= n \/ m <= seqFloor
  PROVE  HeldTo(y, m)
<1>1. headSeq \in Nat /\ seqFloor \in Nat  BY DEF LogInv, LogTypeOK
<1> SUFFICES ASSUME NEW k \in 1 .. headSeq, seqFloor < k, k <= m PROVE accepted[k].ops \subseteq y  BY DEF HeldTo
<1>2. k <= n  BY <1>1
<1>3. accepted[k].ops \subseteq x  BY <1>2 DEF HeldTo
<1> QED  BY <1>3

LEMMA TypedParts ==
  ASSUME NEW s, NEW c, NEW z, Typed(s, c, z)
  PROVE  /\ c.phase \in Phases /\ c.cursor \in Nat /\ c.base \in Nat /\ c.after \in Nat
         /\ z.cursor \in Nat
         /\ s.open \in BOOLEAN
         /\ s.bcast \in Seq(RoomEvents(Ops)) /\ s.down \in Seq(DownFrames(Ops))
         /\ \A f \in ToSet(s.down) : f \in DownFrames(Ops) /\ (Numbered(f) => f.seq \in Nat)
         /\ \A v \in ToSet(s.bcast) : v \in RoomEvents(Ops) /\ v.frame.seq \in Nat /\ v.frame.kind \in {"row", "ack"}
         /\ \A f \in ToSet(s.up) : f \in UpFrames(Ops) /\ (f.kind = "rowsReq" => f.after \in Nat)
<1>1. s \in Socks(Ops) /\ c \in Clients(Ops) /\ z \in Stores(Ops)  BY DEF Typed
<1>2. c.phase \in Phases /\ c.cursor \in Nat /\ c.base \in Nat /\ c.after \in Nat  BY <1>1, ClientParts
<1>3. z.cursor \in Nat  BY <1>1 DEF Stores
<1>4. s.open \in BOOLEAN /\ s.bcast \in Seq(RoomEvents(Ops)) /\ s.down \in Seq(DownFrames(Ops))  BY <1>1, SockParts
<1>5. /\ ToSet(s.up) \subseteq UpFrames(Ops) /\ ToSet(s.bcast) \subseteq RoomEvents(Ops)
      /\ ToSet(s.down) \subseteq DownFrames(Ops)
  BY <1>1, SockParts
<1>6. \A f \in ToSet(s.down) : f \in DownFrames(Ops) /\ (Numbered(f) => f.seq \in Nat)
  BY <1>5, FrameParts DEF Numbered
<1>7. \A v \in ToSet(s.bcast) : v \in RoomEvents(Ops) /\ v.frame.seq \in Nat /\ v.frame.kind \in {"row", "ack"}
  <2>1. \A v \in RoomEvents(Ops) : v.frame \in DownFrames(Ops) /\ v.frame.kind \in {"row", "ack"}  BY FrameParts
  <2>2. \A f \in DownFrames(Ops) : f.kind \in {"row", "ack"} => f.seq \in Nat  BY FrameParts
  <2> QED  BY <1>5, <2>1, <2>2
<1>8. \A f \in ToSet(s.up) : f \in UpFrames(Ops) /\ (f.kind = "rowsReq" => f.after \in Nat)
  BY <1>5, FrameParts
<1> QED  BY <1>2, <1>3, <1>4, <1>6, <1>7, <1>8

LEMMA DeviceIsTyped ==
  ASSUME Shapes(Ops), NEW d \in Devices
  PROVE  Typed(sock[d], client[d], disk[d])
BY ShapeParts DEF Typed

\* Once a session is steady every row on its way is above its cursor.
LEMMA SteadyIsHeld ==
  ASSUME LogInv, NEW s, NEW c, NEW x, NEW z, Typed(s, c, z), NoGap(s, c, x, z),
         c.phase \in {"idle", "hello", "fetch", "steady"}
  PROVE  HeldTo(x, c.cursor) /\ HeldTo(x, z.cursor)
<1>1. CASE c.phase # "steady"  BY <1>1 DEF NoGap, Resting
<1>2. CASE c.phase = "steady"
  <2>0. s.down \in Seq(DownFrames(Ops)) /\ c.cursor \in Nat /\ z.cursor \in Nat  BY TypedParts
  <2>1. Fed(s, c)  BY <1>2 DEF Fed
  <2>2. \A f \in ToSet(s.down) : f.kind = "row" => f.seq \in Nat /\ f.seq > c.cursor /\ f.seq > z.cursor
    <3>1. \A f \in ToSet(s.down) : f.kind = "row" => f \in LiveRows(s.down, c.phase)  BY <1>2, <2>0, LiveRowsWait
    <3>2. \A f \in LiveRows(s.down, c.phase) : f.seq > c.cursor /\ f.seq > z.cursor  BY <2>1 DEF NoGap, Ranked
    <3>3. \A f \in ToSet(s.down) : f.kind = "row" => f.seq \in Nat  BY TypedParts DEF Numbered
    <3> QED  BY <3>1, <3>2, <3>3
  <2>3. \A v \in ToSet(s.bcast) : v.frame.kind = "row" =>
          v.frame.seq \in Nat /\ v.frame.seq > c.cursor /\ v.frame.seq > z.cursor
    <3>1. \A v \in ToSet(s.bcast) : v.frame.kind = "row" => v.frame.seq > c.cursor /\ v.frame.seq > z.cursor
      BY <2>1 DEF NoGap, Ranked
    <3> QED  BY <3>1, TypedParts
  <2>4. ASSUME NEW n \in Nat, n = c.cursor \/ n = z.cursor PROVE HeldTo(x, n)
    <3> SUFFICES ASSUME NEW m \in 1 .. headSeq, seqFloor < m, m <= n PROVE accepted[m].ops \subseteq x  BY DEF HeldTo
    <3>1. headSeq \in Nat  BY DEF LogInv, LogTypeOK
    <3>2. Reached(s, c, z, m)  BY <2>4, <3>1 DEF Reached
    <3>3. accepted[m].ops \subseteq x \/ Brings(s, m)  BY <2>1, <3>2 DEF NoGap, Covered
    <3>4. ~ Brings(s, m)
      <4>1. ASSUME NEW k \in Nat, k = m, k > c.cursor, k > z.cursor PROVE FALSE  BY <2>0, <2>4, <3>1, <4>1
      <4> QED  BY <2>2, <2>3, <4>1 DEF Brings
    <3> QED  BY <3>3, <3>4
  <2> QED  BY <2>0, <2>4
<1> QED  BY <1>1, <1>2

\* A checkpoint that raises the floor leaves no gap.
LEMMA NoGapLasts ==
  ASSUME LogInv, LogInv', LogGrows, headSeq' = headSeq, NEW s, NEW c, NEW x, NEW z, NoGap(s, c, x, z)
  PROVE  NoGap(s, c, x, z)'
<1>1. /\ headSeq \in Nat /\ seqFloor \in Nat /\ seqFloor' \in Nat /\ seqFloor' >= seqFloor
      /\ \A m \in 1 .. headSeq : accepted'[m] = accepted[m]
  BY DEF LogInv, LogTypeOK, LogGrows
<1>2. \A m \in 1 .. headSeq : seqFloor' < m => seqFloor < m  BY <1>1
<1>3. ASSUME NEW y, NEW n, HeldTo(y, n) PROVE HeldTo(y, n)'  BY <1>1, <1>2, <1>3 DEF HeldTo
<1>4. Resting(c, x, z)'  BY <1>3 DEF NoGap, Resting
<1>5. Asking(s, c, x)'  BY <1>3 DEF NoGap, Asking, Holds, ToSet
<1>6. Ranked(s, c, z)'
  BY DEF NoGap, Ranked, Fed, Holds, ToSet, InOrder, EventsInOrder, LiveRows, Live, Numbered
<1>7. Covered(s, c, x, z)'
  <2>1. Covered(s, c, x, z)  BY DEF NoGap
  <2>2. ASSUME Fed(s, c), NEW n \in 1 .. headSeq, seqFloor' < n, Reached(s, c, z, n)
        PROVE  accepted'[n].ops \subseteq x \/ Brings(s, n)
    BY <1>1, <1>2, <2>1, <2>2 DEF Covered
  <2> QED  BY <1>1, <2>2 DEF Covered, Fed, Reached, Brings, Holds, ToSet, Numbered
<1>8. StoredWell(c, x, z)'  BY <1>1 DEF NoGap, StoredWell
<1> QED  BY <1>4, <1>5, <1>6, <1>7, <1>8 DEF NoGap

LEMMA GaplessBecomes ==
  ASSUME NEW d \in Devices, NEW s, NEW c, NEW x, NEW z, s = sock'[d], c = client'[d], x = doc'[d], z = disk'[d],
         NoGap(s, c, x, z)'
  PROVE  Gapless(d)'
BY DEF Gapless, NoGap, Resting, Asking, Ranked, Covered, StoredWell, HeldTo, Fed, Reached, Brings, Holds,
                ToSet, InOrder, EventsInOrder, LiveRows, Live, Numbered

LEMMA LogStays ==
  ASSUME LogInv, UNCHANGED logVars
  PROVE  LogInv' /\ LogGrows /\ headSeq' = headSeq
BY DEF LogInv, LogTypeOK, LogIsSuffix, RowsAreHistory, BatchIsUnique, PrunedIsCovered, logVars, LogGrows

\* A step of one device, or of its connection.
LEMMA NoGapMoves ==
  ASSUME LogInv, LogInv', LogGrows, headSeq' = headSeq, NEW d \in Devices,
         NEW s, NEW c, NEW x, NEW z, s = sock'[d], c = client'[d], x = doc'[d], z = disk'[d], NoGap(s, c, x, z),
         \A e \in Devices : e # d =>
           sock'[e] = sock[e] /\ client'[e] = client[e] /\ doc'[e] = doc[e] /\ disk'[e] = disk[e],
         \A e \in Devices : Gapless(e)
  PROVE  \A e \in Devices : Gapless(e)'
<1>1. NoGap(s, c, x, z)'  BY NoGapLasts
<1>2. Gapless(d)'  BY <1>1, GaplessBecomes
<1>3. ASSUME NEW e \in Devices, e # d PROVE Gapless(e)'
  <2>1. PICK o, b, y, w : o = sock[e] /\ b = client[e] /\ y = doc[e] /\ w = disk[e]  OBVIOUS
  <2>2. NoGap(o, b, y, w)  BY <2>1 DEF Gapless
  <2>3. NoGap(o, b, y, w)'  BY <2>2, NoGapLasts
  <2>4. o = sock'[e] /\ b = client'[e] /\ y = doc'[e] /\ w = disk'[e]  BY <1>3, <2>1
  <2> QED  BY <2>3, <2>4, GaplessBecomes
<1> QED  BY <1>2, <1>3

\* A row or an ack is taken: the cursor rises past it, and past nothing that is still
\* on its way.
LEMMA NumberedIsTaken ==
  ASSUME LogInv, NEW o, NEW b, NEW y, NEW w, Typed(o, b, w), NoGap(o, b, y, w),
         NEW s, NEW c, NEW x, NEW z,
         o.down # <<>>, NEW f, f = Head(o.down), Numbered(f), TrueFrame(f),
         s.down = Tail(o.down), s.bcast = o.bcast, s.owes = o.owes, s.open = o.open,
         ToSet(s.up) \subseteq ToSet(o.up),
         b.phase \in {"backfill", "steady"}, c.phase = b.phase, c.base = b.base,
         c.cursor = Greater(b.cursor, f.seq), z.cursor \in {f.seq, c.cursor},
         x = y \cup (IF f.kind = "row" THEN f.ops ELSE {}), z.doc = x
  PROVE  NoGap(s, c, x, z)
<1>1. /\ b.cursor \in Nat /\ w.cursor \in Nat /\ o.down \in Seq(DownFrames(Ops))
      /\ \A g \in ToSet(o.down) : Numbered(g) => g.seq \in Nat
      /\ \A v \in ToSet(o.bcast) : v.frame.seq \in Nat
  BY TypedParts
<1>2. ToSet(o.down) = {f} \cup ToSet(s.down) /\ f.seq \in Nat  BY <1>1, ToSetOfTail
<1>3. c.cursor \in Nat /\ c.cursor \in {b.cursor, f.seq} /\ z.cursor \in {b.cursor, f.seq}
  BY <1>1, <1>2, GreaterIsANumber
<1>4. y \subseteq x  OBVIOUS
<1>5. Fed(s, c) => Fed(o, b)  BY <1>2 DEF Fed, Holds
<1>6. Resting(c, x, z)
  <2>1. HeldTo(y, b.base)  BY DEF NoGap, Resting
  <2>2. HeldTo(x, c.base)  BY <1>4, <2>1 DEF HeldTo
  <2> QED  BY <2>2 DEF Resting
<1>7. Asking(s, c, x)
  <2>1. ASSUME c.phase = "backfill", NEW r \in ToSet(s.up), r.kind = "rowsReq" PROVE HeldTo(x, r.after)
    <3>1. HeldTo(y, r.after)  BY <2>1 DEF NoGap, Asking
    <3> QED  BY <1>4, <3>1 DEF HeldTo
  <2> QED  BY <2>1 DEF Asking
<1>8. ASSUME Fed(s, c)
      PROVE  /\ InOrder(s.down, c.phase) /\ EventsInOrder(s.bcast)
             /\ \A g \in LiveRows(s.down, c.phase) : g.seq > c.cursor /\ g.seq > z.cursor
             /\ \A v \in ToSet(s.bcast) : v.frame.kind = "row" =>
                  /\ v.frame.seq > c.cursor /\ v.frame.seq > z.cursor
                  /\ \A g \in ToSet(s.down) : Numbered(g) => g.seq < v.frame.seq
  <2>1. /\ InOrder(o.down, b.phase) /\ EventsInOrder(o.bcast)
        /\ \A g \in LiveRows(o.down, b.phase) : g.seq > b.cursor
        /\ \A v \in ToSet(o.bcast) : v.frame.kind = "row" =>
             v.frame.seq > b.cursor /\ \A g \in ToSet(o.down) : Numbered(g) => g.seq < v.frame.seq
    BY <1>5, <1>8 DEF NoGap, Ranked
  <2>2. /\ InOrder(s.down, c.phase) /\ LiveRows(s.down, c.phase) \subseteq LiveRows(o.down, b.phase)
        /\ \A g \in LiveRows(s.down, c.phase) : f.seq < g.seq
    BY <1>1, <2>1, OrderOfTail
  <2>3. ASSUME NEW g \in LiveRows(s.down, c.phase) PROVE g.seq > c.cursor /\ g.seq > z.cursor
    <3>1. g \in ToSet(o.down) /\ g.kind = "row"  BY <1>1, <2>2, LiveRowsWait
    <3>2. g.seq \in Nat  BY <1>1, <3>1 DEF Numbered
    <3>3. f.seq < g.seq /\ g.seq > b.cursor  BY <2>1, <2>2
    <3> QED  BY <1>1, <1>2, <1>3, <3>2, <3>3
  <2>4. ASSUME NEW v \in ToSet(s.bcast), v.frame.kind = "row"
        PROVE  /\ v.frame.seq > c.cursor /\ v.frame.seq > z.cursor
               /\ \A g \in ToSet(s.down) : Numbered(g) => g.seq < v.frame.seq
    <3>1. v.frame.seq > b.cursor /\ \A g \in ToSet(o.down) : Numbered(g) => g.seq < v.frame.seq  BY <2>1, <2>4
    <3>2. f.seq < v.frame.seq /\ v.frame.seq \in Nat  BY <1>1, <1>2, <2>4, <3>1
    <3>3. v.frame.seq > c.cursor /\ v.frame.seq > z.cursor  BY <1>1, <1>2, <1>3, <3>1, <3>2
    <3> QED  BY <1>2, <3>1, <3>3
  <2> QED  BY <2>1, <2>2, <2>3, <2>4
<1>9. Ranked(s, c, z)  BY <1>8 DEF Ranked
<1>10. Covered(s, c, x, z)
  <2> SUFFICES ASSUME Fed(s, c), NEW n \in 1 .. headSeq, seqFloor < n, Reached(s, c, z, n)
               PROVE  accepted[n].ops \subseteq x \/ Brings(s, n)
    BY DEF Covered
  <2>1. Reached(o, b, w, n)
    <3>1. CASE s.open \/ \E g \in ToSet(s.down) : Numbered(g) /\ n <= g.seq  BY <1>2, <3>1 DEF Reached
    <3>2. CASE n <= c.cursor \/ n <= z.cursor
      <4>1. n <= b.cursor \/ n <= f.seq  BY <1>3, <3>2
      <4> QED  BY <1>2, <4>1 DEF Reached
    <3> QED  BY <3>1, <3>2 DEF Reached
  <2>2. accepted[n].ops \subseteq y \/ Brings(o, n)  BY <1>5, <2>1 DEF NoGap, Covered
  <2>3. CASE accepted[n].ops \subseteq y  BY <1>4, <2>3
  <2>4. CASE Brings(o, n)
    <3>1. CASE f.kind = "row" /\ f.seq = n  BY <3>1 DEF TrueFrame
    <3>2. CASE ~ (f.kind = "row" /\ f.seq = n)  BY <1>2, <2>4, <3>2 DEF Brings
    <3> QED  BY <3>1, <3>2
  <2> QED  BY <2>2, <2>3, <2>4
<1>11. StoredWell(c, x, z)  BY DEF StoredWell
<1> QED  BY <1>6, <1>7, <1>9, <1>10, <1>11 DEF NoGap

\* The end of a backfill is taken: what comes behind it is live.
LEMMA DoneIsTaken ==
  ASSUME LogInv, NEW o, NEW b, NEW y, NEW w, Typed(o, b, w), NoGap(o, b, y, w),
         NEW s, NEW c,
         o.down # <<>>, NEW f, f = Head(o.down), f.kind = "rowsDone",
         s.down = Tail(o.down), s.bcast = o.bcast, s.open = o.open,
         b.phase = "backfill", c.phase = "steady", c.base = b.base, c.cursor = b.cursor
  PROVE  NoGap(s, c, y, w)
<1>1. o.down \in Seq(DownFrames(Ops))  BY TypedParts
<1>2. ToSet(o.down) = {f} \cup ToSet(s.down)  BY <1>1, ToSetOfTail
<1>3. Fed(o, b)  BY <1>2 DEF Fed, Holds
<1>4. Resting(c, y, w)  BY DEF NoGap, Resting
<1>5. Asking(s, c, y)  BY DEF Asking
<1>6. Ranked(s, c, w)
  <2>1. /\ InOrder(o.down, b.phase) /\ EventsInOrder(o.bcast)
        /\ \A g \in LiveRows(o.down, b.phase) : g.seq > b.cursor /\ g.seq > w.cursor
        /\ \A v \in ToSet(o.bcast) : v.frame.kind = "row" =>
             /\ v.frame.seq > b.cursor /\ v.frame.seq > w.cursor
             /\ \A g \in ToSet(o.down) : Numbered(g) => g.seq < v.frame.seq
    BY <1>3 DEF NoGap, Ranked
  <2>2. InOrder(s.down, c.phase) /\ LiveRows(s.down, c.phase) \subseteq LiveRows(o.down, b.phase)
    BY <1>1, <2>1, OrderOfTail
  <2> QED  BY <1>2, <2>1, <2>2 DEF Ranked
<1>7. Covered(s, c, y, w)
  <2> SUFFICES ASSUME NEW n \in 1 .. headSeq, seqFloor < n, Reached(s, c, w, n)
               PROVE  accepted[n].ops \subseteq y \/ Brings(s, n)
    BY DEF Covered
  <2>1. Reached(o, b, w, n)  BY <1>2 DEF Reached
  <2>2. accepted[n].ops \subseteq y \/ Brings(o, n)  BY <1>3, <2>1 DEF NoGap, Covered
  <2>3. Brings(o, n) => Brings(s, n)  BY <1>2 DEF Brings
  <2> QED  BY <2>2, <2>3
<1>8. StoredWell(c, y, w)  BY DEF NoGap, StoredWell
<1> QED  BY <1>4, <1>5, <1>6, <1>7, <1>8 DEF NoGap

\* Nothing is taken, and the document does not shrink.
LEMMA NoGapKeeps ==
  ASSUME NEW o, NEW b, NEW y, NEW w, NoGap(o, b, y, w), NEW s, NEW c, NEW x, NEW z,
         s.down = o.down, s.bcast = o.bcast, s.owes = o.owes, s.open = o.open,
         c.phase = "backfill" => ToSet(s.up) \subseteq ToSet(o.up),
         c.phase = b.phase, c.phase # "closed", c.base = b.base, c.cursor = b.cursor,
         y \subseteq x, z.cursor = w.cursor, StoredWell(c, x, z)
  PROVE  NoGap(s, c, x, z)
<1>1. \A n : HeldTo(y, n) => HeldTo(x, n)  BY DEF HeldTo
<1>2. Resting(c, x, z)  BY <1>1 DEF NoGap, Resting
<1>3. Asking(s, c, x)  BY <1>1 DEF NoGap, Asking, Holds
<1>4. Fed(s, c) => Fed(o, b)  BY DEF Fed, Holds
<1>5. Ranked(s, c, z)  BY <1>4 DEF NoGap, Ranked
<1>6. Covered(s, c, x, z)
  <2> SUFFICES ASSUME Fed(s, c), NEW n \in 1 .. headSeq, seqFloor < n, Reached(s, c, z, n)
               PROVE  accepted[n].ops \subseteq x \/ Brings(s, n)
    BY DEF Covered
  <2>1. Reached(o, b, w, n)  BY DEF Reached
  <2>2. accepted[n].ops \subseteq y \/ Brings(o, n)  BY <1>4, <2>1 DEF NoGap, Covered
  <2>3. Brings(o, n) => Brings(s, n)  BY DEF Brings
  <2> QED  BY <2>2, <2>3
<1> QED  BY <1>2, <1>3, <1>5, <1>6 DEF NoGap

\* A client that waits for an answer, or waits to ask.
LEMMA NoGapUnfed ==
  ASSUME NEW s, NEW c, NEW x, NEW z, ~ Fed(s, c), Resting(c, x, z), Asking(s, c, x), StoredWell(c, x, z)
  PROVE  NoGap(s, c, x, z)
BY DEF NoGap, Ranked, Covered

LEMMA TookTail ==
  ASSUME Shapes(Ops), NEW d \in Devices, NEW kind, NEW sent, Inbound(d, kind), Consume(d, sent)
  PROVE  sock'[d].down = Tail(sock[d].down) /\ sock[d].down # <<>> /\ Frame(d) = Head(sock[d].down)
BY DEF Shapes, Socks, Inbound, Consume, Frame

LEMMA TookUp ==
  ASSUME NEW d \in Devices, NEW kind, NEW s, Took(Ops, d, kind, <<>>, s)
  PROVE  ToSet(s.up) = ToSet(sock[d].up)
<1>1. ToSet(<<>>) = {}  BY DEF ToSet
<1> QED  BY <1>1 DEF Took

\* The frames that move a cursor.
LEMMA StreamNoGap ==
  ASSUME Shapes(Ops), LogInv, NEW d \in Devices, ReceiveRow(d) \/ ReceiveAck(d), TrueTo(d),
         \A e \in Devices : Gapless(e)
  PROVE  \A e \in Devices : Gapless(e)'
<1>0. PICK o, b, y, w : o = sock[d] /\ b = client[d] /\ y = doc[d] /\ w = disk[d]  OBVIOUS
<1>1. Typed(o, b, w) /\ NoGap(o, b, y, w)  BY <1>0, DeviceIsTyped DEF Gapless
<1>2. UNCHANGED logVars  BY DEF ReceiveRow, ReceiveAck
<1>3. LogInv' /\ LogGrows /\ headSeq' = headSeq  BY <1>2, LogStays
<1>4. CASE ReceiveRow(d)
  <2>1. PICK c, s :
           /\ Moves(Ops, d, c, s) /\ Shapes(Ops)'
           /\ Took(Ops, d, "row", <<>>, s)
           /\ client[d].phase \in {"backfill", "steady"} /\ c.phase = client[d].phase
           /\ c.cursor = Greater(client[d].cursor, Frame(d).seq) /\ c.after = client[d].after
           /\ c.base = client[d].base /\ c.joined = client[d].joined /\ c.pending = client[d].pending
           /\ doc'[d] = doc[d] \cup Frame(d).ops
           /\ disk'[d].doc = doc'[d] /\ disk'[d].cursor = Frame(d).seq
           /\ \A e \in Devices : e # d => doc'[e] = doc[e] /\ disk'[e] = disk[e]
    BY <1>4, ReceiveRowEffect
  <2>2. /\ client'[d] = c /\ sock'[d] = s
        /\ \A e \in Devices : e # d => client'[e] = client[e] /\ sock'[e] = sock[e]
    BY <2>1, MovesAt
  <2>3. PICK f, x, z : f = Frame(d) /\ x = doc'[d] /\ z = disk'[d]  OBVIOUS
  <2>4. f = Head(o.down) /\ s.down = Tail(o.down) /\ o.down # <<>>  BY <1>0, <1>4, <2>2, <2>3, TookTail DEF ReceiveRow
  <2>5. f.kind = "row" /\ TrueFrame(f) /\ Numbered(f)  BY <2>1, <2>3, TookIsTrue DEF Numbered
  <2>6. ToSet(s.up) = ToSet(o.up) /\ s.bcast = o.bcast /\ s.owes = o.owes /\ s.open = o.open
    BY <1>0, <2>1, TookUp DEF Took
  <2>7. NoGap(s, c, x, z)
    <3>1. x = y \cup (IF f.kind = "row" THEN f.ops ELSE {}) /\ z.doc = x /\ z.cursor = f.seq
      BY <1>0, <2>1, <2>3, <2>5
    <3>2. /\ b.phase \in {"backfill", "steady"} /\ c.phase = b.phase /\ c.base = b.base
          /\ c.cursor = Greater(b.cursor, f.seq)
      BY <1>0, <2>1, <2>3
    <3> QED  BY <1>1, <2>4, <2>5, <2>6, <3>1, <3>2, NumberedIsTaken
  <2> QED  BY <1>3, <2>1, <2>2, <2>3, <2>7, NoGapMoves
<1>5. CASE ReceiveAck(d)
  <2>0. doc' = doc  BY <1>5 DEF ReceiveAck
  <2>1. PICK c, s :
           /\ Moves(Ops, d, c, s) /\ Shapes(Ops)'
           /\ Took(Ops, d, "ack", <<>>, s)
           /\ client[d].phase \in {"backfill", "steady"} /\ c.phase = client[d].phase
           /\ c.cursor = Greater(client[d].cursor, Frame(d).seq) /\ c.after = client[d].after
           /\ c.base = client[d].base /\ c.joined = client[d].joined
           /\ ToSet(c.pending) = {q \in ToSet(client[d].pending) : q.id # Frame(d).id}
           /\ disk'[d].doc = doc[d] /\ disk'[d].cursor = c.cursor
           /\ \A e \in Devices : e # d => disk'[e] = disk[e]
    BY <1>5, ReceiveAckEffect
  <2>2. /\ client'[d] = c /\ sock'[d] = s
        /\ \A e \in Devices : e # d => client'[e] = client[e] /\ sock'[e] = sock[e]
    BY <2>1, MovesAt
  <2>3. PICK f, z : f = Frame(d) /\ z = disk'[d]  OBVIOUS
  <2>4. f = Head(o.down) /\ s.down = Tail(o.down) /\ o.down # <<>>  BY <1>0, <1>5, <2>2, <2>3, TookTail DEF ReceiveAck
  <2>5. f.kind = "ack" /\ TrueFrame(f) /\ Numbered(f)  BY <2>1, <2>3, TookIsTrue DEF Numbered
  <2>6. ToSet(s.up) = ToSet(o.up) /\ s.bcast = o.bcast /\ s.owes = o.owes /\ s.open = o.open
    BY <1>0, <2>1, TookUp DEF Took
  <2>7. NoGap(s, c, y, z)
    <3>1. y = y \cup (IF f.kind = "row" THEN f.ops ELSE {}) /\ z.doc = y /\ z.cursor = c.cursor
      BY <1>0, <2>1, <2>3, <2>5
    <3>2. /\ b.phase \in {"backfill", "steady"} /\ c.phase = b.phase /\ c.base = b.base
          /\ c.cursor = Greater(b.cursor, f.seq)
      BY <1>0, <2>1, <2>3
    <3> QED  BY <1>1, <2>4, <2>5, <2>6, <3>1, <3>2, NumberedIsTaken
  <2>8. y = doc'[d] /\ \A e \in Devices : e # d => doc'[e] = doc[e]  BY <1>0, <2>0
  <2> QED  BY <1>3, <2>1, <2>2, <2>3, <2>7, <2>8, NoGapMoves
<1> QED  BY <1>4, <1>5

LEMMA RequestHeld ==
  ASSUME NEW o, NEW b, NEW s, NEW c, NEW x, NEW n, NEW j, NEW own,
         Talking(o, b), SockTrue(o), b.phase \in {"hello", "fetch"}, HeldTo(x, n), j = RowsReq(n, own),
         ToSet(s.up) \subseteq ToSet(o.up) \cup {j}, c.phase = "backfill"
  PROVE  Asking(s, c, x)
<1>1. \A f \in ToSet(o.up) : f.kind # "rowsReq"
  <2>1. CASE o.open
    <3>1. ToSet(o.up) \subseteq {Hello}  BY <2>1 DEF Talking
    <3> QED  BY <3>1 DEF Hello
  <2>2. CASE ~ o.open  BY <2>2 DEF SockTrue
  <2> QED  BY <2>1, <2>2
<1>2. j.after = n  BY DEF RowsReq
<1> QED  BY <1>1, <1>2 DEF Asking

LEMMA CatchUpNoGap ==
  ASSUME Shapes(Ops), LogInv, NEW d \in Devices, ReceiveState(d) \/ FetchCheckpoint(d), TrueTo(d), Relays(d),
         \A e \in Devices : Gapless(e)
  PROVE  \A e \in Devices : Gapless(e)'
<1>0. PICK o, b, y, w : o = sock[d] /\ b = client[d] /\ y = doc[d] /\ w = disk[d]  OBVIOUS
<1>1. /\ Typed(o, b, w) /\ NoGap(o, b, y, w) /\ Talking(o, b) /\ SockTrue(o) /\ ClientTrue(b)
      /\ seqFloor \in Nat
  BY <1>0, DeviceIsTyped DEF Gapless, Relays, TrueTo, LogInv, LogTypeOK
<1>2. UNCHANGED logVars  BY DEF ReceiveState, FetchCheckpoint
<1>3. LogInv' /\ LogGrows /\ headSeq' = headSeq  BY <1>2, LogStays
<1>00. b.cursor \in Nat /\ b.after \in Nat /\ w.cursor \in Nat  BY <1>1, TypedParts
<1>4. CASE ReceiveState(d)
  <2>0. UNCHANGED <<doc, disk>>  BY <1>4 DEF ReceiveState
  <2>1. PICK c, s :
           /\ Moves(Ops, d, c, s) /\ Shapes(Ops)'
           /\ client[d].phase = "hello" /\ c.phase # "closed"
           /\ c.base = client[d].base /\ c.joined = client[d].joined /\ c.pending = client[d].pending
           /\ \/ /\ c.phase = "backfill" /\ c.after = client[d].after
                 /\ LET after == RowsOnlyAfter(d, Frame(d))
                    IN  /\ c.cursor = IF after < client[d].cursor THEN after ELSE client[d].cursor
                        /\ Took(Ops, d, "state", <<RowsReq(after, client[d].joined)>>, s)
                        /\ after \in Nat
                        /\ after <= client[d].cursor \/ after = Frame(d).stats.ckptSeq
              \/ /\ c.phase = "fetch" /\ c.after = Frame(d).stats.ckptSeq /\ c.cursor = client[d].cursor
                 /\ Took(Ops, d, "state", <<>>, s)
    BY <1>4, ReceiveStateEffect
  <2>2. /\ client'[d] = c /\ sock'[d] = s
        /\ \A e \in Devices : e # d => client'[e] = client[e] /\ sock'[e] = sock[e]
    BY <2>1, MovesAt
  <2>3. PICK sent : Took(Ops, d, "state", sent, s)  BY <2>1
  <2>4. s.owes = o.owes /\ \A k : Holds(s, k) => Holds(o, k)  BY <1>0, <2>3, TookBrings
  <2>5. s.owes # "rowsDone" /\ ~ Holds(s, "rowsDone")  BY <1>0, <1>1, <2>1, <2>4 DEF NoGap, Asking
  <2>6. HeldTo(y, b.cursor) /\ HeldTo(y, w.cursor) /\ HeldTo(y, b.base)
    BY <1>0, <1>1, <2>1 DEF NoGap, Resting
  <2>7. StoredWell(c, y, w)  BY <1>0, <1>1, <2>1 DEF NoGap, StoredWell
  <2>8. ~ Fed(s, c)  BY <2>1, <2>5 DEF Fed
  <2>9. CASE c.phase = "backfill"
    <3>0. PICK n : n = RowsOnlyAfter(d, Frame(d))  OBVIOUS
    <3>1. /\ Took(Ops, d, "state", <<RowsReq(n, client[d].joined)>>, s)
          /\ n \in Nat
          /\ n <= client[d].cursor \/ n = Frame(d).stats.ckptSeq
      <4>1. c.phase # "fetch"  BY <2>9
      <4> QED  BY <2>1, <3>0, <4>1
    <3>2. HeldTo(y, n)
      <4>1. TrueFrame(Frame(d)) /\ Frame(d).kind = "state"  BY <2>3, TookIsTrue
      <4>2. n <= b.cursor \/ n <= seqFloor  BY <1>0, <3>1, <4>1 DEF TrueFrame
      <4> QED  BY <1>00, <2>6, <3>1, <4>2, HeldToMore
    <3>3. PICK j : j = RowsReq(n, client[d].joined)  OBVIOUS
    <3>4. ToSet(s.up) \subseteq ToSet(o.up) \cup {j}
      <4>1. ToSet(<<j>>) = {j}  BY ToSetOfOne
      <4>2. Took(Ops, d, "state", <<j>>, s)  BY <3>1, <3>3
      <4> QED  BY <1>0, <4>1, <4>2 DEF Took
    <3>5. Asking(s, c, y)  BY <1>0, <1>1, <2>1, <2>9, <3>2, <3>3, <3>4, RequestHeld
    <3>6. Resting(c, y, w)  BY <1>0, <2>1, <2>6, <2>9 DEF Resting
    <3>7. NoGap(s, c, y, w)  BY <2>7, <2>8, <3>5, <3>6, NoGapUnfed
    <3> QED  BY <1>0, <1>3, <2>0, <2>2, <3>7, NoGapMoves
  <2>10. CASE c.phase = "fetch"
    <3>1. c.cursor = b.cursor  BY <1>0, <2>1, <2>10
    <3>2. Resting(c, y, w)  BY <1>0, <2>1, <2>6, <2>10, <3>1 DEF Resting
    <3>3. Asking(s, c, y)  BY <2>5, <2>10 DEF Asking
    <3>4. NoGap(s, c, y, w)  BY <2>7, <2>8, <3>2, <3>3, NoGapUnfed
    <3> QED  BY <1>0, <1>3, <2>0, <2>2, <3>4, NoGapMoves
  <2> QED  BY <2>1, <2>9, <2>10
<1>5. CASE FetchCheckpoint(d)
  <2>1. PICK c, s :
           /\ Moves(Ops, d, c, s) /\ Shapes(Ops)'
           /\ client[d].phase = "fetch" /\ c.phase = "backfill"
           /\ c.cursor = client[d].after /\ c.after = client[d].after
           /\ c.base = client[d].base /\ c.joined = client[d].joined /\ c.pending = client[d].pending
           /\ Wrote(Ops, d, <<RowsReq(client[d].after, client[d].joined)>>, s)
           /\ doc'[d] = doc[d] \cup checkpoint.ops
           /\ disk'[d].doc = doc'[d] /\ disk'[d].cursor = client[d].after
           /\ \A e \in Devices : e # d => doc'[e] = doc[e] /\ disk'[e] = disk[e]
    BY <1>5, FetchCheckpointEffect
  <2>2. /\ client'[d] = c /\ sock'[d] = s
        /\ \A e \in Devices : e # d => client'[e] = client[e] /\ sock'[e] = sock[e]
    BY <2>1, MovesAt
  <2>3. PICK x, z : x = doc'[d] /\ z = disk'[d]  OBVIOUS
  <2>4. s.owes = o.owes /\ s.down = o.down  BY <1>0, <2>1 DEF Wrote
  <2>5. ~ Fed(s, c)
    <3>1. o.owes # "rowsDone" /\ ~ Holds(o, "rowsDone")  BY <1>0, <1>1, <2>1 DEF NoGap, Asking
    <3> QED  BY <2>1, <2>4, <3>1 DEF Fed, Holds
  <2>6. StoredWell(c, x, z)  BY <2>1, <2>3 DEF StoredWell
  <2>7. y \subseteq x  BY <1>0, <2>1, <2>3
  <2>8. Resting(c, x, z)
    <3>1. HeldTo(y, b.base)  BY <1>0, <1>1, <2>1 DEF NoGap, Resting
    <3>2. HeldTo(x, c.base)  BY <1>0, <2>1, <2>7, <3>1 DEF HeldTo
    <3> QED  BY <2>1, <3>2 DEF Resting
  <2>9. Asking(s, c, x)
    <3>1. b.after <= seqFloor  BY <1>1 DEF ClientTrue
    <3>2. HeldTo(x, b.after)
      <4>1. headSeq \in Nat  BY DEF LogInv, LogTypeOK
      <4> QED  BY <1>00, <1>1, <3>1, <4>1 DEF HeldTo
    <3>3. PICK j : j = RowsReq(b.after, b.joined)  OBVIOUS
    <3>4. ToSet(s.up) \subseteq ToSet(o.up) \cup {j}
      <4>1. ToSet(<<j>>) = {j}  BY ToSetOfOne
      <4> QED  BY <1>0, <2>1, <3>3, <4>1 DEF Wrote
    <3> QED  BY <1>0, <1>1, <2>1, <3>2, <3>3, <3>4, RequestHeld
  <2>10. NoGap(s, c, x, z)  BY <2>5, <2>6, <2>8, <2>9, NoGapUnfed
  <2> QED  BY <1>3, <2>1, <2>2, <2>3, <2>10, NoGapMoves
<1> QED  BY <1>4, <1>5

LEMMA SteadyNoGap ==
  ASSUME Shapes(Ops), LogInv, NEW d \in Devices, ReceiveRowsDone(d) \/ PushPending(d),
         \A e \in Devices : Gapless(e)
  PROVE  \A e \in Devices : Gapless(e)'
<1>0. PICK o, b, y, w : o = sock[d] /\ b = client[d] /\ y = doc[d] /\ w = disk[d]  OBVIOUS
<1>1. Typed(o, b, w) /\ NoGap(o, b, y, w)  BY <1>0, DeviceIsTyped DEF Gapless
<1>2. UNCHANGED <<logVars, doc, disk>>  BY DEF ReceiveRowsDone, PushPending
<1>3. LogInv' /\ LogGrows /\ headSeq' = headSeq  BY <1>2, LogStays
<1>4. CASE ReceiveRowsDone(d)
  <2>1. PICK c, s, sent :
           /\ Moves(Ops, d, c, s) /\ Shapes(Ops)'
           /\ sent \in Seq(UpFrames(Ops)) /\ ToSet(sent) \subseteq {Push(q) : q \in ToSet(client[d].pending)}
           /\ Took(Ops, d, "rowsDone", sent, s)
           /\ client[d].phase = "backfill" /\ c.phase = "steady"
           /\ c.cursor = client[d].cursor /\ c.after = client[d].after
           /\ c.base = client[d].base
    BY <1>4, ReceiveRowsDoneEffect
  <2>2. /\ client'[d] = c /\ sock'[d] = s
        /\ \A e \in Devices : e # d => client'[e] = client[e] /\ sock'[e] = sock[e]
    BY <2>1, MovesAt
  <2>3. PICK f : f = Frame(d)  OBVIOUS
  <2>4. f = Head(o.down) /\ s.down = Tail(o.down) /\ o.down # <<>>
    BY <1>0, <1>4, <2>2, <2>3, TookTail DEF ReceiveRowsDone
  <2>5. f.kind = "rowsDone" /\ s.bcast = o.bcast /\ s.open = o.open  BY <1>0, <2>1, <2>3 DEF Took
  <2>6. NoGap(s, c, y, w)  BY <1>0, <1>1, <2>1, <2>4, <2>5, DoneIsTaken
  <2> QED  BY <1>0, <1>2, <1>3, <2>2, <2>6, NoGapMoves
<1>5. CASE PushPending(d)
  <2>1. PICK c, s :
           /\ Moves(Ops, d, c, s) /\ Shapes(Ops)'
           /\ Wrote(Ops, d, PushAll(d), s)
           /\ ToSet(PushAll(d)) = {Push(q) : q \in ToSet(client[d].pending)}
           /\ client[d].phase = "steady" /\ c.phase = "steady"
           /\ c.cursor = client[d].cursor /\ c.after = client[d].after
           /\ c.base = client[d].base
    BY <1>5, PushPendingEffect
  <2>2. /\ client'[d] = c /\ sock'[d] = s
        /\ \A e \in Devices : e # d => client'[e] = client[e] /\ sock'[e] = sock[e]
    BY <2>1, MovesAt
  <2>3. s.down = o.down /\ s.bcast = o.bcast /\ s.owes = o.owes /\ s.open = o.open  BY <1>0, <2>1 DEF Wrote
  <2>4. c.phase = b.phase /\ c.phase = "steady" /\ c.base = b.base /\ c.cursor = b.cursor  BY <1>0, <2>1
  <2>5. StoredWell(c, y, w)  BY <1>1, <2>4 DEF NoGap, StoredWell
  <2>6. NoGap(s, c, y, w)  BY <1>1, <2>3, <2>4, <2>5, NoGapKeeps
  <2> QED  BY <1>0, <1>2, <1>3, <2>2, <2>6, NoGapMoves
<1> QED  BY <1>4, <1>5

\* The end of a session, and the start of the next one.
LEMMA RedialNoGap ==
  ASSUME Shapes(Ops), LogInv, NEW d \in Devices, SeeClose(d) \/ Cut(d) \/ Dial(d), faults' \in Nat, BackfillsEnd,
         \A e \in Devices : Gapless(e)
  PROVE  \A e \in Devices : Gapless(e)'
<1>0. PICK o, b, y, w : o = sock[d] /\ b = client[d] /\ y = doc[d] /\ w = disk[d]  OBVIOUS
<1>1. Typed(o, b, w) /\ NoGap(o, b, y, w)  BY <1>0, DeviceIsTyped DEF Gapless
<1>00. b.phase \in Phases  BY <1>1, TypedParts
<1>2. UNCHANGED <<logVars, doc, disk>>  BY DEF SeeClose, Cut, EndSession, Dial
<1>3. LogInv' /\ LogGrows /\ headSeq' = headSeq  BY <1>2, LogStays
<1>4. CASE SeeClose(d) \/ Cut(d)
  <2>0. EndSession(d) /\ b.phase \notin {"closed", "idle"}  BY <1>0, <1>4 DEF SeeClose, Cut, Phase
  <2>1. PICK c :
           /\ Moves(Ops, d, c, NoSocket) /\ Shapes(Ops)' /\ Dropped(Ops, d)
           /\ c.phase = "idle" /\ c.after = client[d].after
           /\ c.cursor = IF client[d].joined THEN client[d].cursor ELSE client[d].base
           /\ c.base = client[d].base
    BY <2>0, EndSessionEffect
  <2>2. PICK s : s = NoSocket  OBVIOUS
  <2>3. /\ client'[d] = c /\ sock'[d] = s
        /\ \A e \in Devices : e # d => client'[e] = client[e] /\ sock'[e] = sock[e]
    BY <2>1, <2>2, MovesAt
  <2>4. b.phase \in {"hello", "fetch", "steady"}
    <3>1. b.phase # "backfill"  BY <1>0, <2>1, <2>3 DEF BackfillsEnd, Phase
    <3> QED  BY <1>00, <2>0, <3>1 DEF Phases
  <2>5. HeldTo(y, b.cursor) /\ HeldTo(y, w.cursor)  BY <1>1, <2>4, SteadyIsHeld
  <2>6. HeldTo(y, b.base)  BY <1>1, <2>0 DEF NoGap, Resting
  <2>7. Resting(c, y, w)  BY <1>0, <2>1, <2>5, <2>6 DEF Resting
  <2>8. StoredWell(c, y, w)  BY <1>1, <2>0 DEF NoGap, StoredWell
  <2>9. NoGap(s, c, y, w)  BY <2>1, <2>7, <2>8, NoGapUnfed DEF Asking, Fed
  <2> QED  BY <1>0, <1>2, <1>3, <2>3, <2>9, NoGapMoves
<1>5. CASE Dial(d)
  <2>1. PICK c, s :
           /\ Moves(Ops, d, c, s) /\ Shapes(Ops)'
           /\ client[d].phase = "idle" /\ c.phase = "hello"
           /\ c.cursor = client[d].cursor /\ c.after = client[d].after
           /\ c.base = client[d].base /\ c.joined = client[d].joined /\ c.pending = client[d].pending
           /\ s.open /\ ~ s.ready /\ s.owes = "nothing" /\ s.stats = NoStats
           /\ ToSet(s.up) = {Hello} /\ Len(s.up) = 1 /\ ToSet(s.bcast) = {} /\ ToSet(s.down) = {}
    BY <1>5, DialEffect
  <2>2. /\ client'[d] = c /\ sock'[d] = s
        /\ \A e \in Devices : e # d => client'[e] = client[e] /\ sock'[e] = sock[e]
    BY <2>1, MovesAt
  <2>3. Resting(c, y, w)  BY <1>0, <1>1, <2>1 DEF NoGap, Resting
  <2>4. Asking(s, c, y)  BY <2>1 DEF Asking, Holds
  <2>5. StoredWell(c, y, w)  BY <1>0, <1>1, <2>1 DEF NoGap, StoredWell
  <2>6. NoGap(s, c, y, w)  BY <2>1, <2>3, <2>4, <2>5, NoGapUnfed DEF Fed
  <2> QED  BY <1>0, <1>2, <1>3, <2>2, <2>6, NoGapMoves
<1> QED  BY <1>4, <1>5

LEMMA SessionNoGap ==
  ASSUME Shapes(Ops), Shapes(Ops)', LogInv, NEW d \in Devices, Session(d) \/ Cut(d) \/ Dial(d), TrueTo(d), Relays(d),
         BackfillsEnd, \A e \in Devices : Gapless(e)
  PROVE  \A e \in Devices : Gapless(e)'
<1>1. CASE ReceiveState(d) \/ FetchCheckpoint(d)  BY <1>1, CatchUpNoGap
<1>2. CASE ReceiveRow(d) \/ ReceiveAck(d)  BY <1>2, StreamNoGap
<1>3. CASE ReceiveRowsDone(d) \/ PushPending(d)  BY <1>3, SteadyNoGap
<1>4. CASE SeeClose(d) \/ Cut(d) \/ Dial(d)
  <2>1. faults' \in Nat  BY DEF Shapes
  <2> QED  BY <1>4, <2>1, RedialNoGap
<1> QED  BY <1>1, <1>2, <1>3, <1>4 DEF Session

\* An operation is in no row before it is made.
LEMMA NewOpIsNew ==
  ASSUME OnlyMade, NEW d \in Devices, commits[d] \in Nat, NEW n \in 1 .. headSeq
  PROVE  <<d, commits[d] + 1>> \notin accepted[n].ops
<1>1. accepted[n].ops \subseteq Made  BY DEF OnlyMade, Shapes, LogOf
<1>2. ASSUME <<d, commits[d] + 1>> \in Made PROVE FALSE
  <2>1. PICK op : op = <<d, commits[d] + 1>>  OBVIOUS
  <2>2. op[2] <= commits[op[1]] /\ op[1] = d /\ op[2] = commits[d] + 1  BY <1>2, <2>1 DEF Made
  <2> QED  BY <2>2
<1> QED  BY <1>1, <1>2

LEMMA EndNoGap ==
  ASSUME Shapes(Ops), LogInv, NEW d \in Devices, Crash(d) \/ Evict(d), BackfillsEnd,
         \A e \in Devices : Gapless(e)
  PROVE  \A e \in Devices : Gapless(e)'
<1>0. PICK o, b, y, w : o = sock[d] /\ b = client[d] /\ y = doc[d] /\ w = disk[d]  OBVIOUS
<1>1. Typed(o, b, w) /\ NoGap(o, b, y, w)  BY <1>0, DeviceIsTyped DEF Gapless
<1>2. UNCHANGED logVars  BY DEF Crash, Evict, CloseHandle
<1>3. LogInv' /\ LogGrows /\ headSeq' = headSeq  BY <1>2, LogStays
<1>4. PICK s, c, x, z : s = NoSocket /\ c = NoClient /\ x = doc'[d] /\ z = disk'[d]  OBVIOUS
<1>5. /\ client'[d] = c /\ sock'[d] = s
      /\ \A e \in Devices : e # d => client'[e] = client[e] /\ sock'[e] = sock[e] /\ doc'[e] = doc[e]
  <2>1. Moves(Ops, d, c, s) /\ \A e \in Devices : e # d => doc'[e] = doc[e]  BY <1>4, CrashEffect, EvictEffect
  <2> QED  BY <2>1, MovesAt
<1>6. z.cursor = w.cursor /\ (z = w \/ z.doc = y) /\ \A e \in Devices : e # d => disk'[e] = disk[e]
  <2>1. CASE Crash(d)  BY <1>0, <1>4, <2>1 DEF Crash
  <2>2. CASE Evict(d)  BY <1>0, <1>4, <2>2, EvictEffect
  <2> QED  BY <2>1, <2>2
<1>7. c.phase = "closed" /\ b.phase \in {"idle", "hello", "fetch", "steady"}
  <2>1. b.phase # "closed"  BY <1>0 DEF Crash, Evict, IsOpen, Phase
  <2>2. c.phase = "closed"  BY <1>4 DEF NoClient
  <2>3. b.phase # "backfill"  BY <1>0, <1>5, <2>2 DEF BackfillsEnd, Phase
  <2>4. b.phase \in Phases  BY <1>1, TypedParts
  <2> QED  BY <2>1, <2>2, <2>3, <2>4 DEF Phases
<1>8. HeldTo(z.doc, z.cursor)
  <2>1. HeldTo(y, w.cursor)  BY <1>1, <1>7, SteadyIsHeld
  <2>2. HeldTo(w.doc, w.cursor)
    <3>1. \A n \in 1 .. headSeq : n <= w.cursor => accepted[n].ops \cap y \subseteq w.doc
      BY <1>1, <1>7 DEF NoGap, StoredWell
    <3> QED  BY <2>1, <3>1 DEF HeldTo
  <2> QED  BY <1>6, <2>1, <2>2
<1>9. NoGap(s, c, x, z)  BY <1>7, <1>8, NoGapUnfed DEF Fed, Resting, Asking, StoredWell
<1> QED  BY <1>3, <1>4, <1>5, <1>6, <1>9, NoGapMoves

LEMMA HandleNoGap ==
  ASSUME "overlap" \notin FaultKinds, SyncInv, OnlyMade, NEW d \in Devices,
         Open(d) \/ Commit(d) \/ SaveSnapshot(d) \/ BeginSave(d) \/ FinishSave(d) \/ Crash(d) \/ Evict(d),
         Settled(d), BackfillsEnd, \A e \in Devices : Gapless(e)
  PROVE  \A e \in Devices : Gapless(e)'
<1>00. Shapes(Ops) /\ Basic(Ops) /\ LogInv /\ (commits[d] < MaxCommits => <<d, commits[d] + 1>> \in Ops)
  BY SyncParts
<1>0. PICK o, b, y, w : o = sock[d] /\ b = client[d] /\ y = doc[d] /\ w = disk[d]  OBVIOUS
<1>1. Typed(o, b, w) /\ NoGap(o, b, y, w)  BY <1>0, <1>00, DeviceIsTyped DEF Gapless
<1>2. UNCHANGED logVars  BY DEF Open, Commit, SaveSnapshot, BeginSave, FinishSave, Crash, Evict, CloseHandle
<1>3. LogInv' /\ LogGrows /\ headSeq' = headSeq  BY <1>00, <1>2, LogStays
<1>4. CASE Open(d)
  <2>1. PICK c, x :
          /\ x = StoredOrInit(d) /\ x \in SUBSET Ops
          /\ c \in Clients(Ops) /\ client' = [client EXCEPT ![d] = c] /\ Shapes(Ops)'
          /\ client[d].phase = "closed" /\ c.phase = "idle" /\ ~ c.joined
          /\ c.cursor = disk[d].cursor /\ c.base = disk[d].cursor /\ c.after = 0
          /\ disk[d].cursor = 0 =>
               /\ minted' = [minted EXCEPT ![d] = @ + 1]
               /\ ToSet(c.pending) = IF Cardinality(x) <= MaxPushOps THEN {Minted(d, x)} ELSE {}
          /\ disk[d].cursor # 0 => minted' = minted /\ ToSet(c.pending) = {}
          /\ doc'[d] = x /\ disk'[d].doc = x /\ disk'[d].cursor = disk[d].cursor
          /\ \A e \in Devices : e # d => doc'[e] = doc[e] /\ disk'[e] = disk[e]
    BY <1>00, <1>4, OpenEffect
  <2>2. sock' = sock  BY <1>4 DEF Open, roomVars
  <2>3. client'[d] = c /\ \A e \in Devices : e # d => client'[e] = client[e]  BY <1>00, <2>1 DEF Shapes
  <2>4. PICK z : z = disk'[d]  OBVIOUS
  <2>5. w.doc \subseteq x  BY <1>0, <2>1 DEF StoredOrInit
  <2>6. HeldTo(w.doc, w.cursor)  BY <1>0, <1>1, <2>1 DEF NoGap, Resting
  <2>7. HeldTo(x, w.cursor)  BY <2>5, <2>6 DEF HeldTo
  <2>8. Resting(c, x, z)  BY <1>0, <2>1, <2>4, <2>7 DEF Resting
  <2>9. NoGap(o, c, x, z)  BY <2>1, <2>4, <2>8, NoGapUnfed DEF Fed, Asking, StoredWell
  <2>10. o = sock'[d] /\ x = doc'[d] /\ \A e \in Devices : sock'[e] = sock[e]  BY <1>0, <2>1, <2>2
  <2> QED  BY <1>00, <1>3, <2>1, <2>3, <2>4, <2>9, <2>10, NoGapMoves
<1>5. CASE Commit(d)
  <2>0. <<d, commits[d] + 1>> \in Ops  BY <1>00, <1>5 DEF Commit
  <2>1. PICK c, x :
           /\ x = {<<d, commits[d] + 1>>} /\ x \in SUBSET Ops
           /\ c \in Clients(Ops) /\ client' = [client EXCEPT ![d] = c] /\ Shapes(Ops)'
           /\ c.phase = client[d].phase /\ c.phase # "closed" /\ c.joined = client[d].joined
           /\ c.cursor = client[d].cursor /\ c.base = client[d].base /\ c.after = client[d].after
           /\ ToSet(c.pending) = ToSet(client[d].pending)
                \cup IF Cardinality(x) <= MaxPushOps THEN {Minted(d, x)} ELSE {}
           /\ doc'[d] = doc[d] \cup x /\ \A e \in Devices : e # d => doc'[e] = doc[e]
    BY <1>00, <1>5, <2>0, CommitEffect
  <2>2. sock' = sock /\ disk' = disk  BY <1>5 DEF Commit, roomVars
  <2>3. client'[d] = c /\ \A e \in Devices : e # d => client'[e] = client[e]  BY <1>00, <2>1 DEF Shapes
  <2>4. PICK v : v = doc'[d]  OBVIOUS
  <2>5. v = y \cup x /\ c.phase = b.phase /\ c.phase # "closed" /\ c.base = b.base /\ c.cursor = b.cursor
    BY <1>0, <2>1, <2>4
  <2>6. \A n \in 1 .. headSeq : accepted[n].ops \cap x = {}
    <3>1. commits[d] \in Nat  BY <1>00, ShapeParts
    <3> QED  BY <2>1, <3>1, NewOpIsNew
  <2>7. StoredWell(c, v, w)
    <3>1. w.doc \subseteq y /\ \A n \in 1 .. headSeq : n <= w.cursor => accepted[n].ops \cap y \subseteq w.doc
      BY <1>1, <2>5 DEF NoGap, StoredWell
    <3> QED  BY <2>5, <2>6, <3>1 DEF StoredWell
  <2>8. NoGap(o, c, v, w)
    <3>1. y \subseteq v  BY <2>5
    <3> QED  BY <1>1, <2>5, <2>7, <3>1, NoGapKeeps
  <2>9. o = sock'[d] /\ w = disk'[d] /\ \A e \in Devices : sock'[e] = sock[e] /\ disk'[e] = disk[e]  BY <1>0, <2>2
  <2> QED  BY <1>00, <1>3, <2>1, <2>3, <2>4, <2>8, <2>9, NoGapMoves
<1>6. CASE SaveSnapshot(d)
  <2>1. /\ client[d].phase # "closed"
        /\ disk'[d].doc = doc[d] /\ disk'[d].cursor = disk[d].cursor
        /\ \A e \in Devices : e # d => disk'[e] = disk[e]
    BY <1>00, <1>6, SaveSnapshotEffect
  <2>2. sock' = sock /\ doc' = doc /\ client' = client  BY <1>6 DEF SaveSnapshot, roomVars
  <2>3. PICK z : z = disk'[d]  OBVIOUS
  <2>4. z.cursor = w.cursor /\ b.phase # "closed" /\ z.doc = y  BY <1>0, <2>1, <2>3
  <2>5. StoredWell(b, y, z)  BY <2>4 DEF StoredWell
  <2>6. NoGap(o, b, y, z)  BY <1>1, <2>4, <2>5, NoGapKeeps
  <2>7. /\ o = sock'[d] /\ b = client'[d] /\ y = doc'[d]
        /\ \A e \in Devices : sock'[e] = sock[e] /\ client'[e] = client[e] /\ doc'[e] = doc[e]
    BY <1>0, <2>2
  <2> QED  BY <1>00, <1>3, <2>1, <2>3, <2>6, <2>7, NoGapMoves
<1>7. ~ BeginSave(d) /\ ~ FinishSave(d)  BY DEF BeginSave, FinishSave, Settled
<1>8. CASE Crash(d) \/ Evict(d)  BY <1>00, <1>8, EndNoGap
<1> QED  BY <1>4, <1>5, <1>6, <1>7, <1>8

-----------------------------------------------------------------------------
(* The hub: what it sends and what it relays *)

LEMMA LoopNoGap ==
  ASSUME Shapes(Ops), LogInv, NEW d \in Devices, NEW s, LoopStep(Ops, d, s),
         NoGap(s, client[d], doc[d], disk[d]), \A e \in Devices : Gapless(e)
  PROVE  \A e \in Devices : Gapless(e)'
<1>1. UNCHANGED <<logVars, client, doc, disk>> /\ sock'[d] = s /\ \A e \in Devices : e # d => sock'[e] = sock[e]
  BY LoopKeepsShapes DEF LoopStep
<1>2. LogInv' /\ LogGrows /\ headSeq' = headSeq  BY <1>1, LogStays
<1>3. PICK c, x, z : c = client[d] /\ x = doc[d] /\ z = disk[d]  OBVIOUS
<1> QED  BY <1>1, <1>2, <1>3, NoGapMoves

\* The head of the queue is sent down.
LEMMA EventIsServed ==
  ASSUME LogInv, NEW o, NEW b, NEW y, NEW w, Typed(o, b, w), NoGap(o, b, y, w), o.open, o.bcast # <<>>,
         NEW v, v = Head(o.bcast), NEW s, s.open, s.owes = o.owes, o.owes = "nothing", s.up = o.up,
         s.bcast = Tail(o.bcast),
         s.down = Append(o.down, v.frame) \/ (s.down = o.down /\ ~ Fed(o, b))
  PROVE  NoGap(s, b, y, w)
<1>1. /\ b.cursor \in Nat /\ w.cursor \in Nat
      /\ o.down \in Seq(DownFrames(Ops)) /\ o.bcast \in Seq(RoomEvents(Ops))
      /\ \A u \in ToSet(o.bcast) : u.frame.seq \in Nat /\ u.frame.kind \in {"row", "ack"}
  BY TypedParts
<1>2. ToSet(o.bcast) = {v} \cup ToSet(s.bcast) /\ v \in RoomEvents(Ops)  BY <1>1, ToSetOfTail
<1>3. v.frame \in DownFrames(Ops) /\ v.frame.kind \in {"row", "ack"}  BY <1>2, FrameParts
<1>4. s.down = Append(o.down, v.frame) => ToSet(s.down) = ToSet(o.down) \cup {v.frame}  BY <1>1, <1>3, ToSetOfAppend
<1>5. Holds(s, "rowsDone") = Holds(o, "rowsDone")
  <2>1. CASE s.down = o.down  BY <2>1 DEF Holds
  <2>2. CASE s.down = Append(o.down, v.frame)  BY <1>3, <1>4, <2>2 DEF Holds
  <2> QED  BY <2>1, <2>2
<1>6. Fed(s, b) = Fed(o, b)  BY <1>5 DEF Fed
<1>7. Resting(b, y, w) /\ Asking(s, b, y) /\ StoredWell(b, y, w)  BY <1>5 DEF NoGap, Asking
<1>8. CASE ~ Fed(o, b)  BY <1>6, <1>7, <1>8, NoGapUnfed
<1>9. CASE Fed(o, b)
  <2>0. PICK f : f = v.frame  OBVIOUS
  <2>1. s.down = Append(o.down, f) /\ ToSet(s.down) = ToSet(o.down) \cup {f}  BY <1>4, <1>9, <2>0
  <2>2. /\ InOrder(o.down, b.phase) /\ EventsInOrder(o.bcast)
        /\ \A g \in LiveRows(o.down, b.phase) : g.seq > b.cursor /\ g.seq > w.cursor
        /\ \A u \in ToSet(o.bcast) : u.frame.kind = "row" =>
             /\ u.frame.seq > b.cursor /\ u.frame.seq > w.cursor
             /\ \A g \in ToSet(o.down) : Numbered(g) => g.seq < u.frame.seq
    BY <1>9 DEF NoGap, Ranked
  <2>3. f.kind = "row" =>
          /\ f.seq > b.cursor /\ f.seq > w.cursor
          /\ \A g \in ToSet(o.down) : Numbered(g) => g.seq < f.seq
    <3>1. v \in ToSet(o.bcast)  BY <1>2
    <3> QED  BY <2>0, <2>2, <3>1
  <2>4. /\ InOrder(s.down, b.phase) /\ LiveRows(s.down, b.phase) \subseteq LiveRows(o.down, b.phase) \cup {f}
        /\ f.kind # "row" => LiveRows(s.down, b.phase) \subseteq LiveRows(o.down, b.phase)
    BY <1>1, <1>3, <2>0, <2>1, <2>2, <2>3, OrderOfAppend
  <2>5. EventsInOrder(s.bcast) /\ \A u \in ToSet(s.bcast) : u.frame.kind = "row" => f.seq < u.frame.seq
    BY <1>1, <2>0, <2>2, EventsOfTail
  <2>6. \A g \in LiveRows(s.down, b.phase) : g.seq > b.cursor /\ g.seq > w.cursor  BY <2>2, <2>3, <2>4
  <2>7. \A u \in ToSet(s.bcast) : u.frame.kind = "row" =>
          /\ u.frame.seq > b.cursor /\ u.frame.seq > w.cursor
          /\ \A g \in ToSet(s.down) : Numbered(g) => g.seq < u.frame.seq
    BY <1>2, <2>1, <2>2, <2>5
  <2>8. Ranked(s, b, w)  BY <2>4, <2>5, <2>6, <2>7 DEF Ranked
  <2>9. Covered(s, b, y, w)
    <3> SUFFICES ASSUME NEW n \in 1 .. headSeq, seqFloor < n PROVE accepted[n].ops \subseteq y \/ Brings(s, n)
      BY DEF Covered
    <3>1. accepted[n].ops \subseteq y \/ Brings(o, n)  BY <1>9 DEF NoGap, Covered, Reached
    <3>2. Brings(o, n) => Brings(s, n)
      <4>1. CASE f.kind = "row" /\ f.seq = n  BY <2>1, <4>1 DEF Brings
      <4>2. CASE ~ (f.kind = "row" /\ f.seq = n)  BY <1>2, <2>0, <2>1, <4>2 DEF Brings
      <4> QED  BY <4>1, <4>2
    <3> QED  BY <3>1, <3>2
  <2> QED  BY <1>7, <2>8, <2>9 DEF NoGap
<1> QED  BY <1>8, <1>9

\* The socket is closed: what is lost was above all that is left.
LEMMA LagIsNoGap ==
  ASSUME LogInv, NEW o, NEW b, NEW y, NEW w, Typed(o, b, w), NoGap(o, b, y, w),
         NEW s, ~ s.open, s.owes = o.owes, s.up = <<>>, s.bcast = <<>>, s.down = o.down
  PROVE  NoGap(s, b, y, w)
<1>1. /\ b.cursor \in Nat /\ w.cursor \in Nat /\ headSeq \in Nat
      /\ \A g \in ToSet(o.down) : Numbered(g) => g.seq \in Nat
      /\ \A u \in ToSet(o.bcast) : u.frame.seq \in Nat
  BY TypedParts DEF LogInv, LogTypeOK
<1>2. ToSet(s.up) = {} /\ ToSet(s.bcast) = {}  BY DEF ToSet
<1>3. Fed(s, b) = Fed(o, b)  BY DEF Fed, Holds
<1>4. Resting(b, y, w) /\ Asking(s, b, y) /\ StoredWell(b, y, w)  BY <1>2 DEF NoGap, Asking, Holds
<1>5. Ranked(s, b, w)
  <2>1. EventsInOrder(s.bcast)  BY DEF EventsInOrder
  <2> QED  BY <1>2, <1>3, <2>1 DEF NoGap, Ranked
<1>6. Covered(s, b, y, w)
  <2> SUFFICES ASSUME Fed(s, b), NEW n \in 1 .. headSeq, seqFloor < n, Reached(s, b, w, n)
               PROVE  accepted[n].ops \subseteq y \/ Brings(s, n)
    BY DEF Covered
  <2>1. n <= b.cursor \/ n <= w.cursor \/ \E g \in ToSet(o.down) : Numbered(g) /\ n <= g.seq  BY DEF Reached
  <2>2. accepted[n].ops \subseteq y \/ Brings(o, n)  BY <1>3, <2>1 DEF NoGap, Covered, Reached
  <2>3. ASSUME NEW u \in ToSet(o.bcast), u.frame.kind = "row", u.frame.seq = n PROVE FALSE
    <3>1. /\ n > b.cursor /\ n > w.cursor
          /\ \A g \in ToSet(o.down) : Numbered(g) => g.seq < n
      BY <1>3, <2>3 DEF NoGap, Ranked
    <3>2. PICK k \in Nat : k > n - 1 /\ k < n
      <4>1. n \in Nat  BY <1>1
      <4> QED  BY <1>1, <2>1, <3>1, <4>1
    <3> QED  BY <3>2
  <2>4. Brings(o, n) => Brings(s, n)  BY <2>3 DEF Brings
  <2> QED  BY <2>2, <2>4
<1> QED  BY <1>4, <1>5, <1>6 DEF NoGap

LEMMA ServeNoGap ==
  ASSUME Shapes(Ops), LogInv, NEW d \in Devices, ServeEvent(d), Untouched, Relays(d), \A e \in Devices : Gapless(e)
  PROVE  \A e \in Devices : Gapless(e)'
<1>0. PICK o, b, y, w : o = sock[d] /\ b = client[d] /\ y = doc[d] /\ w = disk[d]  OBVIOUS
<1>1. Typed(o, b, w) /\ NoGap(o, b, y, w) /\ Talking(o, b)  BY <1>0, DeviceIsTyped DEF Gapless, Relays
<1>2. PICK s :
        /\ LoopStep(Ops, d, s)
        /\ sock[d].open /\ s.open = sock[d].open /\ s.ready = sock[d].ready
        /\ s.owes = sock[d].owes /\ s.stats = sock[d].stats /\ s.up = sock[d].up
  BY ServeEventEffect
<1>3. sock'[d] = s  BY <1>2, LoopKeepsShapes
<1>4. PICK v : v = Head(o.bcast)  OBVIOUS
<1>5. o.bcast # <<>> /\ o.owes = "nothing"  BY <1>0 DEF ServeEvent, CanServe
<1>6. s.bcast = Tail(o.bcast) /\ s.down = IF Delivered(d, v) THEN Append(o.down, v.frame) ELSE o.down
  BY <1>0, <1>3, <1>4 DEF ServeEvent, Shapes, Socks
<1>7. ~ Delivered(d, v) => ~ Fed(o, b)  BY <1>0, <1>1, <1>2 DEF Delivered, Fed, Talking
<1>8. NoGap(s, b, y, w)
  <2>1. s.open /\ o.open  BY <1>0, <1>2
  <2>2. s.owes = o.owes /\ s.up = o.up  BY <1>0, <1>2
  <2>3. s.down = Append(o.down, v.frame) \/ (s.down = o.down /\ ~ Fed(o, b))  BY <1>6, <1>7
  <2> QED  BY <1>1, <1>4, <1>5, <1>6, <2>1, <2>2, <2>3, EventIsServed
<1> QED  BY <1>0, <1>2, <1>8, LoopNoGap

LEMMA LagNoGap ==
  ASSUME Shapes(Ops), LogInv, NEW d \in Devices, CloseLagged(d), Untouched, \A e \in Devices : Gapless(e)
  PROVE  \A e \in Devices : Gapless(e)'
<1>0. PICK o, b, y, w : o = sock[d] /\ b = client[d] /\ y = doc[d] /\ w = disk[d]  OBVIOUS
<1>1. Typed(o, b, w) /\ NoGap(o, b, y, w)  BY <1>0, DeviceIsTyped DEF Gapless
<1>2. PICK s : /\ LoopStep(Ops, d, s)
               /\ ~ s.open /\ s.ready = sock[d].ready /\ sock[d].open
               /\ s.owes = sock[d].owes /\ s.stats = sock[d].stats /\ s.down = sock[d].down
               /\ s.up = <<>> /\ s.bcast = <<>>
  BY CloseLaggedEffect
<1>3. NoGap(s, b, y, w)  BY <1>0, <1>1, <1>2, LagIsNoGap
<1> QED  BY <1>0, <1>2, <1>3, LoopNoGap

LEMMA HelloNoGap ==
  ASSUME Shapes(Ops), LogInv, NEW d \in Devices, HandleHello(d), Untouched, Relays(d), \A e \in Devices : Gapless(e)
  PROVE  \A e \in Devices : Gapless(e)'
<1>0. PICK o, b, y, w : o = sock[d] /\ b = client[d] /\ y = doc[d] /\ w = disk[d]  OBVIOUS
<1>1. NoGap(o, b, y, w) /\ Talking(o, b)  BY <1>0 DEF Gapless, Relays
<1>2. PICK s :
         /\ LoopStep(Ops, d, s) /\ NextFrame(d, "hello")
         /\ sock[d].open /\ s.open = sock[d].open /\ s.ready /\ s.owes = "state" /\ s.stats = Stats
         /\ s.down = sock[d].down /\ s.bcast = sock[d].bcast
         /\ s.up = Tail(sock[d].up)
  BY HandleHelloEffect
<1>3. Head(o.up) \in ToSet(o.up) /\ Head(o.up).kind = "hello"  BY <1>0, <1>2, NextFrameParts
<1>4. b.phase = "hello"  BY <1>0, <1>1, <1>2, <1>3 DEF Talking
<1>5. Resting(b, y, w) /\ StoredWell(b, y, w)  BY <1>1 DEF NoGap
<1>6. Asking(s, b, y)  BY <1>0, <1>1, <1>2, <1>4 DEF NoGap, Asking, Holds
<1>7. NoGap(s, b, y, w)  BY <1>4, <1>5, <1>6, NoGapUnfed DEF Fed
<1> QED  BY <1>0, <1>2, <1>7, LoopNoGap

\* A frame that is no row is sent, and it is the answer that was owed.
LEMMA AnswerIsSent ==
  ASSUME LogInv, NEW o, NEW b, NEW y, NEW w, Typed(o, b, w), NoGap(o, b, y, w), o.open, NEW s, s.open,
         NEW f \in DownFrames(Ops), f.kind = o.owes, f.kind \in {"state", "rowsDone"},
         s.owes = "nothing", s.up = o.up, s.bcast = o.bcast, s.down = Append(o.down, f)
  PROVE  NoGap(s, b, y, w)
<1>1. o.down \in Seq(DownFrames(Ops))  BY TypedParts
<1>2. ToSet(s.down) = ToSet(o.down) \cup {f}  BY <1>1, ToSetOfAppend
<1>3. Holds(s, "rowsDone") => Holds(o, "rowsDone") \/ o.owes = "rowsDone"  BY <1>2 DEF Holds
<1>4. Fed(s, b) => Fed(o, b)  BY <1>3 DEF Fed
<1>5. Resting(b, y, w) /\ Asking(s, b, y) /\ StoredWell(b, y, w)  BY <1>3 DEF NoGap, Asking
<1>6. ~ Numbered(f)  BY DEF Numbered
<1>7. Ranked(s, b, w)
  <2> SUFFICES ASSUME Fed(s, b)
               PROVE  /\ InOrder(s.down, b.phase) /\ EventsInOrder(s.bcast)
                      /\ \A g \in LiveRows(s.down, b.phase) : g.seq > b.cursor /\ g.seq > w.cursor
                      /\ \A v \in ToSet(s.bcast) : v.frame.kind = "row" =>
                           /\ v.frame.seq > b.cursor /\ v.frame.seq > w.cursor
                           /\ \A g \in ToSet(s.down) : Numbered(g) => g.seq < v.frame.seq
    BY DEF Ranked
  <2>1. /\ InOrder(o.down, b.phase) /\ EventsInOrder(o.bcast)
        /\ \A g \in LiveRows(o.down, b.phase) : g.seq > b.cursor /\ g.seq > w.cursor
        /\ \A v \in ToSet(o.bcast) : v.frame.kind = "row" =>
             /\ v.frame.seq > b.cursor /\ v.frame.seq > w.cursor
             /\ \A g \in ToSet(o.down) : Numbered(g) => g.seq < v.frame.seq
    BY <1>4 DEF NoGap, Ranked
  <2>2. InOrder(s.down, b.phase) /\ LiveRows(s.down, b.phase) \subseteq LiveRows(o.down, b.phase)
    BY <1>1, <2>1, OrderOfAppend
  <2> QED  BY <1>2, <1>6, <2>1, <2>2
<1>8. Covered(s, b, y, w)
  <2> SUFFICES ASSUME Fed(s, b), NEW n \in 1 .. headSeq, seqFloor < n PROVE accepted[n].ops \subseteq y \/ Brings(s, n)
    BY DEF Covered
  <2>1. accepted[n].ops \subseteq y \/ Brings(o, n)  BY <1>4 DEF NoGap, Covered, Reached
  <2> QED  BY <1>2, <2>1 DEF Brings
<1> QED  BY <1>5, <1>7, <1>8 DEF NoGap

LEMMA AnswerNoGap ==
  ASSUME Shapes(Ops), LogInv, NEW d \in Devices, SendState(d) \/ FinishRows(d), Untouched, \A e \in Devices : Gapless(e)
  PROVE  \A e \in Devices : Gapless(e)'
<1>0. PICK o, b, y, w : o = sock[d] /\ b = client[d] /\ y = doc[d] /\ w = disk[d]  OBVIOUS
<1>1. Typed(o, b, w) /\ NoGap(o, b, y, w)  BY <1>0, DeviceIsTyped DEF Gapless
<1>2. PICK s, f :
         /\ LoopStep(Ops, d, s) /\ sock[d].open /\ s.open = sock[d].open
         /\ s.owes = "nothing" /\ s.up = sock[d].up /\ s.bcast = sock[d].bcast
         /\ f.kind = sock[d].owes /\ f.kind \in {"state", "rowsDone"}
         /\ f \in DownFrames(Ops) /\ s.down = Append(sock[d].down, f)
  <2>1. CASE SendState(d)
    <3>1. PICK f : f = State(sock[d].stats, checkpoint.frontier)  OBVIOUS
    <3>2. PICK s : /\ LoopStep(Ops, d, s) /\ sock[d].owes = "state"
                   /\ sock[d].open /\ s.open = sock[d].open /\ s.ready = sock[d].ready /\ s.owes = "nothing"
                   /\ s.stats = NoStats /\ s.up = sock[d].up /\ s.bcast = sock[d].bcast
                   /\ ToSet(s.down) = ToSet(sock[d].down) \cup {f}
      BY <2>1, <3>1, SendStateEffect
    <3>3. f.kind = "state"  BY <3>1 DEF State
    <3>4. f \in DownFrames(Ops)
      <4>1. sock[d].stats \in Counts /\ checkpoint.frontier \in SUBSET Ops  BY ShapeParts, SockParts DEF Shapes, LogOf
      <4> QED  BY <3>1, <4>1, FramesMade
    <3>5. s.down = Append(sock[d].down, f)
      <4>1. sock'[d] = s  BY <3>2, LoopKeepsShapes
      <4> QED  BY <2>1, <3>1, <4>1 DEF SendState, Shapes, Socks
    <3> QED  BY <3>2, <3>3, <3>4, <3>5
  <2>2. CASE FinishRows(d)
    <3>1. PICK f : f = RowsDone(headSeq)  OBVIOUS
    <3>2. PICK s : /\ LoopStep(Ops, d, s) /\ sock[d].owes = "rowsDone"
                   /\ sock[d].open /\ s.open = sock[d].open /\ s.ready = sock[d].ready /\ s.owes = "nothing"
                   /\ s.stats = sock[d].stats /\ s.up = sock[d].up /\ s.bcast = sock[d].bcast
                   /\ ToSet(s.down) = ToSet(sock[d].down) \cup {f}
      BY <2>2, <3>1, FinishRowsEffect
    <3>3. f.kind = "rowsDone"  BY <3>1 DEF RowsDone
    <3>4. f \in DownFrames(Ops)  BY <3>1, FramesMade DEF LogInv, LogTypeOK
    <3>5. s.down = Append(sock[d].down, f)
      <4>1. sock'[d] = s  BY <3>2, LoopKeepsShapes
      <4> QED  BY <2>2, <3>1, <4>1 DEF FinishRows, Shapes, Socks
    <3> QED  BY <3>2, <3>3, <3>4, <3>5
  <2> QED  BY <2>1, <2>2
<1>3. NoGap(s, b, y, w)
  <2>1. o.open /\ s.open /\ f.kind = o.owes /\ s.up = o.up /\ s.bcast = o.bcast /\ s.down = Append(o.down, f)
    BY <1>0, <1>2
  <2> QED  BY <1>1, <1>2, <2>1, AnswerIsSent
<1> QED  BY <1>0, <1>2, <1>3, LoopNoGap

\* The backfill: all above the cursor asked for is sent, but for what the device has
\* sent itself.
LEMMA RequestNoGap ==
  ASSUME Shapes(Ops), LogInv, NEW d \in Devices, HandleRowsReq(d), Untouched, Relays(d), Owned(d),
         \A e \in Devices : Gapless(e)
  PROVE  \A e \in Devices : Gapless(e)'
<1>0. PICK o, b, y, w : o = sock[d] /\ b = client[d] /\ y = doc[d] /\ w = disk[d]  OBVIOUS
<1>1. Typed(o, b, w) /\ NoGap(o, b, y, w) /\ Talking(o, b)  BY <1>0, DeviceIsTyped DEF Gapless, Relays
<1>2. PICK req : req = Head(o.up)  OBVIOUS
<1>3. PICK s :
         /\ LoopStep(Ops, d, s) /\ NextFrame(d, "rowsReq")
         /\ sock[d].open /\ s.open = sock[d].open /\ s.ready = sock[d].ready /\ s.owes = "rowsDone"
         /\ s.stats = sock[d].stats /\ s.up = Tail(sock[d].up) /\ s.bcast = sock[d].bcast
         /\ ToSet(s.down) = ToSet(sock[d].down) \cup Sent(req.after, Excluded(d, req))
  BY <1>0, <1>2, HandleRowsReqEffect
<1>4. /\ req \in ToSet(o.up) /\ req \in UpFrames(Ops) /\ req.kind = "rowsReq" /\ o.bcast = <<>>
      /\ ToSet(s.up) \subseteq ToSet(o.up)
  <2>1. /\ Head(sock[d].up) \in ToSet(sock[d].up) /\ Head(sock[d].up) \in UpFrames(Ops)
        /\ Head(sock[d].up).kind = "rowsReq" /\ sock[d].bcast = <<>>
        /\ ToSet(sock[d].up) = {Head(sock[d].up)} \cup ToSet(Tail(sock[d].up))
    BY <1>3, NextFrameParts
  <2> QED  BY <1>0, <1>2, <1>3, <2>1
<1>5. b.phase = "backfill" /\ ~ Holds(o, "rowsDone")
  <2>1. Hello.kind = "hello"  BY DEF Hello
  <2>2. Asked(o)  BY <1>4 DEF Asked
  <2>3. o.open /\ b.phase \in {"hello", "fetch", "backfill", "steady"}  BY <1>0, <1>1, <1>3 DEF Talking
  <2>4. b.phase # "hello"  BY <1>1, <1>4, <2>1, <2>3 DEF Talking
  <2>5. b.phase # "fetch"  BY <1>1, <1>4, <2>3 DEF Talking
  <2>6. b.phase # "steady"  BY <1>1, <1>4, <2>3 DEF Talking
  <2>7. ~ Holds(o, "rowsDone")  BY <1>1, <2>2, <2>3 DEF Talking
  <2> QED  BY <2>3, <2>4, <2>5, <2>6, <2>7
<1>6. HeldTo(y, req.after) /\ req.after \in Nat  BY <1>1, <1>4, <1>5, FrameParts DEF NoGap, Asking
<1>7. \A f \in Sent(req.after, Excluded(d, req)) : f.kind = "row"  BY DEF Sent, RowFrame
<1>8. s.down \in Seq(DownFrames(Ops))  BY <1>3, SockParts DEF LoopStep
<1>9. LiveRows(s.down, b.phase) = {} /\ InOrder(s.down, b.phase)
  <2>1. \A f \in ToSet(s.down) : f.kind # "rowsDone"  BY <1>0, <1>3, <1>5, <1>7 DEF Holds
  <2>2. LiveRows(s.down, b.phase) = {}  BY <1>5, <1>8, <2>1, LiveRowsWait
  <2> QED  BY <1>8, <2>2, NoLiveRowsInOrder
<1>10. Ranked(s, b, w)
  <2>1. s.bcast = <<>> /\ ToSet(s.bcast) = {}  BY <1>0, <1>3, <1>4 DEF ToSet
  <2>2. EventsInOrder(s.bcast)  BY <2>1 DEF EventsInOrder
  <2> QED  BY <1>9, <2>1, <2>2 DEF Ranked
<1>11. Resting(b, y, w) /\ StoredWell(b, y, w)  BY <1>1 DEF NoGap
<1>12. Asking(s, b, y)  BY <1>1, <1>4, <1>5 DEF NoGap, Asking
<1>13. Covered(s, b, y, w)
  <2> SUFFICES ASSUME NEW n \in 1 .. headSeq, seqFloor < n PROVE accepted[n].ops \subseteq y \/ Brings(s, n)
    BY DEF Covered
  <2>1. headSeq \in Nat /\ seqFloor \in Nat  BY DEF LogInv, LogTypeOK
  <2>2. n \in DOMAIN rows /\ rows[n] = accepted[n]  BY <2>1 DEF LogInv, LogIsSuffix, RowsAreHistory
  <2>3. CASE n <= req.after  BY <1>6, <2>3 DEF HeldTo
  <2>4. CASE n > req.after /\ rows[n].device \in Excluded(d, req)
    <3>1. accepted[n].device = d  BY <2>2, <2>4 DEF Excluded
    <3>2. accepted[n].ops \subseteq Own(d)  BY <3>1 DEF Owned
    <3> QED  BY <1>0, <1>5, <3>2 DEF Own
  <2>5. CASE n > req.after /\ rows[n].device \notin Excluded(d, req)
    <3>1. PICK f : f = RowFrame(n, rows[n].ops)  OBVIOUS
    <3>2. f \in Sent(req.after, Excluded(d, req))  BY <2>2, <2>5, <3>1 DEF Sent, RowsAfter
    <3>3. f \in ToSet(s.down) /\ f.kind = "row" /\ f.seq = n  BY <1>3, <3>1, <3>2 DEF RowFrame
    <3> QED  BY <3>3 DEF Brings
  <2> QED  BY <1>6, <2>1, <2>3, <2>4, <2>5
<1>14. NoGap(s, b, y, w)  BY <1>10, <1>11, <1>12, <1>13 DEF NoGap
<1> QED  BY <1>0, <1>3, <1>14, LoopNoGap

\* What a publication adds to the queue of one open socket.
LEMMA PublishAppends ==
  ASSUME NEW M, Basic(M), LogInv, NEW socks \in [Devices -> Socks(M)],
         NEW origin \in Devices \cup {DeadSocket}, NEW device \in Devices, NEW b \in Batches(M), b.id \in BatchIds,
         AppendAndPublish(socks, origin, device, b), NEW e \in Devices, socks[e].open
  PROVE  \/ /\ UNCHANGED logVars /\ sock'[e].bcast = socks[e].bcast
         \/ \E v \in RoomEvents(M) :
              /\ sock'[e].bcast = Append(socks[e].bcast, v)
              /\ v.frame.kind = "row" => v.frame.seq = headSeq + 1
              /\ v.frame.kind = "row" \/ e = origin
<1>0. b.id \in Names /\ b.ops \in SUBSET M /\ headSeq \in Nat  BY DEF Batches, Basic, LogInv, LogTypeOK
<1>1. PICK q \in Seq(RoomEvents(M)) : q = socks[e].bcast  BY SockParts
<1>2. PICK o \in Socks(M) : o = socks[e]  OBVIOUS
<1>3. ASSUME NEW events, sock' = FanOut(socks, events)
      PROVE  sock'[e].bcast = q \o KeepAt(events, {n \in DOMAIN events : Addressed(e, events[n])})
  BY <1>1, <1>2, <1>3 DEF FanOut, Socks
<1>4. CASE sock' = FanOut(socks, <<RowEvent(origin, headSeq + 1, b.ops), AckEvent(origin, b.id, headSeq + 1)>>)
  <2>1. PICK x : x = RowEvent(origin, headSeq + 1, b.ops)  OBVIOUS
  <2>2. PICK y : y = AckEvent(origin, b.id, headSeq + 1)  OBVIOUS
  <2>3. x \in RoomEvents(M) /\ y \in RoomEvents(M)
    <3>1. headSeq + 1 \in Nat  BY <1>0
    <3> QED  BY <1>0, <2>1, <2>2, <3>1, FramesMade
  <2>12. <<x, y>> \in Seq(RoomEvents(M))  BY <2>3
  <2>4. PICK ev \in Seq(RoomEvents(M)) : ev = <<x, y>>  BY <2>12, Zenon
  <2>5. Len(ev) = 2 /\ DOMAIN ev = {1, 2} /\ ev[1] = x /\ ev[2] = y  BY <2>4
  <2>6. PICK I : I = {n \in DOMAIN ev : Addressed(e, ev[n])}  OBVIOUS
  <2>7. Addressed(e, x) = (e # origin) /\ Addressed(e, y) = (e = origin)
    BY <2>1, <2>2 DEF Addressed, RowEvent, AckEvent, RowFrame, AckFrame
  <2>8. sock'[e].bcast = q \o KeepAt(ev, I)
    <3>1. sock' = FanOut(socks, ev)  BY <1>4, <2>1, <2>2, <2>4
    <3> QED  BY <1>3, <2>6, <3>1
  <2>9. 1 \in 1 .. Len(ev) /\ 2 \in 1 .. Len(ev) /\ 1 .. Len(ev) = {1, 2}  BY <2>5
  <2>10. CASE e = origin
    <3>1. I \cap (1 .. Len(ev)) = {2}  BY <2>5, <2>6, <2>7, <2>9, <2>10
    <3>2. KeepAt(ev, I) = <<y>>  BY <2>5, <2>9, <3>1, KeepAtOne
    <3>3. sock'[e].bcast = Append(q, y)  BY <2>3, <2>8, <3>2
    <3>4. y.frame.kind = "ack"  BY <2>2 DEF AckEvent, AckFrame
    <3> QED  BY <1>1, <2>3, <2>10, <3>3, <3>4
  <2>11. CASE e # origin
    <3>1. I \cap (1 .. Len(ev)) = {1}  BY <2>5, <2>6, <2>7, <2>9, <2>11
    <3>2. KeepAt(ev, I) = <<x>>  BY <2>5, <2>9, <3>1, KeepAtOne
    <3>3. sock'[e].bcast = Append(q, x)  BY <2>3, <2>8, <3>2
    <3>4. x.frame.kind = "row" /\ x.frame.seq = headSeq + 1  BY <2>1 DEF RowEvent, RowFrame
    <3> QED  BY <1>1, <2>3, <3>3, <3>4
  <2> QED  BY <2>10, <2>11
<1>5. CASE /\ IsReplay(b.id) /\ UNCHANGED logVars
           /\ sock' = FanOut(socks, <<AckEvent(origin, b.id, OriginalSeq(b.id))>>)
  <2>1. PICK n : n = OriginalSeq(b.id)  OBVIOUS
  <2>2. n \in Nat
    <3>1. \E s \in DOMAIN rows : rows[s].batch = b.id  BY <1>5 DEF IsReplay
    <3>2. n \in DOMAIN rows  BY <2>1, <3>1 DEF OriginalSeq
    <3>3. seqFloor \in Nat /\ DOMAIN rows = (seqFloor + 1) .. headSeq  BY DEF LogInv, LogTypeOK, LogIsSuffix
    <3> QED  BY <1>0, <3>2, <3>3
  <2>3. PICK y : y = AckEvent(origin, b.id, n)  OBVIOUS
  <2>4. y \in RoomEvents(M)  BY <1>0, <2>2, <2>3, FramesMade
  <2>12. <<y>> \in Seq(RoomEvents(M))  BY <2>4
  <2>5. PICK ev \in Seq(RoomEvents(M)) : ev = <<y>>  BY <2>12, Zenon
  <2>6. Len(ev) = 1 /\ DOMAIN ev = {1} /\ ev[1] = y /\ 1 \in 1 .. Len(ev) /\ 1 .. Len(ev) = {1}  BY <2>5
  <2>7. PICK I : I = {m \in DOMAIN ev : Addressed(e, ev[m])}  OBVIOUS
  <2>8. Addressed(e, y) = (e = origin) /\ y.frame.kind = "ack"  BY <2>3 DEF Addressed, AckEvent, AckFrame
  <2>9. sock'[e].bcast = q \o KeepAt(ev, I)
    <3>1. sock' = FanOut(socks, ev)  BY <1>5, <2>1, <2>3, <2>5
    <3> QED  BY <1>3, <2>7, <3>1
  <2>10. CASE e = origin
    <3>1. I \cap (1 .. Len(ev)) = {1}  BY <2>6, <2>7, <2>8, <2>10
    <3>2. KeepAt(ev, I) = <<y>>  BY <2>6, <3>1, KeepAtOne
    <3>3. sock'[e].bcast = Append(q, y)  BY <2>4, <2>9, <3>2
    <3> QED  BY <1>1, <2>4, <2>8, <2>10, <3>3
  <2>11. CASE e # origin
    <3>1. I \cap (1 .. Len(ev)) = {}  BY <2>6, <2>7, <2>8, <2>11
    <3>2. KeepAt(ev, I) = <<>>  BY <3>1, KeepAtNone
    <3>3. sock'[e].bcast = q  BY <2>9, <3>2
    <3> QED  BY <1>1, <1>5, <3>3
  <2> QED  BY <2>10, <2>11
<1> QED  BY <1>4, <1>5 DEF AppendAndPublish

\* A row appended is above all there is, and either it is queued or its device has it.
LEMMA PublishedIsNoGap ==
  ASSUME LogInv, LogInv', LogGrows, headSeq' \in {headSeq, headSeq + 1},
         NEW r, NEW c, NEW x, NEW z, Typed(r, c, z), NoGap(r, c, x, z),
         SockTrue(r), Talking(r, c), ClientTrue(c), z.cursor <= headSeq, NEW s, SameButEvents(r, s),
         r.open => \/ headSeq' = headSeq /\ s.bcast = r.bcast
                   \/ \E v \in RoomEvents(Ops) :
                        /\ s.bcast = Append(r.bcast, v)
                        /\ v.frame.kind = "row" => v.frame.seq = headSeq + 1
                        /\ v.frame.kind = "row" \/ headSeq' = headSeq \/ accepted'[headSeq'].ops \subseteq x
  PROVE  NoGap(s, c, x, z)'
<1>0. /\ headSeq \in Nat /\ headSeq' \in Nat /\ seqFloor \in Nat /\ seqFloor' \in Nat /\ seqFloor <= headSeq
      /\ seqFloor' >= seqFloor /\ headSeq' >= headSeq
      /\ \A m \in 1 .. headSeq : m \in 1 .. headSeq' /\ accepted'[m] = accepted[m]
  BY DEF LogInv, LogTypeOK, LogIsSuffix, LogGrows
<1>1. /\ c.cursor \in Nat /\ c.base \in Nat /\ z.cursor \in Nat
      /\ r.bcast \in Seq(RoomEvents(Ops)) /\ r.down \in Seq(DownFrames(Ops))
      /\ \A f \in ToSet(r.down) : Numbered(f) => f.seq \in Nat
      /\ \A v \in ToSet(r.bcast) : v.frame.seq \in Nat /\ v.frame.kind \in {"row", "ack"}
      /\ \A f \in ToSet(r.up) : f.kind = "rowsReq" => f.after \in Nat
  BY TypedParts
<1>2. c.cursor <= headSeq /\ c.base <= headSeq  BY DEF ClientTrue
<1>3. \A f \in ToSet(r.down) : Numbered(f) => f.seq <= headSeq
  <2>1. \A f \in ToSet(r.down) : Numbered(f) => f.seq \in 1 .. headSeq  BY DEF SockTrue, TrueFrame, Numbered
  <2> QED  BY <1>0, <2>1
<1>4. \A v \in ToSet(r.bcast) : v.frame.seq <= headSeq
  <2>1. \A v \in ToSet(r.bcast) : v.frame.seq \in 1 .. headSeq  BY <1>1 DEF SockTrue, TrueFrame
  <2> QED  BY <1>0, <2>1
<1>5. s.open = r.open /\ s.owes = r.owes /\ s.up = r.up /\ s.down = r.down /\ (~ s.open => s.bcast = r.bcast)
  BY DEF SameButEvents
<1>6. ASSUME NEW u, NEW n \in Nat, n <= headSeq, HeldTo(u, n) PROVE HeldTo(u, n)'
  <2> SUFFICES ASSUME NEW m \in 1 .. headSeq', seqFloor' < m, m <= n PROVE accepted'[m].ops \subseteq u
    BY DEF HeldTo
  <2>1. m \in 1 .. headSeq /\ seqFloor < m  BY <1>0, <1>6
  <2> QED  BY <1>0, <1>6, <2>1 DEF HeldTo
<1>7. Resting(c, x, z)'
  <2>1. Resting(c, x, z)  BY DEF NoGap
  <2> QED  BY <1>1, <1>2, <1>6, <2>1 DEF Resting
<1>8. Asking(s, c, x)'
  <2>1. Asking(r, c, x)  BY DEF NoGap
  <2>2. ASSUME c.phase = "backfill", NEW f \in ToSet(r.up), f.kind = "rowsReq" PROVE HeldTo(x, f.after)'
    <3>1. r.open  BY <2>2 DEF SockTrue
    <3>2. (f.after <= c.cursor \/ f.after <= seqFloor) /\ f.after \in Nat  BY <1>1, <2>2, <3>1 DEF Talking
    <3>3. f.after <= headSeq  BY <1>0, <1>1, <1>2, <3>2
    <3>4. HeldTo(x, f.after)  BY <2>1, <2>2 DEF Asking
    <3> QED  BY <1>6, <3>2, <3>3, <3>4
  <2>3. c.phase \in {"hello", "fetch"} => s.owes # "rowsDone" /\ ~ Holds(s, "rowsDone")
    BY <1>5, <2>1 DEF Asking, Holds
  <2>4. c.phase = "backfill" => \A f \in ToSet(s.up) : f.kind = "rowsReq" => HeldTo(x, f.after)'
    BY <1>5, <2>2
  <2> QED  BY <2>3, <2>4 DEF Asking, Holds, ToSet
<1>9. Fed(s, c) = Fed(r, c)  BY <1>5 DEF Fed, Holds
<1>10. s.bcast # r.bcast \/ (r.open /\ headSeq' # headSeq) =>
         \E v \in RoomEvents(Ops) :
           /\ s.bcast = Append(r.bcast, v)
           /\ v.frame.kind = "row" => v.frame.seq = headSeq + 1
           /\ v.frame.kind = "row" \/ headSeq' = headSeq \/ accepted'[headSeq'].ops \subseteq x
  BY <1>5
<1>11. ASSUME s.bcast # r.bcast, EventsInOrder(r.bcast)
       PROVE  /\ EventsInOrder(s.bcast)
              /\ \A u \in ToSet(s.bcast) : u \in ToSet(r.bcast) \/ (u.frame.kind = "row" => u.frame.seq = headSeq + 1)
  <2>1. PICK v \in RoomEvents(Ops) : s.bcast = Append(r.bcast, v) /\ (v.frame.kind = "row" => v.frame.seq = headSeq + 1)
    BY <1>10, <1>11
  <2>2. v.frame.kind = "row" => \A u \in ToSet(r.bcast) : u.frame.seq < v.frame.seq  BY <1>0, <1>1, <1>4, <2>1
  <2>3. EventsInOrder(Append(r.bcast, v))  BY <1>1, <1>11, <2>2, EventsOfAppend
  <2>4. ToSet(Append(r.bcast, v)) = ToSet(r.bcast) \cup {v}  BY <1>1, ToSetOfAppend
  <2> QED  BY <2>1, <2>3, <2>4
<1>12. Ranked(s, c, z)
  <2> SUFFICES ASSUME Fed(s, c)
               PROVE  /\ InOrder(s.down, c.phase) /\ EventsInOrder(s.bcast)
                      /\ \A g \in LiveRows(s.down, c.phase) : g.seq > c.cursor /\ g.seq > z.cursor
                      /\ \A v \in ToSet(s.bcast) : v.frame.kind = "row" =>
                           /\ v.frame.seq > c.cursor /\ v.frame.seq > z.cursor
                           /\ \A g \in ToSet(s.down) : Numbered(g) => g.seq < v.frame.seq
    BY DEF Ranked
  <2>1. /\ InOrder(r.down, c.phase) /\ EventsInOrder(r.bcast)
        /\ \A g \in LiveRows(r.down, c.phase) : g.seq > c.cursor /\ g.seq > z.cursor
        /\ \A v \in ToSet(r.bcast) : v.frame.kind = "row" =>
             /\ v.frame.seq > c.cursor /\ v.frame.seq > z.cursor
             /\ \A g \in ToSet(r.down) : Numbered(g) => g.seq < v.frame.seq
    BY <1>9 DEF NoGap, Ranked
  <2>2. EventsInOrder(s.bcast)  BY <1>11, <2>1
  <2>3. ASSUME NEW v \in ToSet(s.bcast), v.frame.kind = "row"
        PROVE  /\ v.frame.seq > c.cursor /\ v.frame.seq > z.cursor
               /\ \A g \in ToSet(s.down) : Numbered(g) => g.seq < v.frame.seq
    <3>1. CASE v \in ToSet(r.bcast)  BY <1>5, <2>1, <2>3, <3>1
    <3>2. CASE v \notin ToSet(r.bcast)
      <4>1. v.frame.seq = headSeq + 1  BY <1>11, <2>1, <2>3, <3>2
      <4>2. \A g \in ToSet(s.down) : Numbered(g) => g.seq < v.frame.seq  BY <1>0, <1>1, <1>3, <1>5, <4>1
      <4> QED  BY <1>0, <1>1, <1>2, <4>1, <4>2
    <3> QED  BY <3>1, <3>2
  <2> QED  BY <1>5, <2>1, <2>2, <2>3
<1>13. Ranked(s, c, z)'
  BY <1>12 DEF Ranked, Fed, Holds, ToSet, InOrder, EventsInOrder, LiveRows, Live, Numbered
<1>14. \A u \in ToSet(r.bcast) : u \in ToSet(s.bcast)
  <2>1. CASE s.bcast = r.bcast  BY <2>1
  <2>2. CASE s.bcast # r.bcast
    <3>1. PICK v \in RoomEvents(Ops) : s.bcast = Append(r.bcast, v)  BY <1>10, <2>2
    <3>2. ToSet(Append(r.bcast, v)) = ToSet(r.bcast) \cup {v}  BY <1>1, ToSetOfAppend
    <3> QED  BY <3>1, <3>2
  <2> QED  BY <2>1, <2>2
<1>15. ASSUME Fed(s, c), NEW n \in 1 .. headSeq', seqFloor' < n, Reached(s, c, z, n)
       PROVE  accepted'[n].ops \subseteq x \/ Brings(s, n)
  <2>1. CASE n <= headSeq
    <3>1. n \in 1 .. headSeq /\ seqFloor < n  BY <1>0, <2>1, <1>15
    <3>2. Reached(r, c, z, n)  BY <1>5, <1>15 DEF Reached
    <3>3. accepted[n].ops \subseteq x \/ Brings(r, n)  BY <1>9, <1>15, <3>1, <3>2 DEF NoGap, Covered
    <3>4. Brings(r, n) => Brings(s, n)  BY <1>5, <1>14 DEF Brings
    <3> QED  BY <1>0, <3>1, <3>3, <3>4
  <2>2. CASE ~ n <= headSeq
    <3>1. n = headSeq + 1 /\ headSeq' = n /\ headSeq' # headSeq  BY <1>0, <2>2
    <3>2. r.open
      <4>1. ~ n <= c.cursor /\ ~ n <= z.cursor  BY <1>0, <1>1, <1>2, <3>1
      <4>2. \A f \in ToSet(s.down) : Numbered(f) => ~ n <= f.seq  BY <1>0, <1>1, <1>3, <1>5, <3>1
      <4> QED  BY <1>5, <1>15, <4>1, <4>2 DEF Reached
    <3>3. PICK v \in RoomEvents(Ops) :
            /\ s.bcast = Append(r.bcast, v)
            /\ v.frame.kind = "row" => v.frame.seq = headSeq + 1
            /\ v.frame.kind = "row" \/ headSeq' = headSeq \/ accepted'[headSeq'].ops \subseteq x
      BY <1>10, <3>1, <3>2
    <3>4. CASE v.frame.kind = "row"
      <4>1. v \in ToSet(s.bcast)
        <5>1. ToSet(Append(r.bcast, v)) = ToSet(r.bcast) \cup {v}  BY <1>1, ToSetOfAppend
        <5> QED  BY <3>3, <5>1
      <4> QED  BY <3>1, <3>3, <3>4, <4>1 DEF Brings
    <3>5. CASE v.frame.kind # "row"  BY <3>1, <3>3, <3>5
    <3> QED  BY <3>4, <3>5
  <2> QED  BY <2>1, <2>2
<1>16. Covered(s, c, x, z)'  BY <1>15 DEF Covered, Fed, Reached, Brings, Holds, ToSet, Numbered
<1>17. StoredWell(c, x, z)'
  <2>1. StoredWell(c, x, z)  BY DEF NoGap
  <2>2. \A n \in 1 .. headSeq' : n <= z.cursor => n \in 1 .. headSeq  BY <1>0, <1>1
  <2> QED  BY <1>0, <2>1, <2>2 DEF StoredWell
<1> QED  BY <1>7, <1>8, <1>13, <1>16, <1>17 DEF NoGap

LEMMA PublishNoGap ==
  ASSUME Shapes(Ops), Basic(Ops), LogInv, NEW socks \in [Devices -> Socks(Ops)],
         NEW origin \in Devices \cup {DeadSocket}, NEW device \in Devices, NEW b \in Batches(Ops), b.id \in BatchIds,
         AppendAndPublish(socks, origin, device, b), UNCHANGED <<client, doc, disk>>,
         \A e \in Devices : /\ Talking(socks[e], client[e]) /\ NoGap(socks[e], client[e], doc[e], disk[e])
                            /\ SockTrue(socks[e]) /\ ClientTrue(client[e]) /\ disk[e].cursor <= headSeq,
         \A e \in Devices : e = origin => b.ops \subseteq doc[e]
  PROVE  \A e \in Devices : Gapless(e)'
<1>1. PublishStep(Ops, socks, origin, device, b)  BY PublishEffect
<1>2. LogInv' /\ headSeq \in Nat /\ \A e \in Devices : SameButEvents(socks[e], sock'[e])
  BY <1>1 DEF PublishStep, LogInv, LogTypeOK
<1>3. /\ LogGrows
      /\ \/ UNCHANGED logVars /\ headSeq' = headSeq
         \/ headSeq' = headSeq + 1 /\ accepted'[headSeq + 1].ops = b.ops
  <2>1. CASE Appended(socks, origin, device, b)  BY <1>2, <2>1 DEF Appended, LogGrows, LogInv, LogTypeOK
  <2>2. CASE Replayed(socks, origin, b)  BY <1>2, <2>2 DEF Replayed, LogGrows, LogInv, LogTypeOK, logVars
  <2> QED  BY <1>1, <2>1, <2>2 DEF PublishStep
<1>4. headSeq' \in {headSeq, headSeq + 1} /\ headSeq' # headSeq => ~ UNCHANGED logVars  BY <1>3 DEF logVars
<1> SUFFICES ASSUME NEW e \in Devices PROVE Gapless(e)'  OBVIOUS
<1>5. PICK r, s, c, x, z : r = socks[e] /\ s = sock'[e] /\ c = client[e] /\ x = doc[e] /\ z = disk[e]  OBVIOUS
<1>6. Typed(r, c, z)  BY <1>5, ShapeParts DEF Typed
<1>7. Talking(r, c) /\ NoGap(r, c, x, z) /\ SockTrue(r) /\ ClientTrue(c) /\ z.cursor <= headSeq /\ SameButEvents(r, s)
  BY <1>2, <1>5
<1>8. r.open => \/ headSeq' = headSeq /\ s.bcast = r.bcast
                \/ \E v \in RoomEvents(Ops) :
                     /\ s.bcast = Append(r.bcast, v)
                     /\ v.frame.kind = "row" => v.frame.seq = headSeq + 1
                     /\ v.frame.kind = "row" \/ headSeq' = headSeq \/ accepted'[headSeq'].ops \subseteq x
  <2> SUFFICES ASSUME r.open
               PROVE  \/ headSeq' = headSeq /\ s.bcast = r.bcast
                      \/ \E v \in RoomEvents(Ops) :
                           /\ s.bcast = Append(r.bcast, v)
                           /\ v.frame.kind = "row" => v.frame.seq = headSeq + 1
                           /\ v.frame.kind = "row" \/ headSeq' = headSeq \/ accepted'[headSeq'].ops \subseteq x
    OBVIOUS
  <2>1. \/ UNCHANGED logVars /\ s.bcast = r.bcast
        \/ \E v \in RoomEvents(Ops) :
             /\ s.bcast = Append(r.bcast, v)
             /\ v.frame.kind = "row" => v.frame.seq = headSeq + 1
             /\ v.frame.kind = "row" \/ e = origin
    BY <1>5, PublishAppends
  <2>2. e = origin => headSeq' = headSeq \/ accepted'[headSeq'].ops \subseteq x  BY <1>3, <1>5
  <2>3. UNCHANGED logVars => headSeq' = headSeq  BY DEF logVars
  <2> QED  BY <2>1, <2>2, <2>3
<1>9. NoGap(s, c, x, z)'
  <2>1. headSeq' \in {headSeq, headSeq + 1}  BY <1>3
  <2> QED  BY <1>2, <1>3, <1>6, <1>7, <1>8, <2>1, PublishedIsNoGap
<1>10. c = client'[e] /\ x = doc'[e] /\ z = disk'[e]  BY <1>5
<1> QED  BY <1>5, <1>9, <1>10, GaplessBecomes

LEMMA PushNoGap ==
  ASSUME Shapes(Ops), Basic(Ops), LogInv, Truth, NEW d \in Devices, HandlePush(d), Untouched,
         \A f \in ToSet(sock[d].up) : f.kind = "push" => f.batch.id \in BatchIds,
         \A e \in Devices : Relays(e) /\ Owned(e) /\ Gapless(e)
  PROVE  \A e \in Devices : Gapless(e)'
<1>0. PICK o \in Socks(Ops), c \in Clients(Ops), x \in SUBSET Ops : o = sock[d] /\ c = client[d] /\ x = doc[d]
  BY ShapeParts
<1>1. Talking(o, c) /\ NoGap(o, c, x, disk[d])  BY <1>0 DEF Relays, Gapless
<1>2. PICK f : f = Head(o.up)  OBVIOUS
<1>3. /\ f \in UpFrames(Ops) /\ f.kind = "push" /\ f \in ToSet(o.up) /\ o.open /\ Tail(o.up) \in Seq(UpFrames(Ops))
      /\ ToSet(Tail(o.up)) \subseteq ToSet(o.up)
  <2>1. NextFrame(d, "push")  BY DEF HandlePush
  <2>2. /\ sock[d].open
        /\ Head(sock[d].up) \in UpFrames(Ops) /\ Head(sock[d].up).kind = "push"
        /\ Head(sock[d].up) \in ToSet(sock[d].up)
        /\ Tail(sock[d].up) \in Seq(UpFrames(Ops))
        /\ ToSet(sock[d].up) = {Head(sock[d].up)} \cup ToSet(Tail(sock[d].up))
    BY <2>1, NextFrameParts
  <2> QED  BY <1>0, <1>2, <2>2
<1>4. PICK b \in Batches(Ops) : b = f.batch  BY <1>3, FrameParts
<1>5. b.id \in BatchIds  BY <1>0, <1>3, <1>4
<1>6. PICK u \in Seq(UpFrames(Ops)) : u = Tail(o.up)  BY <1>3
<1>7. PICK s : s = [o EXCEPT !.up = u]  OBVIOUS
<1>8. /\ s \in Socks(Ops) /\ s.open = o.open /\ s.ready = o.ready /\ s.owes = o.owes /\ s.stats = o.stats
      /\ s.down = o.down /\ s.bcast = o.bcast /\ s.up = u
  BY <1>7 DEF Socks
<1>9. PICK socks : socks = [sock EXCEPT ![d] = s]  OBVIOUS
<1>10. /\ socks \in [Devices -> Socks(Ops)] /\ socks[d] = s /\ \A e \in Devices : e # d => socks[e] = sock[e]
       /\ socks = [sock EXCEPT ![d].up = Tail(@)]
  BY <1>0, <1>6, <1>7, <1>8, <1>9 DEF Shapes
<1>11. AppendAndPublish(socks, d, d, b)  BY <1>0, <1>2, <1>4, <1>10 DEF HandlePush
<1>12. c.phase = "steady"
  <2>1. Hello.kind = "hello"  BY DEF Hello
  <2>2. c.phase \in {"hello", "fetch", "backfill", "steady"}  BY <1>1, <1>3 DEF Talking
  <2>3. c.phase # "hello"  BY <1>1, <1>3, <2>1 DEF Talking
  <2>4. c.phase # "fetch"  BY <1>1, <1>3 DEF Talking
  <2>5. c.phase # "backfill"  BY <1>1, <1>3 DEF Talking
  <2> QED  BY <2>2, <2>3, <2>4, <2>5
<1>13. Talking(s, c)
  <2>1. \A kind : Holds(s, kind) = Holds(o, kind)  BY <1>8 DEF Holds
  <2>2. \A g \in ToSet(o.up) : g.kind = "push"  BY <1>1, <1>3, <1>12 DEF Talking
  <2>3. \A g \in ToSet(s.up) : g.kind = "push"  BY <1>3, <1>6, <1>8, <2>2
  <2>4. ~ Asked(s)  BY <2>3 DEF Asked
  <2>5. o.open /\ (o.owes = "state" \/ Holds(o, "state") => o.ready) /\ o.ready  BY <1>1, <1>3, <1>12 DEF Talking
  <2> QED  BY <1>8, <1>12, <2>3, <2>4, <2>5 DEF Talking
<1>14. NoGap(s, c, x, disk[d])
  <2>1. StoredWell(c, x, disk[d])  BY <1>1 DEF NoGap
  <2> QED  BY <1>1, <1>8, <1>12, <2>1, NoGapKeeps
<1>15. SockTrue(s)  BY <1>0, <1>3, <1>8 DEF SockTrue, Truth, TrueTo
<1>16. b.ops \subseteq doc[d]
  <2>1. PICK F : F = ToSet(sock[d].up)  OBVIOUS
  <2>2. f \in F  BY <1>0, <1>3, <2>1
  <2>3. b \in Pushed(F)  BY <1>3, <1>4, <2>2, PushedFacts
  <2>4. b \in Known(d)  BY <2>1, <2>3, KnownFacts
  <2>5. b.ops \subseteq Own(d)  BY <2>4 DEF Owned
  <2> QED  BY <1>0, <1>12, <2>5 DEF Own
<1>17. ASSUME NEW e \in Devices
       PROVE  /\ Talking(socks[e], client[e]) /\ NoGap(socks[e], client[e], doc[e], disk[e])
              /\ SockTrue(socks[e]) /\ ClientTrue(client[e]) /\ disk[e].cursor <= headSeq
  <2>1. ClientTrue(client[e]) /\ disk[e].cursor <= headSeq /\ SockTrue(sock[e])  BY DEF Truth, TrueTo
  <2>2. CASE e = d  BY <1>0, <1>10, <1>13, <1>14, <1>15, <2>1, <2>2
  <2>3. CASE e # d  BY <1>10, <2>1, <2>3 DEF Relays, Gapless
  <2> QED  BY <2>2, <2>3
<1>18. UNCHANGED <<client, doc, disk>> /\ d \in Devices \cup {DeadSocket}  BY DEF Untouched
<1> QED  BY <1>5, <1>10, <1>11, <1>16, <1>17, <1>18, PublishNoGap

LEMMA StaleNoGap ==
  ASSUME Shapes(Ops), Basic(Ops), LogInv, Truth, NEW d \in Devices, HandleStalePush(d), Untouched,
         \A f \in ToSet(stale[d]) : f.batch.id \in BatchIds,
         \A e \in Devices : Relays(e) /\ Gapless(e)
  PROVE  \A e \in Devices : Gapless(e)'
<1>1. PICK q \in Seq(Pushes(Ops)) : q = stale[d] /\ q # <<>>  BY ShapeParts DEF HandleStalePush
<1>2. Head(q) \in Pushes(Ops) /\ ToSet(q) = {Head(q)} \cup ToSet(Tail(q))  BY <1>1, ToSetOfTail
<1>3. PICK b \in Batches(Ops) : b = Head(q).batch  BY <1>2 DEF Pushes
<1>4. b.id \in BatchIds  BY <1>1, <1>2, <1>3
<1>5. PICK socks \in [Devices -> Socks(Ops)] : socks = sock  BY DEF Shapes
<1>6. AppendAndPublish(socks, DeadSocket, d, b)  BY <1>1, <1>3, <1>5 DEF HandleStalePush
<1>7. ASSUME NEW e \in Devices
      PROVE  /\ Talking(socks[e], client[e]) /\ NoGap(socks[e], client[e], doc[e], disk[e])
             /\ SockTrue(socks[e]) /\ ClientTrue(client[e]) /\ disk[e].cursor <= headSeq
  <2>1. Relays(e) /\ Gapless(e) /\ TrueTo(e)  BY DEF Truth
  <2> QED  BY <1>5, <2>1 DEF Relays, Gapless, TrueTo
<1>8. \A e \in Devices : e # DeadSocket  BY ChatRoomAssumption
<1>9. UNCHANGED <<client, doc, disk>> /\ DeadSocket \in Devices \cup {DeadSocket}  BY DEF Untouched
<1> QED  BY <1>4, <1>6, <1>7, <1>8, <1>9, PublishNoGap

LEMMA HubNoGap ==
  ASSUME Shapes(Ops), Basic(Ops), LogInv, Truth, NEW d \in Devices, HubStep(d), Untouched,
         \A f \in ToSet(sock[d].up) : f.kind = "push" => f.batch.id \in BatchIds,
         \A e \in Devices : Relays(e) /\ Owned(e) /\ Gapless(e)
  PROVE  \A e \in Devices : Gapless(e)'
<1>1. Relays(d) /\ Owned(d) /\ \A e \in Devices : Gapless(e)  OBVIOUS
<1> QED  BY <1>1, ServeNoGap, LagNoGap, HelloNoGap, AnswerNoGap, RequestNoGap, PushNoGap DEF HubStep

\* Sockets, sessions and documents stay; a checkpoint may raise the floor.
LEMMA QuietNoGap ==
  ASSUME LogInv, LogInv', LogGrows, headSeq' = headSeq, UNCHANGED <<sock, client, doc, disk>>,
         \A e \in Devices : Gapless(e)
  PROVE  \A e \in Devices : Gapless(e)'
<1> SUFFICES ASSUME NEW e \in Devices PROVE Gapless(e)'  OBVIOUS
<1>1. PICK s, c, x, z : s = sock[e] /\ c = client[e] /\ x = doc[e] /\ z = disk[e]  OBVIOUS
<1>2. NoGap(s, c, x, z)  BY <1>1 DEF Gapless
<1>3. NoGap(s, c, x, z)'  BY <1>2, NoGapLasts
<1>4. s = sock'[e] /\ c = client'[e] /\ x = doc'[e] /\ z = disk'[e]  BY <1>1
<1> QED  BY <1>3, <1>4, GaplessBecomes

GapInv == \A d \in Devices : Gapless(d)

LEMMA GapInvStep ==
  ASSUME "overlap" \notin FaultKinds, SyncInv, Truth, OnlyMade, RelayInv, GapInv, NEW d \in Devices, Acts(d), BackfillsEnd
  PROVE  GapInv'
<1>0. /\ Shapes(Ops) /\ Basic(Ops) /\ LogInv /\ headSeq <= MaxSeq
      /\ \A b \in Known(d) : b.id \in BatchIds
      /\ \A f \in ToSet(sock[d].up) : f.kind = "push" => f.batch \in Known(d)
      /\ \A f \in ToSet(stale[d]) : f.kind = "push" /\ f.batch \in Known(d)
      /\ TrueTo(d) /\ LogInv' /\ Shapes(Ops)'
  BY SyncParts, StepNames DEF Truth
<1>1. \A e \in Devices : Settled(e) /\ Owned(e) /\ Relays(e) /\ Gapless(e)  BY DEF RelayInv, GapInv
<1> SUFFICES \A e \in Devices : Gapless(e)'  BY DEF GapInv
<1>2. CASE Hub(d)
  <2>1. HubStep(d) /\ Untouched  BY <1>2 DEF Hub, Untouched
  <2>2. \A f \in ToSet(sock[d].up) : f.kind = "push" => f.batch.id \in BatchIds  BY <1>0
  <2> QED  BY <1>0, <1>1, <2>1, <2>2, HubNoGap
<1>3. CASE HandleStalePush(d) /\ Untouched
  <2>1. \A f \in ToSet(stale[d]) : f.batch.id \in BatchIds  BY <1>0
  <2> QED  BY <1>0, <1>1, <1>3, <2>1, StaleNoGap
<1>4. CASE Session(d) \/ Cut(d) \/ Dial(d)  BY <1>0, <1>1, <1>4, SessionNoGap
<1>5. CASE Open(d) \/ Commit(d) \/ SaveSnapshot(d) \/ BeginSave(d) \/ FinishSave(d) \/ Crash(d) \/ Evict(d)
  BY <1>0, <1>1, <1>5, HandleNoGap
<1>6. CASE (LoseStale(d) /\ Untouched) \/ CheckpointWorker(d)
  <2>1. /\ UNCHANGED <<sock, client, doc, disk>>
        /\ headSeq' = headSeq /\ accepted' = accepted /\ seqFloor' >= seqFloor
    <3>1. CASE LoseStale(d) /\ Untouched
      BY <1>0, <3>1 DEF LoseStale, Untouched, logVars, LogInv, LogTypeOK
    <3>2. CASE BeginCheckpoint(d) \/ ExportSnapshot(d) \/ PostCheckpoint(d) \/ LoseCheckpoint(d)
      <4>1. UNCHANGED <<logVars, roomVars, client, doc, disk, saving, adrift, commits, minted, faults>>
        BY <1>0, <3>2, WorkerEffect
      <4> QED  BY <1>0, <4>1 DEF logVars, roomVars, LogInv, LogTypeOK
    <3>3. CASE PostAnswered(d)  BY <1>0, <3>3, AnsweredEffect DEF roomVars
    <3> QED  BY <1>6, <3>1, <3>2, <3>3 DEF CheckpointWorker, PostAnswered
  <2>2. LogGrows  BY <1>0, <2>1 DEF LogGrows, LogInv, LogTypeOK
  <2> QED  BY <1>0, <1>1, <2>1, <2>2, QuietNoGap
<1> QED  BY <1>2, <1>3, <1>4, <1>5, <1>6 DEF Acts, Environment, Untouched

LEMMA InitGapInv ==
  ASSUME Init
  PROVE  GapInv
<1> SUFFICES ASSUME NEW d \in Devices PROVE Gapless(d)  BY DEF GapInv
<1>1. sock[d] = NoSocket /\ client[d] = NoClient /\ headSeq = 0  BY DEF Init, RoomInit, LogInit
<1>2. PICK s, c, x, z : s = sock[d] /\ c = client[d] /\ x = doc[d] /\ z = disk[d]  OBVIOUS
<1>3. c.phase = "closed"  BY <1>1, <1>2 DEF NoClient
<1>4. \A u, n : HeldTo(u, n)  BY <1>1 DEF HeldTo
<1>5. Resting(c, x, z) /\ Asking(s, c, x) /\ StoredWell(c, x, z)  BY <1>3, <1>4 DEF Resting, Asking, StoredWell
<1>6. NoGap(s, c, x, z)  BY <1>3, <1>5, NoGapUnfed DEF Fed
<1> QED  BY <1>2, <1>6 DEF Gapless

LEMMA GapInvKept ==
  ASSUME "overlap" \notin FaultKinds, SyncInv, Truth, OnlyMade, RelayInv, GapInv,
         [Next /\ BackfillsEnd /\ StoredAtTheEnd]_vars
  PROVE  RelayInv' /\ GapInv'
<1>1. CASE Next /\ BackfillsEnd /\ StoredAtTheEnd
  <2>1. PICK d \in Devices : Acts(d)  BY <1>1, NextIsAnAct
  <2>2. BackfillsEnd /\ StoredAtTheEnd  BY <1>1
  <2> QED  BY <2>1, <2>2, RelayInvStays, GapInvStep
<1>2. CASE UNCHANGED vars
  <2>1. UNCHANGED <<logVars, headSeq, accepted, sock, stale, client, doc, disk, saving>>
    BY <1>2 DEF vars, logVars, roomVars
  <2>2. \A d \in Devices : Settled(d) /\ Owned(d) /\ Relays(d)  BY DEF RelayInv
  <2>3. \A d \in Devices : Settled(d)'  BY <2>1, <2>2 DEF Settled
  <2>4. \A d \in Devices : Owned(d)'
    <3>1. \A d \in Devices : Known(d)' = Known(d)  BY <2>1 DEF Known, KnownIn, Pushed, ToSet
    <3>2. \A d \in Devices : Own(d)' = Own(d)  BY <2>1 DEF Own
    <3> QED  BY <2>1, <2>2, <3>1, <3>2 DEF Owned
  <2>5. Shapes(Ops) /\ LogInv  BY SyncParts
  <2>6. LogInv' /\ LogGrows  BY <2>1, <2>5, LogStays
  <2>7. \A d \in Devices : Relays(d)'  BY <2>1, <2>2, <2>5, <2>6, QuietRelays
  <2>8. GapInv'  BY <2>1, <2>5, <2>6, QuietNoGap DEF GapInv
  <2> QED  BY <2>3, <2>4, <2>7, <2>8 DEF RelayInv
<1> QED  BY <1>1, <1>2

\* Of the rows the room still has, none below a cursor is missing from the document,
\* nor from the snapshot a restart starts from.
NoRowSkipped ==
  \A d \in Devices :
    /\ Phase(d) \notin {"closed", "backfill"} => HeldTo(doc[d], client[d].cursor)
    /\ Phase(d) # "backfill" => HeldTo(disk[d].doc, disk[d].cursor)

LEMMA GapsFollow ==
  ASSUME SyncInv, GapInv
  PROVE  NoRowSkipped
<1>0. Shapes(Ops) /\ LogInv  BY SyncParts
<1> SUFFICES ASSUME NEW d \in Devices
             PROVE  /\ Phase(d) \notin {"closed", "backfill"} => HeldTo(doc[d], client[d].cursor)
                    /\ Phase(d) # "backfill" => HeldTo(disk[d].doc, disk[d].cursor)
  BY DEF NoRowSkipped
<1>1. PICK s, c, x, z : s = sock[d] /\ c = client[d] /\ x = doc[d] /\ z = disk[d]  OBVIOUS
<1>2. Typed(s, c, z) /\ NoGap(s, c, x, z)  BY <1>0, <1>1, DeviceIsTyped DEF Gapless, GapInv
<1>3. c.phase \in Phases  BY <1>2, TypedParts
<1>4. CASE c.phase = "closed"
  <2>1. HeldTo(z.doc, z.cursor)  BY <1>2, <1>4 DEF NoGap, Resting
  <2> QED  BY <1>1, <1>4, <2>1 DEF Phase
<1>5. CASE c.phase \in {"idle", "hello", "fetch", "steady"}
  <2>1. HeldTo(x, c.cursor) /\ HeldTo(x, z.cursor)  BY <1>0, <1>2, <1>5, SteadyIsHeld
  <2>2. \A n \in 1 .. headSeq : n <= z.cursor => accepted[n].ops \cap x \subseteq z.doc
    BY <1>2, <1>5 DEF NoGap, StoredWell
  <2>3. HeldTo(z.doc, z.cursor)  BY <2>1, <2>2 DEF HeldTo
  <2> QED  BY <1>1, <2>1, <2>3
<1>6. CASE c.phase = "backfill"  BY <1>1, <1>6 DEF Phase
<1> QED  BY <1>3, <1>4, <1>5, <1>6 DEF Phases

\* What a session and a restart ask for, the rows above a cursor, is all the document
\* lacks of the rows the room has: rows, acks, backfills, relays, lag closes, redials,
\* saves, crashes and evictions may come in any order.  It takes that a backfill once
\* begun comes to its end (a cut in it leaves the cursor of some row above others that
\* never came), that saves do not overtake each other, and that a process does not die
\* with operations unsaved that it has pushed: a rejoin is not sent its own rows.
THEOREM CursorsSkipNoRow ==
  ASSUME "overlap" \notin FaultKinds
  PROVE  Spec /\ [][BackfillsEnd /\ StoredAtTheEnd]_vars => []NoRowSkipped
<1>1. Init => RelayInv /\ GapInv  BY InitRelayInv, InitGapInv
<1>2. (SyncInv /\ Truth) /\ OnlyMade /\ (RelayInv /\ GapInv) /\ [Next]_vars /\ [BackfillsEnd /\ StoredAtTheEnd]_vars
        => (RelayInv /\ GapInv)'
  BY GapInvKept
<1>3. SyncInv /\ GapInv => NoRowSkipped  BY GapsFollow
<1> QED  BY <1>1, <1>2, <1>3, SyncInvariant, OnlyMadeIsKnown, PTL DEF Spec

-----------------------------------------------------------------------------
(* Checkpoints.                                                            *)
(*                                                                         *)
(* The worker reads the cursor of a session that is not in a backfill, and *)
(* from then on what its device has of its own holds all the rows up to    *)
(* it, those the room has pruned included: it was this device that posted  *)
(* the checkpoint they were pruned by.                                     *)

HasAll(x, n) == \A m \in 1 .. headSeq : m <= n => accepted[m].ops \subseteq x

\* The stored checkpoint.
CheckpointWhole == HasAll(checkpoint.ops, checkpoint.seq) /\ checkpoint.ops \subseteq checkpoint.frontier

\* The one being made.
JobWhole(d) ==
  /\ d \notin Checkpointers => job[d].stage = "none"
  /\ job[d].stage # "none" => job[d].seq <= headSeq
  /\ job[d].stage \in {"cursor", "snapshot"} => client[d].phase # "closed"
  /\ job[d].stage \in {"snapshot", "sent"} => HasAll(job[d].ops, job[d].seq)
  /\ job[d].stage = "snapshot" => job[d].ops \subseteq doc[d]
  /\ job[d].stage = "sent" => job[d].ops \subseteq job[d].frontier

\* Those whose handle is gone.
AdriftWhole(d) ==
  \A post \in adrift[d] :
    /\ d \in Checkpointers /\ post.seq <= headSeq
    /\ HasAll(post.ops, post.seq) /\ post.ops \subseteq post.frontier
    /\ HasAll(Own(d), post.seq)

\* Who posts checkpoints keeps what is in them.
Keeps(d) ==
  d \in Checkpointers =>
    /\ HasAll(Own(d), checkpoint.seq)
    /\ job[d].stage # "none" => HasAll(Own(d), job[d].seq)

\* No closed handle has joined.
Apart(d) == client[d].phase = "closed" => ~ client[d].joined

LEMMA HasAllMore ==
  ASSUME LogInv, NEW x, NEW y, NEW n \in Nat, NEW m \in Nat, HasAll(x, n), x \subseteq y, m <= n
  PROVE  HasAll(y, m)
<1>1. headSeq \in Nat  BY DEF LogInv, LogTypeOK
<1> SUFFICES ASSUME NEW k \in 1 .. headSeq, k <= m PROVE accepted[k].ops \subseteq y  BY DEF HasAll
<1>2. k <= n  BY <1>1
<1>3. accepted[k].ops \subseteq x  BY <1>2 DEF HasAll
<1> QED  BY <1>3

LEMMA HasAllLasts ==
  ASSUME LogInv, LogInv', LogGrows, NEW x, NEW n \in Nat, n <= headSeq, HasAll(x, n)
  PROVE  HasAll(x, n)'
<1>1. headSeq \in Nat /\ headSeq' \in Nat  BY DEF LogInv, LogTypeOK
<1> SUFFICES ASSUME NEW k \in 1 .. headSeq', k <= n PROVE accepted'[k].ops \subseteq x  BY DEF HasAll
<1>2. k \in 1 .. headSeq  BY <1>1
<1>3. accepted'[k] = accepted[k]  BY <1>2 DEF LogGrows
<1>4. accepted[k].ops \subseteq x  BY <1>2 DEF HasAll
<1> QED  BY <1>3, <1>4

\* What is kept grows, the log with it.
LEMMA HasAllGrows ==
  ASSUME LogInv, LogInv', LogGrows, NEW x, NEW y, NEW n \in Nat, n <= headSeq, HasAll(x, n), x \subseteq y
  PROVE  HasAll(y, n)'
<1>1. HasAll(y, n)  BY HasAllMore
<1> QED  BY <1>1, HasAllLasts

LEMMA CheckpointFacts ==
  ASSUME LogInv
  PROVE  /\ headSeq \in Nat /\ seqFloor \in Nat /\ checkpoint.seq = seqFloor /\ seqFloor <= headSeq
         /\ checkpoint.stored \in BOOLEAN /\ (checkpoint.stored \/ seqFloor = 0)
<1>1. /\ headSeq \in Nat /\ seqFloor \in Nat /\ checkpoint.seq = seqFloor /\ seqFloor <= headSeq
      /\ DOMAIN rows = (seqFloor + 1) .. headSeq
  BY DEF LogInv, LogTypeOK, LogIsSuffix
<1>2. checkpoint.stored \in BOOLEAN  BY DEF LogInv, LogTypeOK, Checkpoint
<1>3. ASSUME seqFloor # 0 PROVE checkpoint.stored
  <2>1. 1 \in 1 .. headSeq /\ 1 \notin DOMAIN rows  BY <1>1, <1>3
  <2> QED  BY <2>1 DEF LogInv, PrunedIsCovered
<1> QED  BY <1>1, <1>2, <1>3

\* What a device has of its own stays, where it is stored at the end of a process.
LEMMA OwnStays ==
  ASSUME "overlap" \notin FaultKinds, SyncInv, RelayInv, NEW d \in Devices, Acts(d), StoredAtTheEnd
  PROVE  \A e \in Devices : Own(e) \subseteq Own(e)'
<1>0. /\ Shapes(Ops) /\ Basic(Ops) /\ (commits[d] < MaxCommits => <<d, commits[d] + 1>> \in Ops)
      /\ \A e \in Devices : Settled(e)
  BY SyncParts DEF RelayInv
<1>1. CASE ~ Crash(d)  BY <1>0, <1>1, OwnGrows
<1>2. CASE Crash(d)
  <2>1. Moves(Ops, d, NoClient, NoSocket) /\ \A e \in Devices : e # d => doc'[e] = doc[e]
    BY <1>0, <1>2, CrashEffect
  <2>2. /\ client'[d].phase = "closed" /\ client[d].phase # "closed" /\ disk' = disk
        /\ \A e \in Devices : e # d => client'[e] = client[e]
    BY <1>0, <1>2, <2>1, MovesAt DEF NoClient, Crash, IsOpen, Phase
  <2>3. disk'[d].doc = doc[d]  BY <2>2 DEF StoredAtTheEnd, IsOpen, Phase
  <2> QED  BY <2>1, <2>2, <2>3 DEF Own
<1> QED  BY <1>1, <1>2

\* Only the answer to a POST changes the checkpoint.
LEMMA CheckpointStays ==
  ASSUME SyncInv, NEW d \in Devices, Acts(d), ~ PostAnswered(d)
  PROVE  checkpoint' = checkpoint
<1>1. ASSUME NEW socks, NEW origin, NEW device, NEW b, AppendAndPublish(socks, origin, device, b)
      PROVE  checkpoint' = checkpoint
  BY <1>1 DEF AppendAndPublish, AppendRow, logVars
<1>2. CASE Hub(d)
  <2>1. CASE HandlePush(d)
    <3>1. \E socks, b : AppendAndPublish(socks, d, d, b)  BY <2>1 DEF HandlePush
    <3> QED  BY <1>1, <3>1
  <2>2. CASE ~ HandlePush(d)
    BY <1>2, <2>2 DEF Hub, HubStep, ServeEvent, CloseLagged, HandleHello, SendState, HandleRowsReq, FinishRows, logVars
  <2> QED  BY <2>1, <2>2
<1>3. CASE Environment(d)
  <2>1. CASE HandleStalePush(d)
    <3>1. \E socks, b : AppendAndPublish(socks, DeadSocket, d, b)  BY <2>1 DEF HandleStalePush
    <3> QED  BY <1>1, <3>1
  <2>2. CASE LoseStale(d)  BY <2>2 DEF LoseStale, logVars
  <2> QED  BY <1>3, <2>1, <2>2 DEF Environment
<1>4. CASE CheckpointWorker(d)
  BY <1>4 DEF CheckpointWorker, PostAnswered, BeginCheckpoint, ExportSnapshot, PostCheckpoint, LoseCheckpoint,
         logVars
<1>5. CASE Session(d) \/ Cut(d)
  <2>1. Shapes(Ops)  BY SyncParts
  <2>2. UNCHANGED logVars
    BY <1>5 DEF Session, ReceiveState, FetchCheckpoint, ReceiveRow, ReceiveAck, ReceiveRowsDone, PushPending,
                SeeClose, Cut, EndSession
  <2> QED  BY <2>2 DEF logVars
<1>6. CASE Open(d) \/ Commit(d) \/ Dial(d) \/ SaveSnapshot(d) \/ BeginSave(d) \/ FinishSave(d)
             \/ Crash(d) \/ Evict(d)
  <2>1. UNCHANGED logVars
    BY <1>6 DEF Open, Commit, Dial, SaveSnapshot, BeginSave, FinishSave, Crash, Evict, CloseHandle
  <2> QED  BY <2>1 DEF logVars
<1> QED  BY <1>2, <1>3, <1>4, <1>5, <1>6 DEF Acts

\* How the log and the checkpoint go on, for all that is said of old numbers.
LEMMA LogGoesOn ==
  ASSUME SyncInv, NEW d \in Devices, Acts(d)
  PROVE  LogInv' /\ LogGrows
<1>0. LogInv /\ LogInv'  BY SyncParts, StepNames
<1>1. CASE PostAnswered(d)
  <2>1. Shapes(Ops) /\ Basic(Ops) /\ LogInv /\ headSeq <= MaxSeq  BY SyncParts
  <2>2. headSeq' = headSeq /\ accepted' = accepted /\ seqFloor' >= seqFloor  BY <1>1, <2>1, AnsweredEffect
  <2>3. headSeq \in Nat /\ seqFloor \in Nat /\ seqFloor' \in Nat  BY <1>0 DEF LogInv, LogTypeOK
  <2> QED  BY <1>0, <2>2, <2>3 DEF LogGrows
<1>2. CASE ~ PostAnswered(d)
  <2>1. NameStep  BY StepNames
  <2>2. checkpoint' = checkpoint  BY <1>2, CheckpointStays
  <2>3. headSeq \in Nat /\ seqFloor' = seqFloor /\ seqFloor \in Nat
    BY <1>0, <2>2 DEF LogInv, LogTypeOK, LogIsSuffix
  <2>4. headSeq' >= headSeq /\ \A m \in 1 .. headSeq : accepted'[m] = accepted[m]
    BY <2>1, <2>3 DEF NameStep, NoNews, LogKept, Mints, Puts
  <2> QED  BY <1>0, <2>2, <2>3, <2>4 DEF LogGrows
<1> QED  BY <1>1, <1>2

LEMMA JobStays ==
  ASSUME SyncInv, NEW d \in Devices, Acts(d), ~ CheckpointWorker(d)
  PROVE  \A e \in Devices :
           /\ job'[e] = job[e] \/ (e = d /\ job'[e].stage = "none")
           /\ \A post \in adrift'[e] : post \in adrift[e] \/ (post = job[e] /\ job[e].stage = "sent")
<1>1. CASE ~ Crash(d) /\ ~ Evict(d)
  <2>1. job' = job /\ adrift' = adrift
    BY <1>1 DEF Acts, Open, Commit, Dial, SaveSnapshot, BeginSave, FinishSave, Hub, Environment, Session,
                ReceiveState, FetchCheckpoint, ReceiveRow, ReceiveAck, ReceiveRowsDone, PushPending, SeeClose,
                Cut, EndSession, engineVars
  <2> QED  BY <2>1
<1>2. CASE Crash(d) \/ Evict(d)
  <2>1. Shapes(Ops) /\ CloseHandle(d)  BY <1>2, SyncParts DEF Crash, Evict
  <2>2. /\ \A e \in Devices : e # d => job'[e] = job[e] /\ adrift'[e] = adrift[e]
        /\ job'[d] = NoJob
        /\ \A post \in adrift'[d] : post \in adrift[d] \/ (post = job[d] /\ job[d].stage = "sent")
    BY <2>1, CloseHandleEffect
  <2> QED  BY <2>2 DEF NoJob
<1> QED  BY <1>1, <1>2

\* A handle is closed by its end only, which comes when no snapshot is being made.
LEMMA HandlesStay ==
  ASSUME SyncInv, NEW d \in Devices, Acts(d)
  PROVE  \A e \in Devices :
           client'[e].phase = "closed" =>
             \/ client[e].phase = "closed" /\ client'[e] = client[e]
             \/ ~ client'[e].joined /\ job'[e].stage = "none"
<1>0. Shapes(Ops) /\ Basic(Ops) /\ (commits[d] < MaxCommits => <<d, commits[d] + 1>> \in Ops)  BY SyncParts
<1> SUFFICES ASSUME NEW e \in Devices, client'[e].phase = "closed"
             PROVE  \/ client[e].phase = "closed" /\ client'[e] = client[e]
                    \/ ~ client'[e].joined /\ job'[e].stage = "none"
  OBVIOUS
<1>1. CASE Crash(d) \/ Evict(d)
  <2>1. Moves(Ops, d, NoClient, NoSocket)  BY <1>0, <1>1, CrashEffect, EvictEffect
  <2>2. client'[d] = NoClient /\ \A f \in Devices : f # d => client'[f] = client[f]  BY <1>0, <2>1, MovesAt
  <2>3. job'[d].stage = "none"
    <3>1. CloseHandle(d)  BY <1>1 DEF Crash, Evict
    <3>2. job'[d] = NoJob  BY <1>0, <3>1, CloseHandleEffect
    <3> QED  BY <3>2 DEF NoJob
  <2>4. CASE e = d  BY <2>2, <2>3, <2>4 DEF NoClient
  <2>5. CASE e # d  BY <2>2, <2>5
  <2> QED  BY <2>4, <2>5
<1>2. CASE ~ Crash(d) /\ ~ Evict(d)
  <2>1. client[e].phase = "closed"  BY <1>0, <1>2, PhaseStays
  <2>2. CASE Session(d) \/ Cut(d) \/ Dial(d)
    <3>1. client[d].phase # "closed" /\ \A f \in Devices : f # d => client'[f] = client[f]
      BY <1>0, <2>2, SessionStores
    <3> QED  BY <2>1, <3>1
  <2>3. CASE Commit(d)
    <3>0. <<d, commits[d] + 1>> \in Ops  BY <1>0, <2>3 DEF Commit
    <3>1. PICK c : client' = [client EXCEPT ![d] = c] /\ c.phase = client[d].phase /\ c.phase # "closed"
      BY <1>0, <2>3, <3>0, CommitEffect
    <3>2. client'[d].phase # "closed" /\ \A f \in Devices : f # d => client'[f] = client[f]
      BY <1>0, <3>1 DEF Shapes
    <3> QED  BY <2>1, <3>2
  <2>4. CASE Open(d)
    <3>1. PICK c, x :
            /\ x = StoredOrInit(d) /\ x \in SUBSET Ops
            /\ c \in Clients(Ops) /\ client' = [client EXCEPT ![d] = c] /\ Shapes(Ops)'
            /\ client[d].phase = "closed" /\ c.phase = "idle" /\ ~ c.joined
            /\ c.cursor = disk[d].cursor /\ c.base = disk[d].cursor /\ c.after = 0
            /\ disk[d].cursor = 0 =>
                 /\ minted' = [minted EXCEPT ![d] = @ + 1]
                 /\ ToSet(c.pending) = IF Cardinality(x) <= MaxPushOps THEN {Minted(d, x)} ELSE {}
            /\ disk[d].cursor # 0 => minted' = minted /\ ToSet(c.pending) = {}
            /\ doc'[d] = x /\ disk'[d].doc = x /\ disk'[d].cursor = disk[d].cursor
            /\ \A f \in Devices : f # d => doc'[f] = doc[f] /\ disk'[f] = disk[f]
      BY <1>0, <2>4, OpenEffect
    <3>2. client'[d].phase = "idle" /\ \A f \in Devices : f # d => client'[f] = client[f]
      BY <1>0, <3>1 DEF Shapes
    <3> QED  BY <2>1, <3>2
  <2>5. CASE SaveSnapshot(d) \/ BeginSave(d) \/ FinishSave(d) \/ Hub(d) \/ Environment(d) \/ CheckpointWorker(d)
    <3>1. client' = client
      BY <2>5 DEF SaveSnapshot, BeginSave, FinishSave, Hub, Environment, CheckpointWorker, BeginCheckpoint,
                  ExportSnapshot, PostCheckpoint, StoreCheckpoint, LoseCheckpoint, LateCheckpoint
    <3> QED  BY <2>1, <3>1
  <2> QED  BY <1>2, <2>2, <2>3, <2>4, <2>5 DEF Acts
<1> QED  BY <1>1, <1>2

WorkInv == CheckpointWhole /\ \A d \in Devices : Apart(d) /\ JobWhole(d) /\ Keeps(d) /\ AdriftWhole(d)

\* Whatever the worker of no device does.
LEMMA WorkStays ==
  ASSUME "overlap" \notin FaultKinds, SyncInv, Truth, RelayInv, WorkInv, NEW d \in Devices, Acts(d), StoredAtTheEnd,
         ~ CheckpointWorker(d)
  PROVE  WorkInv'
<1>0. /\ Shapes(Ops) /\ LogInv /\ LogInv' /\ SyncInv' /\ Shapes(Ops)'
  <2>1. SyncInv'  BY SyncInvKept
  <2> QED  BY <2>1, SyncParts, StepNames
<1>1. LogGrows /\ checkpoint' = checkpoint  BY LogGoesOn, CheckpointStays DEF CheckpointWorker, PostAnswered
<1>2. /\ headSeq \in Nat /\ seqFloor \in Nat /\ checkpoint.seq = seqFloor /\ seqFloor <= headSeq
      /\ \A e \in Devices : job[e] \in Jobs(Ops) /\ job[e].seq \in Nat
  BY <1>0, CheckpointFacts, ShapeParts DEF Shapes, Jobs
<1>3. CheckpointWhole'
  <2>1. PICK x, n : x = checkpoint.ops /\ n = checkpoint.seq  OBVIOUS
  <2>2. HasAll(x, n)  BY <2>1 DEF WorkInv, CheckpointWhole
  <2>3. HasAll(x, n)'  BY <1>0, <1>1, <1>2, <2>1, <2>2, HasAllLasts
  <2> QED  BY <1>1, <2>1, <2>3 DEF WorkInv, CheckpointWhole, HasAll
<1>4. ASSUME NEW e \in Devices PROVE Apart(e)' /\ JobWhole(e)' /\ Keeps(e)' /\ AdriftWhole(e)'
  <2>0. Apart(e) /\ JobWhole(e) /\ Keeps(e) /\ AdriftWhole(e)  BY DEF WorkInv
  <2>1. PICK j, k : j \in Jobs(Ops) /\ j = job[e] /\ k = job'[e]  BY <1>2
  <2>2. k = j \/ k.stage = "none"  BY <2>1, JobStays
  <2>3. PICK x, y, u, v : x = doc[e] /\ y = doc'[e] /\ u = Own(e) /\ v = Own(e)'  OBVIOUS
  <2>4. u \subseteq v  BY <2>3, OwnStays
  <2>5. j.seq \in Nat /\ checkpoint.seq \in Nat /\ checkpoint.seq <= headSeq  BY <1>2, <2>1
  <2>6. client'[e].phase = "closed" =>
          \/ client[e].phase = "closed" /\ client'[e] = client[e]
          \/ ~ client'[e].joined /\ k.stage = "none"
    BY <2>1, HandlesStay
  <2>7. Apart(e)'  BY <2>0, <2>6 DEF Apart
  <2>8. JobWhole(e)'
    <3>0. k.stage # "none" => k.seq <= headSeq'
      <4>1. headSeq' \in Nat /\ headSeq <= headSeq'  BY <1>0, <1>1 DEF LogInv, LogTypeOK, LogGrows
      <4>2. j.stage # "none" => j.seq <= headSeq  BY <2>0, <2>1 DEF JobWhole
      <4>3. j.stage # "none" => j.seq <= headSeq'  BY <1>2, <2>5, <4>1, <4>2
      <4> QED  BY <2>2, <4>3
    <3>1. /\ e \notin Checkpointers => k.stage = "none"
          /\ k.stage \in {"cursor", "snapshot"} => client'[e].phase # "closed"
      BY <2>0, <2>1, <2>2, <2>6 DEF JobWhole
    <3>2. ASSUME k.stage \in {"snapshot", "sent"} PROVE HasAll(k.ops, k.seq)'
      <4>1. k = j /\ j.seq <= headSeq /\ HasAll(j.ops, j.seq)  BY <2>0, <2>1, <2>2, <3>2 DEF JobWhole
      <4>2. PICK p, n : p = j.ops /\ n = j.seq  OBVIOUS
      <4>3. HasAll(p, n)'  BY <1>0, <1>1, <2>5, <4>1, <4>2, HasAllLasts
      <4> QED  BY <4>1, <4>2, <4>3 DEF HasAll
    <3>3. ASSUME k.stage = "snapshot" PROVE k.ops \subseteq y
      <4>1. k = j /\ j.ops \subseteq x /\ client[e].phase # "closed"  BY <2>0, <2>1, <2>2, <2>3, <3>3 DEF JobWhole
      <4>2. client'[e].phase # "closed"  BY <3>1, <3>3
      <4>3. u = x /\ v = y  BY <2>3, <4>1, <4>2 DEF Own
      <4> QED  BY <2>4, <4>1, <4>3
    <3>4. k.stage = "sent" => k.ops \subseteq k.frontier  BY <2>0, <2>1, <2>2 DEF JobWhole
    <3> QED  BY <2>1, <2>3, <3>0, <3>1, <3>2, <3>3, <3>4 DEF JobWhole, HasAll
  <2>9. Keeps(e)'
    <3> SUFFICES ASSUME e \in Checkpointers
                 PROVE  (HasAll(v, checkpoint.seq))' /\ (k.stage # "none" => HasAll(v, k.seq)')
      BY <2>1, <2>3 DEF Keeps, HasAll
    <3>1. PICK n, m : n = checkpoint.seq /\ m = j.seq  OBVIOUS
    <3>2. HasAll(u, n) /\ (j.stage # "none" => HasAll(u, m) /\ m <= headSeq)
      BY <2>0, <2>1, <2>3, <3>1 DEF Keeps, JobWhole
    <3>3. HasAll(v, n)'  BY <1>0, <1>1, <2>4, <2>5, <3>1, <3>2, HasAllGrows
    <3>4. ASSUME k.stage # "none" PROVE HasAll(v, m)' /\ k = j
      <4>1. k = j  BY <2>2, <3>4
      <4>2. HasAll(v, m)'  BY <1>0, <1>1, <2>4, <2>5, <3>1, <3>2, <3>4, <4>1, HasAllGrows
      <4> QED  BY <4>1, <4>2
    <3> QED  BY <1>1, <3>1, <3>3, <3>4 DEF HasAll
  <2>10. AdriftWhole(e)'
    <3> SUFFICES ASSUME NEW post \in adrift'[e]
                 PROVE  /\ e \in Checkpointers /\ post.seq <= headSeq'
                        /\ HasAll(post.ops, post.seq)' /\ post.ops \subseteq post.frontier
                        /\ HasAll(v, post.seq)'
      BY <2>3 DEF AdriftWhole, HasAll
    <3>1. post \in adrift[e] \/ (post = j /\ j.stage = "sent")  BY <2>1, JobStays
    <3>2. post \in Jobs(Ops)
      <4>1. adrift[e] \subseteq Jobs(Ops)  BY <1>0, ShapeParts
      <4> QED  BY <2>1, <3>1, <4>1
    <3>3. PICK p \in SUBSET Ops, n \in Nat : p = post.ops /\ n = post.seq  BY <3>2 DEF Jobs
    <3>4. /\ e \in Checkpointers /\ n <= headSeq
          /\ HasAll(p, n) /\ p \subseteq post.frontier /\ HasAll(u, n)
      <4>1. CASE post \in adrift[e]  BY <2>0, <2>3, <3>3, <4>1 DEF AdriftWhole
      <4>2. CASE post = j /\ j.stage = "sent"  BY <2>0, <2>1, <2>3, <3>3, <4>2 DEF JobWhole, Keeps
      <4> QED  BY <3>1, <4>1, <4>2
    <3>5. n <= headSeq'
      <4>1. headSeq' \in Nat /\ headSeq <= headSeq'  BY <1>0, <1>1 DEF LogInv, LogTypeOK, LogGrows
      <4> QED  BY <1>2, <3>4, <4>1
    <3>6. HasAll(p, n)'  BY <1>0, <1>1, <3>4, HasAllLasts
    <3>7. HasAll(v, n)'  BY <1>0, <1>1, <2>4, <3>4, HasAllGrows
    <3> QED  BY <3>3, <3>4, <3>5, <3>6, <3>7 DEF HasAll
  <2> QED  BY <2>7, <2>8, <2>9, <2>10
<1> QED  BY <1>3, <1>4 DEF WorkInv

\* The four steps of a worker that say nothing to the log.
LEMMA WorkGoesOn ==
  ASSUME "backfill" \notin Disturbed, SyncInv, Truth, GapInv, WorkInv, NEW d \in Devices,
         BeginCheckpoint(d) \/ ExportSnapshot(d) \/ PostCheckpoint(d) \/ LoseCheckpoint(d)
  PROVE  WorkInv'
<1>0. /\ Shapes(Ops) /\ LogInv
      /\ UNCHANGED <<logVars, roomVars, client, doc, disk, saving, adrift, commits, minted, faults>>
  BY SyncParts, WorkerEffect
<1>1. UNCHANGED <<headSeq, seqFloor, checkpoint, accepted, client, doc, disk>>  BY <1>0 DEF logVars
<1>2. \A e \in Devices : Apart(e) /\ JobWhole(e) /\ Keeps(e) /\ AdriftWhole(e)  BY DEF WorkInv
<1>3. PICK j, c, x, u : j \in Jobs(Ops) /\ c \in Clients(Ops) /\ x \in SUBSET Ops
        /\ j = job[d] /\ c = client[d] /\ x = doc[d] /\ u = Own(d)
  BY <1>0, ShapeParts
<1>4. /\ headSeq \in Nat /\ seqFloor \in Nat /\ checkpoint.seq = seqFloor /\ seqFloor <= headSeq
      /\ j.seq \in Nat /\ c.cursor \in Nat /\ c.cursor <= headSeq
  BY <1>0, <1>3, CheckpointFacts, ClientParts DEF Jobs, Truth, TrueTo, ClientTrue
<1>5. /\ d \notin Checkpointers => j.stage = "none"
      /\ j.stage # "none" => j.seq <= headSeq
      /\ j.stage \in {"cursor", "snapshot"} => c.phase # "closed"
      /\ j.stage \in {"snapshot", "sent"} => HasAll(j.ops, j.seq)
      /\ j.stage = "snapshot" => j.ops \subseteq x
      /\ j.stage = "sent" => j.ops \subseteq j.frontier
      /\ d \in Checkpointers => HasAll(u, seqFloor) /\ (j.stage # "none" => HasAll(u, j.seq))
      /\ c.phase # "closed" => u = x
      /\ c.phase = "closed" => ~ c.joined
  BY <1>2, <1>3, <1>4 DEF JobWhole, Keeps, Own, Apart
<1>6. \E k : /\ job' = [job EXCEPT ![d] = k]
             /\ d \notin Checkpointers => k.stage = "none"
             /\ k.stage # "none" => k.seq <= headSeq
             /\ k.stage \in {"cursor", "snapshot"} => c.phase # "closed"
             /\ k.stage \in {"snapshot", "sent"} => HasAll(k.ops, k.seq)
             /\ k.stage = "snapshot" => k.ops \subseteq x
             /\ k.stage = "sent" => k.ops \subseteq k.frontier
             /\ d \in Checkpointers => (k.stage # "none" => HasAll(u, k.seq))
  <2>1. CASE BeginCheckpoint(d)
    <3>1. PICK k : k = [NoJob EXCEPT !.stage = "cursor", !.seq = c.cursor]  OBVIOUS
    <3>2. k.stage = "cursor" /\ k.seq = c.cursor  BY <3>1 DEF NoJob
    <3>3. job' = [job EXCEPT ![d] = k] /\ d \in Checkpointers /\ c.joined /\ c.phase # "backfill"
      BY <1>3, <2>1, <3>1 DEF BeginCheckpoint, Phase
    <3>4. c.phase # "closed" /\ u = x  BY <1>5, <3>3
    <3>5. HasAll(x, c.cursor)
      <4>1. PICK s, z : s = sock[d] /\ z = disk[d]  OBVIOUS
      <4>2. Typed(s, c, z) /\ NoGap(s, c, x, z)  BY <1>0, <1>3, <4>1, DeviceIsTyped DEF GapInv, Gapless
      <4>3. c.phase \in {"idle", "hello", "fetch", "steady"}  BY <1>3, <3>3, <3>4, ClientParts DEF Phases
      <4>4. HeldTo(x, c.cursor)  BY <1>0, <4>2, <4>3, SteadyIsHeld
      <4>5. HasAll(x, seqFloor)  BY <1>5, <3>3, <3>4
      <4> SUFFICES ASSUME NEW m \in 1 .. headSeq, m <= c.cursor PROVE accepted[m].ops \subseteq x  BY DEF HasAll
      <4>6. CASE m <= seqFloor  BY <4>5, <4>6 DEF HasAll
      <4>7. CASE seqFloor < m  BY <4>4, <4>7 DEF HeldTo
      <4> QED  BY <1>4, <4>6, <4>7
    <3> QED  BY <1>4, <3>2, <3>3, <3>4, <3>5
  <2>2. CASE ExportSnapshot(d)
    <3>1. PICK k : k = [j EXCEPT !.stage = "snapshot", !.ops = x]  OBVIOUS
    <3>2. k.stage = "snapshot" /\ k.ops = x /\ k.seq = j.seq  BY <3>1 DEF Jobs
    <3>3. job' = [job EXCEPT ![d] = k] /\ j.stage = "cursor"
      BY <1>0, <1>3, <2>2, <3>1 DEF ExportSnapshot, Shapes
    <3>4. c.phase # "closed" /\ u = x /\ d \in Checkpointers  BY <1>5, <3>3
    <3> QED  BY <1>5, <3>2, <3>3, <3>4
  <2>3. CASE PostCheckpoint(d)
    <3>1. PICK k : k = [j EXCEPT !.stage = "sent", !.frontier = x]  OBVIOUS
    <3>2. k.stage = "sent" /\ k.ops = j.ops /\ k.seq = j.seq /\ k.frontier = x  BY <3>1 DEF Jobs
    <3>3. job' = [job EXCEPT ![d] = k] /\ j.stage = "snapshot"
      BY <1>0, <1>3, <2>3, <3>1 DEF PostCheckpoint, Shapes
    <3> QED  BY <1>5, <3>2, <3>3
  <2>4. CASE LoseCheckpoint(d)
    <3>1. PICK k : k = NoJob  OBVIOUS
    <3>2. job' = [job EXCEPT ![d] = k] /\ k.stage = "none"  BY <2>4, <3>1 DEF LoseCheckpoint, NoJob
    <3> QED  BY <3>2
  <2> QED  BY <2>1, <2>2, <2>3, <2>4
<1>7. PICK k : /\ job' = [job EXCEPT ![d] = k]
               /\ d \notin Checkpointers => k.stage = "none"
               /\ k.stage # "none" => k.seq <= headSeq
               /\ k.stage \in {"cursor", "snapshot"} => c.phase # "closed"
               /\ k.stage \in {"snapshot", "sent"} => HasAll(k.ops, k.seq)
               /\ k.stage = "snapshot" => k.ops \subseteq x
               /\ k.stage = "sent" => k.ops \subseteq k.frontier
               /\ d \in Checkpointers => (k.stage # "none" => HasAll(u, k.seq))
  BY <1>6
<1>8. job'[d] = k /\ \A e \in Devices : e # d => job'[e] = job[e]  BY <1>0, <1>7 DEF Shapes
<1>9. CheckpointWhole'  BY <1>1 DEF WorkInv, CheckpointWhole, HasAll
<1>10. ASSUME NEW e \in Devices PROVE Apart(e)' /\ JobWhole(e)' /\ Keeps(e)' /\ AdriftWhole(e)'
  <2>0. AdriftWhole(e)'  BY <1>0, <1>1, <1>2 DEF AdriftWhole, HasAll, Own
  <2>1. Apart(e)'  BY <1>1, <1>2 DEF Apart
  <2>2. CASE e # d
    <3>1. JobWhole(e)'  BY <1>1, <1>2, <1>8, <2>2 DEF JobWhole, HasAll
    <3>2. Keeps(e)'  BY <1>1, <1>2, <1>8, <2>2 DEF Keeps, HasAll, Own
    <3> QED  BY <2>0, <2>1, <3>1, <3>2
  <2>3. CASE e = d
    <3>1. JobWhole(d)'  BY <1>1, <1>3, <1>7, <1>8 DEF JobWhole, HasAll
    <3>2. Own(d)' = u  BY <1>1, <1>3 DEF Own
    <3>3. Keeps(d)'  BY <1>1, <1>4, <1>5, <1>7, <1>8, <3>2 DEF Keeps, HasAll
    <3> QED  BY <2>0, <2>1, <2>3, <3>1, <3>3
  <2> QED  BY <2>2, <2>3
<1> QED  BY <1>9, <1>10 DEF WorkInv

\* The answer to a POST.  The device that posted it is the only one to do so.
LEMMA WorkIsStored ==
  ASSUME \A f, g \in Checkpointers : f = g, SyncInv, WorkInv, NEW d \in Devices, PostAnswered(d)
  PROVE  WorkInv'
<1>0. Shapes(Ops) /\ LogInv /\ UNCHANGED <<client, doc, disk>> /\ headSeq' = headSeq /\ accepted' = accepted
  <2>1. Shapes(Ops) /\ Basic(Ops) /\ LogInv /\ headSeq <= MaxSeq  BY SyncParts
  <2> QED  BY <2>1, AnsweredEffect
<1>1. \A e \in Devices : Apart(e) /\ JobWhole(e) /\ Keeps(e) /\ AdriftWhole(e)  BY DEF WorkInv
<1>2. PICK post \in Jobs(Ops) :
        /\ CommitCheckpoint(post.seq, post.ops, post.frontier) \/ UNCHANGED logVars
        /\ \/ job[d] = post /\ post.stage = "sent" /\ job' = [job EXCEPT ![d] = NoJob] /\ adrift' = adrift
           \/ post \in adrift[d] /\ adrift' = [adrift EXCEPT ![d] = @ \ {post}] /\ job' = job
  BY <1>0, AnsweredPost
<1>3. /\ d \in Checkpointers /\ HasAll(post.ops, post.seq) /\ post.ops \subseteq post.frontier
      /\ HasAll(Own(d), post.seq)
  <2>1. CASE job[d] = post /\ post.stage = "sent"  BY <1>1, <2>1 DEF JobWhole, Keeps
  <2>2. CASE post \in adrift[d]  BY <1>1, <2>2 DEF AdriftWhole
  <2> QED  BY <1>2, <2>1, <2>2
<1>4. /\ job'[d] = NoJob \/ job'[d] = job[d]
      /\ \A e \in Devices : e # d => job'[e] = job[e]
      /\ \A e \in Devices : adrift'[e] \subseteq adrift[e]
  BY <1>0, <1>2 DEF Shapes
<1>5. \/ checkpoint' = checkpoint
      \/ checkpoint'.seq = post.seq /\ checkpoint'.ops = post.ops /\ checkpoint'.frontier = post.frontier
  BY <1>2 DEF CommitCheckpoint, logVars
<1>6. CheckpointWhole'
  <2>1. CASE checkpoint' = checkpoint  BY <1>0, <2>1 DEF WorkInv, CheckpointWhole, HasAll
  <2>2. CASE checkpoint' # checkpoint  BY <1>0, <1>3, <1>5, <2>2 DEF CheckpointWhole, HasAll
  <2> QED  BY <2>1, <2>2
<1>7. \A e \in Devices : Own(e)' = Own(e)  BY <1>0 DEF Own
<1>8. NoJob.stage = "none"  BY DEF NoJob
<1>9. ASSUME NEW e \in Devices PROVE Apart(e)' /\ JobWhole(e)' /\ Keeps(e)' /\ AdriftWhole(e)'
  <2>1. Apart(e)'  BY <1>0, <1>1 DEF Apart
  <2>2. job'[e] = job[e] \/ job'[e].stage = "none"
    <3>1. CASE e = d  BY <1>4, <1>8, <3>1
    <3>2. CASE e # d  BY <1>4, <3>2
    <3> QED  BY <3>1, <3>2
  <2>3. JobWhole(e)'
    <3>1. CASE job'[e] = job[e]  BY <1>0, <1>1, <3>1 DEF JobWhole, HasAll
    <3>2. CASE job'[e].stage = "none"  BY <3>2 DEF JobWhole
    <3> QED  BY <2>2, <3>1, <3>2
  <2>4. AdriftWhole(e)'  BY <1>0, <1>1, <1>4, <1>7 DEF AdriftWhole, HasAll
  <2>5. Keeps(e)'
    <3> SUFFICES ASSUME e \in Checkpointers PROVE Keeps(e)'  BY DEF Keeps
    <3>1. e = d  BY <1>3
    <3>2. HasAll(Own(e), checkpoint.seq) /\ (job[e].stage # "none" => HasAll(Own(e), job[e].seq))
      BY <1>1 DEF Keeps
    <3>3. HasAll(Own(e), checkpoint'.seq)
      <4>1. CASE checkpoint' = checkpoint  BY <3>2, <4>1
      <4>2. CASE checkpoint' # checkpoint  BY <1>3, <1>5, <3>1, <4>2
      <4> QED  BY <4>1, <4>2
    <3>4. job'[e].stage # "none" => HasAll(Own(e), job'[e].seq)  BY <2>2, <3>2
    <3> QED  BY <1>0, <1>7, <3>3, <3>4 DEF Keeps, HasAll
  <2> QED  BY <2>1, <2>3, <2>4, <2>5
<1> QED  BY <1>6, <1>9 DEF WorkInv

LEMMA WorkInvStep ==
  ASSUME "overlap" \notin FaultKinds, "backfill" \notin Disturbed, \A f, g \in Checkpointers : f = g,
         SyncInv, Truth, RelayInv, GapInv, WorkInv, NEW d \in Devices, Acts(d), StoredAtTheEnd
  PROVE  WorkInv'
<1>1. CASE ~ CheckpointWorker(d)  BY <1>1, WorkStays
<1>2. CASE CheckpointWorker(d)  BY <1>2, WorkGoesOn, WorkIsStored DEF CheckpointWorker, PostAnswered
<1> QED  BY <1>1, <1>2

LEMMA InitWorkInv ==
  ASSUME Init
  PROVE  WorkInv
<1>1. headSeq = 0 /\ client = [d \in Devices |-> NoClient] /\ job = [d \in Devices |-> NoJob]
      /\ adrift = [d \in Devices |-> {}]
  BY DEF Init, LogInit
<1>2. \A m \in 1 .. headSeq : FALSE  BY <1>1
<1>3. \A x, n : HasAll(x, n)  BY <1>2 DEF HasAll
<1>4. CheckpointWhole
  <2>1. checkpoint = NoCheckpoint  BY DEF Init, LogInit
  <2> QED  BY <1>3, <2>1 DEF CheckpointWhole, NoCheckpoint
<1>5. ASSUME NEW d \in Devices PROVE Apart(d) /\ JobWhole(d) /\ Keeps(d) /\ AdriftWhole(d)
  <2>1. client[d] = NoClient /\ job[d] = NoJob /\ adrift[d] = {}  BY <1>1
  <2>2. ~ client[d].joined /\ job[d].stage = "none"  BY <2>1 DEF NoClient, NoJob
  <2> QED  BY <1>3, <2>1, <2>2 DEF Apart, JobWhole, Keeps, AdriftWhole
<1> QED  BY <1>4, <1>5 DEF WorkInv

LEMMA WorkInvKept ==
  ASSUME "overlap" \notin FaultKinds, "backfill" \notin Disturbed, \A f, g \in Checkpointers : f = g,
         SyncInv, Truth, RelayInv, GapInv, WorkInv, [Next /\ BackfillsEnd /\ StoredAtTheEnd]_vars
  PROVE  WorkInv'
<1>1. CASE Next /\ BackfillsEnd /\ StoredAtTheEnd
  <2>1. PICK d \in Devices : Acts(d)  BY <1>1, NextIsAnAct
  <2>2. StoredAtTheEnd  BY <1>1
  <2> QED  BY <2>1, <2>2, WorkInvStep
<1>2. CASE UNCHANGED vars
  <2>1. UNCHANGED <<headSeq, accepted, checkpoint, client, doc, disk, job, adrift>>
    BY <1>2 DEF vars, logVars, engineVars
  <2> QED  BY <2>1 DEF WorkInv, CheckpointWhole, HasAll, Apart, JobWhole, Keeps, AdriftWhole, Own
<1> QED  BY <1>1, <1>2

LEMMA WorkFollows ==
  ASSUME SyncInv, Truth, GapInv, WorkInv
  PROVE  CheckpointComplete /\ NoSilentGap /\ DiskAgreesWithCursor
<1>0. /\ Shapes(Ops) /\ LogInv
      /\ headSeq \in Nat /\ seqFloor \in Nat /\ checkpoint.seq = seqFloor /\ seqFloor <= headSeq
  BY SyncParts, CheckpointFacts
<1>1. HasAll(checkpoint.ops, checkpoint.seq) /\ checkpoint.ops \subseteq checkpoint.frontier
  BY DEF WorkInv, CheckpointWhole
<1>2. \A n \in 1 .. seqFloor : accepted[n].ops \subseteq checkpoint.ops
  <2> SUFFICES ASSUME NEW n \in 1 .. seqFloor PROVE accepted[n].ops \subseteq checkpoint.ops  OBVIOUS
  <2>1. n \in 1 .. headSeq /\ n <= checkpoint.seq  BY <1>0
  <2> QED  BY <1>1, <2>1 DEF HasAll
<1>3. CheckpointComplete  BY <1>0, <1>2 DEF CheckpointComplete
<1>4. ASSUME NEW x, NEW n \in Nat, n <= headSeq, HeldTo(x, n)
      PROVE  \A m \in 1 .. n : HeldOrHealed(m, x)
  <2> SUFFICES ASSUME NEW m \in 1 .. n PROVE HeldOrHealed(m, x)  OBVIOUS
  <2>1. m \in 1 .. headSeq /\ m <= n  BY <1>0, <1>4
  <2>2. CASE m <= seqFloor
    <3>1. accepted[m].ops \subseteq checkpoint.frontier /\ m <= checkpoint.seq  BY <1>0, <1>1, <1>2, <2>1, <2>2
    <3> QED  BY <3>1 DEF HeldOrHealed
  <2>3. CASE seqFloor < m
    <3>1. accepted[m].ops \subseteq x  BY <1>4, <2>1, <2>3 DEF HeldTo
    <3> QED  BY <3>1 DEF HeldOrHealed
  <2> QED  BY <1>0, <2>1, <2>2, <2>3
<1>5. NoRowSkipped  BY GapsFollow
<1>6. ASSUME NEW d \in Devices
      PROVE  /\ client[d].cursor \in Nat /\ client[d].cursor <= headSeq
             /\ disk[d].cursor \in Nat /\ disk[d].cursor <= headSeq
  <2>1. client[d] \in Clients(Ops) /\ disk[d] \in Stores(Ops)  BY <1>0, ShapeParts
  <2>2. client[d].cursor \in Nat /\ disk[d].cursor \in Nat  BY <2>1, ClientParts DEF Stores
  <2> QED  BY <2>2 DEF Truth, TrueTo, ClientTrue
<1>7. NoSilentGap
  <2> SUFFICES ASSUME NEW d \in Devices, Phase(d) \notin {"closed", "backfill"}
               PROVE  \A n \in 1 .. client[d].cursor : HeldOrHealed(n, doc[d])
    BY DEF NoSilentGap
  <2>1. HeldTo(doc[d], client[d].cursor)  BY <1>5 DEF NoRowSkipped
  <2> QED  BY <1>4, <1>6, <2>1
<1>8. DiskAgreesWithCursor
  <2> SUFFICES ASSUME NEW d \in Devices, Phase(d) # "backfill"
               PROVE  \A n \in 1 .. disk[d].cursor : HeldOrHealed(n, disk[d].doc)
    BY DEF DiskAgreesWithCursor
  <2>1. HeldTo(disk[d].doc, disk[d].cursor)  BY <1>5 DEF NoRowSkipped
  <2> QED  BY <1>4, <1>6, <2>1
<1> QED  BY <1>3, <1>7, <1>8

\* Where one device posts checkpoints, and its worker does not read the cursor in the
\* middle of a backfill, what is posted is whole, and the rows of the room are held
\* below every cursor.
THEOREM CheckpointsSafe ==
  ASSUME "overlap" \notin FaultKinds, "backfill" \notin Disturbed, \A f, g \in Checkpointers : f = g
  PROVE  Spec /\ [][BackfillsEnd /\ StoredAtTheEnd]_vars
           => [](SyncInv /\ Truth /\ RelayInv /\ GapInv /\ WorkInv)
<1>1. Init => RelayInv /\ GapInv /\ WorkInv  BY InitRelayInv, InitGapInv, InitWorkInv
<1>2. (SyncInv /\ Truth) /\ OnlyMade /\ (RelayInv /\ GapInv /\ WorkInv)
        /\ [Next]_vars /\ [BackfillsEnd /\ StoredAtTheEnd]_vars
        => (RelayInv /\ GapInv /\ WorkInv)'
  BY GapInvKept, WorkInvKept
<1> QED  BY <1>1, <1>2, SyncInvariant, OnlyMadeIsKnown, PTL DEF Spec

\* No row is lost to a checkpoint: the room prunes only what the blob holds, however
\* rows come in while the worker reads the cursor, the document and the frontier.
THEOREM CheckpointIsAlwaysComplete ==
  ASSUME "overlap" \notin FaultKinds, "backfill" \notin Disturbed, \A f, g \in Checkpointers : f = g
  PROVE  Spec /\ [][BackfillsEnd /\ StoredAtTheEnd]_vars => []CheckpointComplete
<1>1. SyncInv /\ Truth /\ RelayInv /\ GapInv /\ WorkInv => CheckpointComplete  BY WorkFollows
<1> QED  BY <1>1, CheckpointsSafe, PTL

\* The cursor of a session names no row that its document lacks and the next hello will
\* not make it fetch, those the room has pruned included.
THEOREM NoGapIsSilent ==
  ASSUME "overlap" \notin FaultKinds, "backfill" \notin Disturbed, \A f, g \in Checkpointers : f = g
  PROVE  Spec /\ [][BackfillsEnd /\ StoredAtTheEnd]_vars => []NoSilentGap
<1>1. SyncInv /\ Truth /\ RelayInv /\ GapInv /\ WorkInv => NoSilentGap  BY WorkFollows
<1> QED  BY <1>1, CheckpointsSafe, PTL

\* Nor does the cursor a restart finds, of the snapshot it finds with it.
THEOREM DiskAlwaysAgrees ==
  ASSUME "overlap" \notin FaultKinds, "backfill" \notin Disturbed, \A f, g \in Checkpointers : f = g
  PROVE  Spec /\ [][BackfillsEnd /\ StoredAtTheEnd]_vars => []DiskAgreesWithCursor
<1>1. SyncInv /\ Truth /\ RelayInv /\ GapInv /\ WorkInv => DiskAgreesWithCursor  BY WorkFollows
<1> QED  BY <1>1, CheckpointsSafe, PTL

-----------------------------------------------------------------------------
(* What a STATE promises: the frontier it shows holds every row up to the  *)
(* checkpointSeq it names, though the two are read in two steps and the    *)
(* checkpoint may be replaced between them, or while the frame travels.    *)

StateTrue(f) ==
  f.kind = "state" =>
    /\ HasAll(f.frontier, f.stats.ckptSeq)
    /\ f.stats.stored \/ f.stats.ckptSeq = 0

StatesTrue(s) ==
  /\ \A f \in ToSet(s.down) : StateTrue(f)
  /\ s.stats.stored \/ s.stats.ckptSeq = 0

\* The state frames and the statistics of a socket before a step and after it.
Shown(r, s) ==
  /\ \A f \in ToSet(s.down) :
       f \in ToSet(r.down) \/ f.kind # "state" \/ f = State(r.stats, checkpoint.frontier)
  /\ s.stats \in {r.stats, NoStats, Stats}

LEMMA HubShows ==
  ASSUME SyncInv, NEW d \in Devices, Hub(d)
  PROVE  \A e \in Devices : Shown(sock[e], sock'[e])
<1>0. Shapes(Ops) /\ Basic(Ops) /\ LogInv /\ HubStep(d) /\ Untouched
  BY SyncParts DEF Hub, Untouched
<1>1. ASSUME NEW s, LoopStep(Ops, d, s), Shown(sock[d], s)
      PROVE  \A e \in Devices : Shown(sock[e], sock'[e])
  <2>1. sock'[d] = s /\ \A e \in Devices : e # d => sock'[e] = sock[e]
    BY <1>0, <1>1, LoopKeepsShapes
  <2> QED  BY <1>1, <2>1 DEF Shown
<1>2. PICK r \in Socks(Ops) : r = sock[d]  BY <1>0, ShapeParts
<1>3. CASE ServeEvent(d)
  <2>1. PICK s : /\ LoopStep(Ops, d, s) /\ r.open /\ s.open = r.open /\ s.ready = r.ready
                 /\ s.owes = r.owes /\ s.stats = r.stats /\ s.up = r.up
                 /\ \E e \in RoomEvents(Ops) :
                      /\ ToSet(r.bcast) = {e} \cup ToSet(s.bcast)
                      /\ ToSet(s.down) = IF Delivered(d, e) THEN ToSet(r.down) \cup {e.frame} ELSE ToSet(r.down)
    BY <1>0, <1>2, <1>3, ServeEventEffect
  <2>2. \A e \in RoomEvents(Ops) : e.frame.kind # "state"  BY DEF RoomEvents, RowFrames, AckFrames
  <2> QED  BY <1>1, <1>2, <2>1, <2>2 DEF Shown
<1>4. CASE CloseLagged(d)
  <2>1. PICK s : LoopStep(Ops, d, s) /\ s.stats = r.stats /\ s.down = r.down
    BY <1>0, <1>2, <1>4, CloseLaggedEffect
  <2> QED  BY <1>1, <1>2, <2>1 DEF Shown
<1>5. CASE HandleHello(d)
  <2>1. PICK s : /\ LoopStep(Ops, d, s) /\ NextFrame(d, "hello")
                 /\ r.open /\ s.open = r.open /\ s.ready /\ s.owes = "state" /\ s.stats = Stats
                 /\ s.down = r.down
    BY <1>0, <1>2, <1>5, HandleHelloEffect
  <2> QED  BY <1>1, <1>2, <2>1 DEF Shown
<1>6. CASE SendState(d)
  <2>1. PICK s : /\ LoopStep(Ops, d, s) /\ r.owes = "state"
                 /\ r.open /\ s.open = r.open /\ s.ready = r.ready /\ s.owes = "nothing"
                 /\ s.stats = NoStats /\ s.up = r.up /\ s.bcast = r.bcast
                 /\ ToSet(s.down) = ToSet(r.down) \cup {State(r.stats, checkpoint.frontier)}
    BY <1>0, <1>2, <1>6, SendStateEffect
  <2> QED  BY <1>1, <1>2, <2>1 DEF Shown
<1>7. CASE HandleRowsReq(d)
  <2>1. PICK s, sent :
                 /\ LoopStep(Ops, d, s) /\ NextFrame(d, "rowsReq")
                 /\ r.open /\ s.open = r.open /\ s.ready = r.ready /\ s.owes = "rowsDone"
                 /\ s.stats = r.stats /\ s.up = Tail(r.up) /\ s.bcast = r.bcast
                 /\ sent = Sent(Head(r.up).after, Excluded(d, Head(r.up)))
                 /\ ToSet(s.down) = ToSet(r.down) \cup sent
    BY <1>0, <1>2, <1>7, HandleRowsReqEffect
  <2>2. \A f \in sent : f.kind = "row"  BY <2>1 DEF Sent, RowFrame
  <2> QED  BY <1>1, <1>2, <2>1, <2>2 DEF Shown
<1>8. CASE FinishRows(d)
  <2>1. PICK s : /\ LoopStep(Ops, d, s) /\ r.owes = "rowsDone"
                 /\ r.open /\ s.open = r.open /\ s.ready = r.ready /\ s.owes = "nothing"
                 /\ s.stats = r.stats /\ s.up = r.up /\ s.bcast = r.bcast
                 /\ ToSet(s.down) = ToSet(r.down) \cup {RowsDone(headSeq)}
    BY <1>0, <1>2, <1>8, FinishRowsEffect
  <2>2. RowsDone(headSeq).kind = "rowsDone"  BY DEF RowsDone
  <2> QED  BY <1>1, <1>2, <2>1, <2>2 DEF Shown
<1>9. CASE HandlePush(d)
  <2>0. \A f \in ToSet(sock[d].up) : f.kind = "push" => f.batch.id \in BatchIds  BY SyncParts
  <2>1. PICK b \in Batches(Ops), socks \in [Devices -> Socks(Ops)] :
           /\ NextFrame(d, "push") /\ Head(r.up).batch = b /\ b.id \in BatchIds
           /\ Head(r.up) \in ToSet(r.up)
           /\ \A e \in Devices : e # d => socks[e] = sock[e]
           /\ socks[d].open /\ socks[d].open = r.open /\ socks[d].ready = r.ready
           /\ socks[d].owes = r.owes /\ socks[d].stats = r.stats /\ socks[d].down = r.down
           /\ socks[d].bcast = r.bcast /\ socks[d].up = Tail(r.up)
           /\ PublishStep(Ops, socks, d, d, b)
    BY <1>0, <1>2, <1>9, <2>0, HandlePushEffect
  <2>2. ASSUME NEW e \in Devices PROVE Shown(sock[e], sock'[e])
    <3>1. socks[e].stats = sock[e].stats /\ socks[e].down = sock[e].down  BY <1>2, <2>1
    <3>2. SameButEvents(socks[e], sock'[e])  BY <2>1 DEF PublishStep
    <3> QED  BY <3>1, <3>2 DEF SameButEvents, Shown
  <2> QED  BY <2>2
<1> QED  BY <1>0, <1>3, <1>4, <1>5, <1>6, <1>7, <1>8, <1>9 DEF HubStep

LEMMA SessionShows ==
  ASSUME SyncInv, NEW d \in Devices, Session(d) \/ Cut(d) \/ Dial(d) \/ Crash(d) \/ Evict(d)
  PROVE  \A e \in Devices : Shown(sock[e], sock'[e])
<1>0. Shapes(Ops)  BY SyncParts
<1>1. PICK r \in Socks(Ops) : r = sock[d]  BY <1>0, ShapeParts
<1>2. ASSUME NEW c, NEW s, Moves(Ops, d, c, s), Shown(r, s)
      PROVE  \A e \in Devices : Shown(sock[e], sock'[e])
  <2>1. sock'[d] = s /\ \A e \in Devices : e # d => sock'[e] = sock[e]  BY <1>0, <1>2, MovesAt
  <2> QED  BY <1>1, <1>2, <2>1 DEF Shown
<1>3. ASSUME NEW kind, NEW sent, NEW s, Took(Ops, d, kind, sent, s)
      PROVE  Shown(r, s)
  BY <1>1, <1>3 DEF Took, Shown
<1>4. ASSUME NEW sent, NEW s, Wrote(Ops, d, sent, s)
      PROVE  Shown(r, s)
  BY <1>1, <1>4 DEF Wrote, Shown
<1>5. Shown(r, NoSocket)
  <2>1. ToSet(NoSocket.down) = {} /\ NoSocket.stats = NoStats
    BY NoSocketIsASocket DEF NoSocket
  <2> QED  BY <2>1 DEF Shown
<1>6. CASE ReceiveState(d)
  <2>1. PICK c, s : Moves(Ops, d, c, s) /\ \E sent : Took(Ops, d, "state", sent, s)
    BY <1>0, <1>6, ReceiveStateEffect
  <2> QED  BY <1>2, <1>3, <2>1
<1>7. CASE FetchCheckpoint(d)
  <2>1. PICK c, s : Moves(Ops, d, c, s) /\ \E sent : Wrote(Ops, d, sent, s)
    BY <1>0, <1>7, FetchCheckpointEffect
  <2> QED  BY <1>2, <1>4, <2>1
<1>8. CASE ReceiveRow(d)
  <2>1. PICK c, s : Moves(Ops, d, c, s) /\ Took(Ops, d, "row", <<>>, s)  BY <1>0, <1>8, ReceiveRowEffect
  <2> QED  BY <1>2, <1>3, <2>1
<1>9. CASE ReceiveAck(d)
  <2>1. PICK c, s : Moves(Ops, d, c, s) /\ Took(Ops, d, "ack", <<>>, s)  BY <1>0, <1>9, ReceiveAckEffect
  <2> QED  BY <1>2, <1>3, <2>1
<1>10. CASE ReceiveRowsDone(d)
  <2>1. PICK c, s : Moves(Ops, d, c, s) /\ \E sent : Took(Ops, d, "rowsDone", sent, s)
    BY <1>0, <1>10, ReceiveRowsDoneEffect
  <2> QED  BY <1>2, <1>3, <2>1
<1>11. CASE PushPending(d)
  <2>1. PICK c, s : Moves(Ops, d, c, s) /\ Wrote(Ops, d, PushAll(d), s)  BY <1>0, <1>11, PushPendingEffect
  <2> QED  BY <1>2, <1>4, <2>1
<1>12. CASE SeeClose(d) \/ Cut(d)
  <2>0. EndSession(d) /\ faults' \in Nat
    <3>1. EndSession(d) /\ faults \in Nat  BY <1>0, <1>12 DEF SeeClose, Cut, Shapes
    <3>2. faults' = faults \/ faults' = faults + 1  BY <1>12 DEF SeeClose, Cut, MayFault
    <3> QED  BY <3>1, <3>2
  <2>1. PICK c : Moves(Ops, d, c, NoSocket)  BY <1>0, <2>0, EndSessionEffect
  <2> QED  BY <1>2, <1>5, <2>1
<1>13. CASE Crash(d) \/ Evict(d)
  <2>1. Moves(Ops, d, NoClient, NoSocket)  BY <1>0, <1>13, CrashEffect, EvictEffect
  <2> QED  BY <1>2, <1>5, <2>1
<1>14. CASE Dial(d)
  <2>1. PICK c, s : /\ Moves(Ops, d, c, s) /\ Shapes(Ops)'
           /\ client[d].phase = "idle" /\ c.phase = "hello"
           /\ c.cursor = client[d].cursor /\ c.after = client[d].after
           /\ c.base = client[d].base /\ c.joined = client[d].joined /\ c.pending = client[d].pending
           /\ s.open /\ ~ s.ready /\ s.owes = "nothing" /\ s.stats = NoStats
           /\ ToSet(s.up) = {Hello} /\ Len(s.up) = 1 /\ ToSet(s.bcast) = {} /\ ToSet(s.down) = {}
    BY <1>0, <1>14, DialEffect
  <2> QED  BY <1>2, <2>1 DEF Shown
<1> QED  BY <1>6, <1>7, <1>8, <1>9, <1>10, <1>11, <1>12, <1>13, <1>14 DEF Session

LEMMA StepShows ==
  ASSUME SyncInv, NEW d \in Devices, Acts(d)
  PROVE  \A e \in Devices : Shown(sock[e], sock'[e])
<1>1. CASE Hub(d)  BY <1>1, HubShows
<1>2. CASE HandleStalePush(d) /\ Environment(d)
  <2>0. Shapes(Ops) /\ Basic(Ops) /\ LogInv /\ \A f \in ToSet(stale[d]) : f.batch.id \in BatchIds  BY SyncParts
  <2>1. Untouched  BY <1>2 DEF Environment, Untouched
  <2>2. PICK b \in Batches(Ops) :
           /\ b.id \in BatchIds /\ \E f \in ToSet(stale[d]) : f.batch = b
           /\ PublishStep(Ops, sock, DeadSocket, d, b)
    BY <1>2, <2>0, <2>1, HandleStalePushEffect
  <2>3. \A e \in Devices : SameButEvents(sock[e], sock'[e])  BY <2>2 DEF PublishStep
  <2> QED  BY <2>3 DEF SameButEvents, Shown
<1>3. CASE Session(d) \/ Cut(d) \/ Dial(d) \/ Crash(d) \/ Evict(d)  BY <1>3, SessionShows
<1>4. CASE Open(d) \/ Commit(d) \/ SaveSnapshot(d) \/ BeginSave(d) \/ FinishSave(d)
           \/ (LoseStale(d) /\ Environment(d)) \/ CheckpointWorker(d)
  <2>1. sock' = sock
    BY <1>4 DEF Open, Commit, SaveSnapshot, BeginSave, FinishSave, LoseStale, CheckpointWorker, BeginCheckpoint,
                ExportSnapshot, PostCheckpoint, StoreCheckpoint, LoseCheckpoint, LateCheckpoint, roomVars
  <2> QED  BY <2>1 DEF Shown
<1> QED  BY <1>1, <1>2, <1>3, <1>4 DEF Acts, Environment

StatesInv == \A d \in Devices : StatesTrue(sock[d])

LEMMA StatesInvStep ==
  ASSUME SyncInv, Truth, WorkInv, StatesInv, NEW d \in Devices, Acts(d)
  PROVE  StatesInv'
<1>0. /\ Shapes(Ops) /\ LogInv /\ LogInv' /\ LogGrows
      /\ headSeq \in Nat /\ seqFloor \in Nat /\ checkpoint.seq = seqFloor /\ seqFloor <= headSeq
      /\ checkpoint.stored \in BOOLEAN /\ (checkpoint.stored \/ seqFloor = 0)
  BY SyncParts, LogGoesOn, CheckpointFacts
<1>1. HasAll(checkpoint.frontier, seqFloor)
  <2>1. HasAll(checkpoint.ops, seqFloor) /\ checkpoint.ops \subseteq checkpoint.frontier
    BY <1>0 DEF WorkInv, CheckpointWhole
  <2> QED  BY <1>0, <2>1, HasAllMore
<1>2. ASSUME NEW e \in Devices PROVE StatesTrue(sock[e])'
  <2>1. PICK r, s : r \in Socks(Ops) /\ r = sock[e] /\ s = sock'[e]  BY <1>0, ShapeParts
  <2>2. Shown(r, s) /\ SockTrue(r) /\ StatesTrue(r)  BY <2>1, StepShows DEF Truth, TrueTo, StatesInv
  <2>3. ASSUME NEW f \in ToSet(s.down), f.kind = "state"
        PROVE  HasAll(f.frontier, f.stats.ckptSeq)' /\ (f.stats.stored \/ f.stats.ckptSeq = 0)
    <3>1. CASE f \in ToSet(r.down)
      <4>1. f \in DownFrames(Ops)  BY <2>1, <3>1, SockParts
      <4>2. PICK x, n : x = f.frontier /\ n = f.stats.ckptSeq /\ n \in Nat  BY <2>3, <4>1, FrameParts
      <4>3. n <= headSeq  BY <1>0, <2>2, <2>3, <3>1, <4>2 DEF SockTrue, TrueFrame
      <4>4. HasAll(x, n) /\ (f.stats.stored \/ n = 0)  BY <2>2, <2>3, <3>1, <4>2 DEF StatesTrue, StateTrue
      <4>5. HasAll(x, n)'  BY <1>0, <4>2, <4>3, <4>4, HasAllLasts
      <4> QED  BY <4>2, <4>4, <4>5 DEF HasAll
    <3>2. CASE f = State(r.stats, checkpoint.frontier)
      <4>1. PICK x, n : x = checkpoint.frontier /\ n = r.stats.ckptSeq /\ n \in Nat  BY <2>1, SockParts
      <4>2. f.frontier = x /\ f.stats = r.stats  BY <3>2, <4>1 DEF State
      <4>3. n <= seqFloor /\ n <= headSeq  BY <1>0, <2>2, <4>1 DEF SockTrue
      <4>4. HasAll(x, n)  BY <1>0, <1>1, <4>1, <4>3, HasAllMore
      <4>5. HasAll(x, n)'  BY <1>0, <4>1, <4>3, <4>4, HasAllLasts
      <4>6. f.stats.stored \/ f.stats.ckptSeq = 0  BY <2>2, <4>2 DEF StatesTrue
      <4> QED  BY <4>1, <4>2, <4>5, <4>6 DEF HasAll
    <3> QED  BY <2>2, <2>3, <3>1, <3>2 DEF Shown
  <2>4. s.stats.stored \/ s.stats.ckptSeq = 0
    <3>1. NoStats.ckptSeq = 0  BY DEF NoStats
    <3>2. Stats.stored = checkpoint.stored /\ Stats.ckptSeq = checkpoint.seq  BY DEF Stats
    <3>3. CASE s.stats = r.stats  BY <2>2, <3>3 DEF StatesTrue
    <3>4. CASE s.stats = NoStats  BY <3>1, <3>4
    <3>5. CASE s.stats = Stats  BY <1>0, <3>2, <3>5
    <3> QED  BY <2>2, <3>3, <3>4, <3>5 DEF Shown
  <2> QED  BY <2>1, <2>3, <2>4 DEF StatesTrue, StateTrue, HasAll
<1> QED  BY <1>2 DEF StatesInv

LEMMA InitStatesInv ==
  ASSUME Init
  PROVE  StatesInv
<1>1. \A d \in Devices : sock[d] = NoSocket  BY DEF Init, RoomInit
<1>2. ToSet(NoSocket.down) = {} /\ NoSocket.stats.ckptSeq = 0  BY NoSocketIsASocket DEF NoSocket, NoStats
<1> QED  BY <1>1, <1>2 DEF StatesInv, StatesTrue

LEMMA StatesInvKept ==
  ASSUME SyncInv, Truth, WorkInv, StatesInv, [Next]_vars
  PROVE  StatesInv'
<1>1. CASE Next
  <2>1. PICK d \in Devices : Acts(d)  BY <1>1, NextIsAnAct
  <2> QED  BY <2>1, StatesInvStep
<1>2. CASE UNCHANGED vars
  <2>1. UNCHANGED <<headSeq, accepted, sock>>  BY <1>2 DEF vars, logVars, roomVars
  <2> QED  BY <2>1 DEF StatesInv, StatesTrue, StateTrue, HasAll
<1> QED  BY <1>1, <1>2

\* A backfill begins by a STATE that shows nothing new, or by the checkpoint.
LEMMA BackfillBegins ==
  ASSUME SyncInv, NEW d \in Devices, Acts(d), NEW e \in Devices,
         client[e].phase \in {"hello", "fetch"}, client'[e].phase = "backfill"
  PROVE  e = d /\ (ReceiveState(d) \/ FetchCheckpoint(d))
<1>0. Shapes(Ops) /\ Basic(Ops) /\ (commits[d] < MaxCommits => <<d, commits[d] + 1>> \in Ops)  BY SyncParts
<1>1. PICK q : q = client[d].phase  OBVIOUS
<1>2. ASSUME NEW c, client' = [client EXCEPT ![d] = c], c.phase # "backfill" \/ c.phase = q PROVE FALSE
  <2>1. client'[d] = c /\ \A f \in Devices : f # d => client'[f] = client[f]  BY <1>0, <1>2 DEF Shapes
  <2> QED  BY <1>1, <1>2, <2>1
<1>3. ASSUME NEW c, NEW s, Moves(Ops, d, c, s), c.phase # "backfill" \/ c.phase = q PROVE FALSE
  <2>1. client' = [client EXCEPT ![d] = c]  BY <1>3 DEF Moves
  <2> QED  BY <1>2, <1>3, <2>1
<1>4. ASSUME ReceiveRow(d) PROVE FALSE
  <2>1. PICK c, s : /\ Moves(Ops, d, c, s) /\ Shapes(Ops)' /\ Took(Ops, d, "row", <<>>, s)
                    /\ q \in {"backfill", "steady"} /\ c.phase = q
    BY <1>0, <1>1, <1>4, ReceiveRowEffect
  <2> QED  BY <1>3, <2>1
<1>5. ASSUME ReceiveAck(d) PROVE FALSE
  <2>1. PICK c, s : /\ Moves(Ops, d, c, s) /\ Shapes(Ops)' /\ Took(Ops, d, "ack", <<>>, s)
                    /\ q \in {"backfill", "steady"} /\ c.phase = q
    BY <1>0, <1>1, <1>5, ReceiveAckEffect
  <2> QED  BY <1>3, <2>1
<1>6. ASSUME ReceiveRowsDone(d) PROVE FALSE
  <2>1. PICK c, s : Moves(Ops, d, c, s) /\ c.phase = "steady"
    BY <1>0, <1>6, ReceiveRowsDoneEffect
  <2> QED  BY <1>3, <2>1
<1>7. ASSUME PushPending(d) PROVE FALSE
  <2>1. PICK c, s : Moves(Ops, d, c, s) /\ c.phase = "steady"
    BY <1>0, <1>7, PushPendingEffect
  <2> QED  BY <1>3, <2>1
<1>8. ASSUME SeeClose(d) \/ Cut(d) PROVE FALSE
  <2>0. EndSession(d) /\ faults' \in Nat
    <3>1. EndSession(d) /\ faults \in Nat  BY <1>0, <1>8 DEF SeeClose, Cut, Shapes
    <3>2. faults' = faults \/ faults' = faults + 1  BY <1>8 DEF SeeClose, Cut, MayFault
    <3> QED  BY <3>1, <3>2
  <2>1. PICK c : Moves(Ops, d, c, NoSocket) /\ c.phase = "idle"  BY <1>0, <2>0, EndSessionEffect
  <2> QED  BY <1>3, <2>1
<1>9. ASSUME Dial(d) PROVE FALSE
  <2>1. PICK c, s : Moves(Ops, d, c, s) /\ c.phase = "hello"  BY <1>0, <1>9, DialEffect
  <2> QED  BY <1>3, <2>1
<1>10. ASSUME Crash(d) \/ Evict(d) PROVE FALSE
  <2>1. Moves(Ops, d, NoClient, NoSocket)  BY <1>0, <1>10, CrashEffect, EvictEffect
  <2>2. NoClient.phase = "closed"  BY DEF NoClient
  <2> QED  BY <1>3, <2>1, <2>2
<1>11. ASSUME Open(d) PROVE FALSE
  <2>1. PICK c : client' = [client EXCEPT ![d] = c] /\ c.phase = "idle"
    <3>1. PICK c, x :
            /\ x = StoredOrInit(d) /\ x \in SUBSET Ops
            /\ c \in Clients(Ops) /\ client' = [client EXCEPT ![d] = c] /\ Shapes(Ops)'
            /\ client[d].phase = "closed" /\ c.phase = "idle" /\ ~ c.joined
            /\ c.cursor = disk[d].cursor /\ c.base = disk[d].cursor /\ c.after = 0
            /\ disk[d].cursor = 0 =>
                 /\ minted' = [minted EXCEPT ![d] = @ + 1]
                 /\ ToSet(c.pending) = IF Cardinality(x) <= MaxPushOps THEN {Minted(d, x)} ELSE {}
            /\ disk[d].cursor # 0 => minted' = minted /\ ToSet(c.pending) = {}
            /\ doc'[d] = x /\ disk'[d].doc = x /\ disk'[d].cursor = disk[d].cursor
            /\ \A f \in Devices : f # d => doc'[f] = doc[f] /\ disk'[f] = disk[f]
      BY <1>0, <1>11, OpenEffect
    <3> QED  BY <3>1
  <2> QED  BY <1>2, <2>1
<1>12. ASSUME Commit(d) PROVE FALSE
  <2>1. <<d, commits[d] + 1>> \in Ops  BY <1>0, <1>12 DEF Commit
  <2>2. PICK c : client' = [client EXCEPT ![d] = c] /\ c.phase = client[d].phase /\ c.phase # "closed"
    BY <1>0, <1>12, <2>1, CommitEffect
  <2> QED  BY <1>1, <1>2, <2>2
<1>13. ASSUME SaveSnapshot(d) \/ BeginSave(d) \/ FinishSave(d) \/ Hub(d) \/ Environment(d) \/ CheckpointWorker(d)
       PROVE  FALSE
  <2>1. client' = client
    BY <1>13 DEF SaveSnapshot, BeginSave, FinishSave, Hub, Environment, CheckpointWorker, BeginCheckpoint,
                 ExportSnapshot, PostCheckpoint, StoreCheckpoint, LoseCheckpoint, LateCheckpoint
  <2> QED  BY <2>1
<1>14. ReceiveState(d) \/ FetchCheckpoint(d)
  BY <1>4, <1>5, <1>6, <1>7, <1>8, <1>9, <1>10, <1>11, <1>12, <1>13 DEF Acts, Session
<1>15. \A f \in Devices : f # d => client'[f] = client[f]
  <2>1. Session(d)  BY <1>14 DEF Session
  <2> QED  BY <1>0, <2>1, SessionStores
<1> QED  BY <1>14, <1>15

WholeCatchUp ==
  \A d \in Devices :
    Phase(d) \in {"hello", "fetch"} /\ Phase(d)' = "backfill" =>
      \A s \in 1 .. CheckpointedUpTo(d) : accepted[s].ops \subseteq doc'[d]

LEMMA CatchUpFollows ==
  ASSUME SyncInv, Truth, WorkInv, StatesInv, [Next]_vars
  PROVE  [WholeCatchUp]_vars
<1> SUFFICES ASSUME Next PROVE WholeCatchUp  OBVIOUS
<1>1. PICK d \in Devices : Acts(d)  BY NextIsAnAct
<1>0. /\ Shapes(Ops) /\ LogInv
      /\ headSeq \in Nat /\ seqFloor \in Nat /\ checkpoint.seq = seqFloor /\ seqFloor <= headSeq
  BY SyncParts, CheckpointFacts
<1>2. ASSUME NEW x, NEW y, NEW n \in Nat, n <= headSeq, HasAll(x, n), x \subseteq y
      PROVE  \A m \in 1 .. n : accepted[m].ops \subseteq y
  <2> SUFFICES ASSUME NEW m \in 1 .. n PROVE accepted[m].ops \subseteq y  OBVIOUS
  <2>1. m \in 1 .. headSeq /\ m <= n  BY <1>0, <1>2
  <2> QED  BY <1>2, <2>1 DEF HasAll
<1> SUFFICES ASSUME NEW e \in Devices, client[e].phase \in {"hello", "fetch"}, client'[e].phase = "backfill"
             PROVE  \A m \in 1 .. CheckpointedUpTo(e) : accepted[m].ops \subseteq doc'[e]
  BY DEF WholeCatchUp, Phase
<1>3. e = d /\ (ReceiveState(d) \/ FetchCheckpoint(d))  BY <1>1, BackfillBegins
<1>4. PICK r \in Socks(Ops), k \in Clients(Ops) : r = sock[d] /\ k = client[d]  BY <1>0, ShapeParts
<1>5. SockTrue(r) /\ ClientTrue(k) /\ StatesTrue(r)  BY <1>4 DEF Truth, TrueTo, StatesInv
<1>6. CASE ReceiveState(d)
  <2>1. PICK f : f = Frame(d)  OBVIOUS
  <2>2. k.phase = "hello" /\ doc'[d] = doc[d]  BY <1>4, <1>6 DEF ReceiveState, Phase
  <2>3. f \in ToSet(r.down) /\ f.kind = "state"
    <3>1. \E s, sent : Took(Ops, d, "state", sent, s)  BY <1>0, <1>6, ReceiveStateEffect
    <3> QED  BY <1>4, <2>1, <3>1 DEF Took
  <2>4. f \in DownFrames(Ops)  BY <1>4, <2>3, SockParts
  <2>5. PICK n : n = f.stats.ckptSeq /\ n \in Nat  BY <2>3, <2>4, FrameParts
  <2>6. n <= headSeq  BY <1>0, <1>5, <2>3, <2>5 DEF SockTrue, TrueFrame
  <2>7. HasAll(f.frontier, n) /\ (f.stats.stored \/ n = 0)  BY <1>5, <2>3, <2>5 DEF StatesTrue, StateTrue
  <2>8. CheckpointedUpTo(e) = n  BY <1>3, <1>4, <2>1, <2>2, <2>5 DEF CheckpointedUpTo, Phase
  <2>9. Contained(d, f)
    <3>1. CASE ~ Contained(d, f)
      <4>1. client' = [client EXCEPT ![d].phase = "fetch", ![d].after = f.stats.ckptSeq]
        BY <1>6, <2>1, <3>1 DEF ReceiveState
      <4>2. client'[d].phase = "fetch"  BY <1>0, <1>4, <4>1 DEF Shapes, Clients
      <4> QED  BY <1>3, <4>2
    <3> QED  BY <3>1
  <2>10. CASE n = 0
    <3>1. 1 .. n = {}  BY <2>10
    <3> QED  BY <2>8, <3>1
  <2>11. CASE f.stats.stored
    <3>1. f.frontier \subseteq doc[d]  BY <2>9, <2>11 DEF Contained
    <3>2. PICK x, y : x = f.frontier /\ y = doc[d]  OBVIOUS
    <3>3. HasAll(x, n) /\ x \subseteq y  BY <2>7, <3>1, <3>2
    <3>4. \A m \in 1 .. n : accepted[m].ops \subseteq y  BY <1>2, <2>5, <2>6, <3>3
    <3> QED  BY <1>3, <2>2, <2>8, <3>2, <3>4
  <2> QED  BY <2>7, <2>10, <2>11
<1>7. CASE FetchCheckpoint(d)
  <2>1. PICK x, y, n : x = checkpoint.ops /\ y = doc'[d] /\ n = k.after  OBVIOUS
  <2>2. k.phase = "fetch" /\ x \subseteq y
    <3>1. doc' = [doc EXCEPT ![d] = doc[d] \cup checkpoint.ops] /\ client[d].phase = "fetch"
      BY <1>7 DEF FetchCheckpoint, Phase
    <3>2. doc'[d] = doc[d] \cup checkpoint.ops  BY <1>0, <3>1 DEF Shapes
    <3> QED  BY <1>4, <2>1, <3>1, <3>2
  <2>3. n \in Nat /\ n <= seqFloor /\ n <= headSeq  BY <1>0, <1>4, <1>5, <2>1, ClientParts DEF ClientTrue
  <2>4. HasAll(x, seqFloor)  BY <1>0, <2>1 DEF WorkInv, CheckpointWhole
  <2>5. HasAll(x, n)  BY <1>0, <2>3, <2>4, HasAllMore
  <2>6. \A m \in 1 .. n : accepted[m].ops \subseteq y  BY <1>2, <2>2, <2>3, <2>5
  <2>7. CheckpointedUpTo(e) = n  BY <1>3, <1>4, <2>1, <2>2 DEF CheckpointedUpTo, Phase
  <2> QED  BY <1>3, <2>1, <2>6, <2>7
<1> QED  BY <1>3, <1>6, <1>7

\* A session that begins its backfill has every row the hub will not send it: those
\* below the checkpoint of its STATE, though the frontier, the statistics and the
\* blob it fetches are read at three different times.
THEOREM CatchUpsAreWhole ==
  ASSUME "overlap" \notin FaultKinds, "backfill" \notin Disturbed, \A f, g \in Checkpointers : f = g
  PROVE  Spec /\ [][BackfillsEnd /\ StoredAtTheEnd]_vars => CatchUpIsWhole
<1>1. Init => StatesInv  BY InitStatesInv
<1>2. (SyncInv /\ Truth /\ RelayInv /\ GapInv /\ WorkInv) /\ StatesInv /\ [Next]_vars => StatesInv'
  BY StatesInvKept
<1>3. (SyncInv /\ Truth /\ RelayInv /\ GapInv /\ WorkInv) /\ StatesInv /\ [Next]_vars => [WholeCatchUp]_vars
  BY CatchUpFollows
<1>4. CatchUpIsWhole <=> [][WholeCatchUp]_vars  BY DEF CatchUpIsWhole, WholeCatchUp
<1> QED  BY <1>1, <1>2, <1>3, <1>4, CheckpointsSafe, PTL DEF Spec

===============================================================================
