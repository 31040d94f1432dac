-------------------------- MODULE ChatCutoverProofs --------------------------
(***************************************************************************)
(* Proofs about ChatCutover for every set of readers, commands and every   *)
(* bound on faults and copies: the move to the chat2 room duplicates no    *)
(* message and leaves none behind.                                         *)
(*                                                                         *)
(* The argument divides a behaviour by one step: StoreThin, which puts the *)
(* rebuilt document in the place of the host's.  Before it nobody is on    *)
(* the new side, and whatever a document holds is as its author wrote it   *)
(* (Old).  After it the checkpoint is the rebuild and stays it, and what a *)
(* document of the new side holds is either the checkpoint's or written by *)
(* a run that began after it (NewSide).  Either holds a message once.      *)
(***************************************************************************)
EXTENDS ChatCutover, TLAPS

Docs == [messages : SUBSET (Copies \X Messages), commands : SUBSET Commands,
         done : SUBSET Commands]

Handles == [open : BOOLEAN, roomGen : {0, 1, 2}, doc : Docs, retired : BOOLEAN,
            run : SUBSET Commands, joined : BOOLEAN, owes : BOOLEAN, queue : Docs]

Snapshots == [doc : Docs, epoch : {0, 2}, cursor : BOOLEAN]

Stages == {"none", "posting", "posted", "sealed", "stored", "flipped"}

\* The types of the cutover's state.
CutoverTypeOK ==
  /\ handle \in [Devices -> Handles]
  /\ disk \in [Devices -> SUBSET Snapshots]
  /\ rollback \in [Devices -> SUBSET Docs]
  /\ view \in [Devices -> 0 .. 2] /\ signal \subseteq Devices /\ rowGen \in 1 .. 2
  /\ s2 \in Docs /\ checkpoint \subseteq Docs /\ rows \in Docs
  /\ waiter \in {"none", "live", "dead"}
  /\ seed \in [stage : Stages, doc : Docs, thin : Docs]
  /\ processed \subseteq Commands /\ issued \subseteq Commands
  /\ salvageDue \in BOOLEAN /\ faults \in 0 .. MaxFaults

\* Every device has the chat's row, and a flip is not interleaved with saves and opens.
Ordinary == Newcomers = {} /\ "overlap" \notin FaultKinds

\* A seed's document has the s2 room's backfill and stays open while it is seeded.
Attended == FaultKinds \cap {"late", "away"} = {}

-----------------------------------------------------------------------------
(* The invariant *)

\* Every device has a stored document; a handle that is open is on one of the rooms, and
\* no handle is retired while a run holds it.
Kept(d) == disk[d] = {Stored(d)} /\ Stored(d) \in Snapshots

Shapes ==
  /\ CutoverTypeOK
  /\ \A d \in Devices :
       /\ Kept(d) /\ view[d] \in {1, 2}
       /\ ~ handle[d].retired /\ (handle[d].open <=> handle[d].roomGen # 0)
       /\ handle[d].roomGen = 0 => handle[d].doc.messages = {}

\* What the old side may hold: what authors wrote, of commands that did run.
Old == {0} \X ({Before} \cup processed)

\* All of a rebuild's messages have the rebuild's tag.
OneTag(doc) == \E t \in Copies : doc.messages \subseteq {t} \X Messages

\* What the new side may hold: a checkpoint's messages, and those of later runs.
NewSide == UNION {k.messages \cup ({0} \X (Commands \ Said(k))) : k \in checkpoint}

Moved == Stored(Host).epoch = 2

\* Before the host's store is replaced nothing is on the new side.
BeforeTheMove ==
  ~ Moved =>
    /\ view[Host] = 1 /\ rowGen = 1 /\ rows.messages = {}
    /\ handle[Host].roomGen # 2 /\ seed.stage \notin {"stored", "flipped"}
    /\ Stored(Host).doc.messages \subseteq Old /\ <<0, Before>> \in Stored(Host).doc.messages

\* From then on there is one checkpoint, which has all that was said on the old side.
AfterTheMove ==
  Moved =>
    /\ seed.stage \in {"none", "stored", "flipped"}
    /\ handle[Host].roomGen = 1 => seed.stage # "none"
    /\ rows.messages \subseteq NewSide
    /\ Stored(Host).doc.messages \subseteq NewSide /\ Before \in Said(Stored(Host).doc)
    /\ handle[Host].roomGen = 2 =>
         /\ handle[Host].doc.messages \subseteq NewSide /\ Before \in Said(handle[Host].doc)
         /\ handle[Host].queue.messages \subseteq NewSide
         /\ {0} \X handle[Host].run \subseteq NewSide
    /\ \E k \in checkpoint :
         /\ checkpoint = {k}
         /\ Attended => Said(s2) \subseteq Said(k)
         /\ Said(k) \subseteq {Before} \cup processed

\* The old side: the host writes it, a reader only has what came through the s2 room.
OldSide ==
  /\ s2.messages \subseteq Old
  /\ \A k \in checkpoint : OneTag(k)
  /\ waiter = "live" => handle[Host].roomGen = 1
  /\ handle[Host].roomGen = 0 => handle[Host].run = {}
  /\ handle[Host].roomGen = 1 =>
       /\ handle[Host].doc.messages \subseteq Old /\ <<0, Before>> \in handle[Host].doc.messages
       /\ handle[Host].run \subseteq processed

\* A seed rebuilds what the old side holds; an open document is frozen from the seal on.
SeedHolds ==
  seed.stage # "none" =>
    /\ handle[Host].roomGen # 2
    /\ seed.doc.messages \subseteq Old /\ <<0, Before>> \in seed.doc.messages
    /\ OneTag(seed.thin) /\ Said(seed.thin) = Said(seed.doc)
    /\ seed.stage # "posting" => checkpoint = {seed.thin}
    /\ seed.stage \notin {"posting", "posted"} /\ handle[Host].roomGen = 1 =>
         handle[Host].doc = seed.doc /\ handle[Host].run = {}
    /\ Attended => handle[Host].roomGen = 1 /\ s2.messages \subseteq handle[Host].doc.messages

\* A reader with handle h, stored document x and view v, when the s2 room holds S and the
\* new side may hold N.
ReaderOn(h, x, v, S, N) ==
  /\ h.run = {}
  /\ h.roomGen = 1 => h.doc.messages \subseteq S
  /\ h.roomGen = 2 => v = 2 /\ h.doc.messages \subseteq N /\ h.queue.messages \subseteq N
  /\ x.epoch = 2 => v = 2 /\ h.roomGen # 1 /\ x.doc.messages \subseteq N
  /\ \/ x.doc.messages \subseteq S
     \/ v = 2 /\ h.roomGen # 1 /\ x.doc.messages \subseteq N

ReadersFollow ==
  \A d \in Readers :
    /\ view[d] <= rowGen
    /\ ReaderOn(handle[d], Stored(d), view[d], s2.messages, NewSide)

MoveInv ==
  Shapes /\ BeforeTheMove /\ AfterTheMove /\ OldSide /\ SeedHolds /\ ReadersFollow

-----------------------------------------------------------------------------
(* Documents, snapshots and handles *)

LEMMA HostIsADevice ==
  /\ Host \in Devices /\ Readers \subseteq Devices /\ Host \notin Readers
  /\ \A d \in Devices : Newcomers = {} /\ d # Host => d \in Readers
  /\ \A c \in Commands : IssuedBy[c] \in Devices
BY ChatCutoverAssumption DEF Devices

LEMMA EmptyFacts ==
  Empty \in Docs /\ Empty.messages = {} /\ Empty.commands = {} /\ Empty.done = {}
BY DEF Empty, Docs

LEMMA FatFacts == Fat \in Docs /\ Fat.messages = {<<0, Before>>}
<1>1. 0 \in Copies /\ Before \in Messages  BY ChatCutoverAssumption DEF Copies, Messages
<1> QED  BY <1>1 DEF Fat, Empty, Docs

LEMMA MergeFacts ==
  ASSUME NEW a \in Docs, NEW b \in Docs
  PROVE  Merge(a, b) \in Docs /\ Merge(a, b).messages = a.messages \cup b.messages
BY DEF Merge, Docs

LEMMA DocParts ==
  ASSUME NEW a \in Docs
  PROVE  /\ a.messages \subseteq Copies \X Messages
         /\ a.commands \subseteq Commands /\ a.done \subseteq Commands
BY DEF Docs

\* A document of commands only.
LEMMA CommandsFacts ==
  ASSUME NEW C \in SUBSET Commands
  PROVE  /\ [Empty EXCEPT !.commands = C] \in Docs /\ [Empty EXCEPT !.commands = C].messages = {}
         /\ [Empty EXCEPT !.done = C] \in Docs /\ [Empty EXCEPT !.done = C].messages = {}
BY DEF Empty, Docs

LEMMA MessagesFacts ==
  ASSUME NEW M \in SUBSET (Copies \X Messages)
  PROVE  [Empty EXCEPT !.messages = M] \in Docs /\ [Empty EXCEPT !.messages = M].messages = M
BY DEF Empty, Docs

LEMMA SaidFacts ==
  ASSUME NEW a \in Docs
  PROVE  Said(a) \subseteq Messages /\ \A m \in a.messages : m = <<m[1], m[2]>> /\ m[2] \in Said(a)
BY DocParts DEF Said

LEMMA RebuildFacts ==
  ASSUME NEW a \in Docs, NEW k \in Copies
  PROVE  /\ Rebuild(a, k) \in Docs /\ Rebuild(a, k).messages = {k} \X Said(a)
         /\ OneTag(Rebuild(a, k)) /\ Said(Rebuild(a, k)) = Said(a)
<1>1. Said(a) \subseteq Messages  BY SaidFacts
<1>2. Rebuild(a, k).messages = {k} \X Said(a)  BY DEF Rebuild
<1>3. Rebuild(a, k) \in Docs  BY <1>1 DEF Rebuild, Docs, Pending
<1>4. OneTag(Rebuild(a, k))  BY <1>1, <1>2 DEF OneTag
<1>5. Said(Rebuild(a, k)) = Said(a)
  <2>1. PICK M : M = Said(a) /\ {k} \X M = Rebuild(a, k).messages  BY <1>2
  <2>2. Said(Rebuild(a, k)) \subseteq M  BY <2>1 DEF Said
  <2>3. ASSUME NEW m \in M PROVE m \in Said(Rebuild(a, k))
    <3>1. <<k, m>> \in Rebuild(a, k).messages /\ <<k, m>>[2] = m  BY <2>1
    <3> QED  BY <3>1 DEF Said
  <2> QED  BY <2>1, <2>2, <2>3
<1> QED  BY <1>2, <1>3, <1>4, <1>5

LEMMA NoHandleFacts ==
  /\ NoHandle \in Handles /\ NoHandle.roomGen = 0 /\ ~ NoHandle.open /\ ~ NoHandle.retired
  /\ NoHandle.run = {}
BY EmptyFacts DEF NoHandle, Handles

LEMMA LegacyFacts ==
  ASSUME NEW a \in Docs
  PROVE  /\ Legacy(a) \in Handles /\ Legacy(a).roomGen = 1 /\ Legacy(a).open
         /\ ~ Legacy(a).retired /\ Legacy(a).run = {} /\ Legacy(a).doc = a
<1>1. PICK n : n = NoHandle /\ n \in Handles /\ ~ n.retired /\ n.run = {}  BY NoHandleFacts
<1>2. Legacy(a) = [n EXCEPT !.open = TRUE, !.roomGen = 1, !.doc = a]  BY <1>1 DEF Legacy
<1>4. PICK r : r = Legacy(a)  OBVIOUS
<1>5. r \in Handles  BY <1>1, <1>2, <1>4 DEF Handles
<1>6. r.roomGen = 1 /\ r.run = {} /\ r.doc = a  BY <1>1, <1>2, <1>4 DEF Handles
<1>7. r.open = TRUE /\ r.retired = n.retired  BY <1>1, <1>2, <1>4 DEF Handles
<1> QED  BY <1>1, <1>2, <1>4, <1>5, <1>6, <1>7

LEMMA OnChat2Facts ==
  ASSUME NEW a \in Docs, NEW b \in BOOLEAN
  PROVE  /\ OnChat2(a, b) \in Handles /\ OnChat2(a, b).roomGen = 2 /\ OnChat2(a, b).open
         /\ ~ OnChat2(a, b).retired /\ OnChat2(a, b).run = {} /\ OnChat2(a, b).doc = a
         /\ OnChat2(a, b).queue.messages \subseteq a.messages
<1>1. PICK n : n = NoHandle /\ n \in Handles /\ ~ n.retired /\ n.run = {}  BY NoHandleFacts
<1>2. PICK q : q = (IF b THEN Empty ELSE a) /\ q \in Docs /\ q.messages \subseteq a.messages
  BY EmptyFacts
<1>3. OnChat2(a, b) = [n EXCEPT !.open = TRUE, !.roomGen = 2, !.doc = a, !.owes = ~ b, !.queue = q]
  BY <1>1, <1>2 DEF OnChat2
<1>4. PICK r : r = OnChat2(a, b)  OBVIOUS
<1>5. r \in Handles  BY <1>1, <1>2, <1>3, <1>4 DEF Handles
<1>6. r.roomGen = 2 /\ r.run = {} /\ r.doc = a /\ r.queue = q  BY <1>1, <1>2, <1>3, <1>4 DEF Handles
<1>7. r.open = TRUE /\ r.retired = n.retired  BY <1>1, <1>2, <1>3, <1>4 DEF Handles
<1> QED  BY <1>1, <1>2, <1>3, <1>4, <1>5, <1>6, <1>7

LEMMA ChangedFacts ==
  ASSUME NEW d \in Devices, handle[d] \in Handles, NEW a \in Docs
  PROVE  LET h == handle[d]  g == Changed(d, a) IN
         /\ g \in Handles /\ g.open = h.open /\ g.roomGen = h.roomGen /\ g.retired = h.retired
         /\ g.run = h.run /\ g.joined = h.joined
         /\ g.doc.messages = h.doc.messages \cup a.messages
         /\ g.queue.messages \subseteq h.queue.messages \cup a.messages
<1>1. PICK h : h = handle[d] /\ h \in Handles  OBVIOUS
<1>2. PICK p, q : p = Merge(h.doc, a) /\ q = Merge(h.queue, a)  OBVIOUS
<1>3. h.doc \in Docs /\ h.queue \in Docs  BY <1>1 DEF Handles
<1>4. /\ p \in Docs /\ p.messages = h.doc.messages \cup a.messages
      /\ q \in Docs /\ q.messages = h.queue.messages \cup a.messages
  BY <1>2, <1>3, MergeFacts
<1>5. Changed(d, a) = IF h.roomGen = 2 THEN [h EXCEPT !.doc = p, !.owes = TRUE, !.queue = q]
                      ELSE [h EXCEPT !.doc = p]
  BY <1>1, <1>2 DEF Changed
<1> QED  BY <1>1, <1>4, <1>5 DEF Handles


-----------------------------------------------------------------------------
(* The types *)

LEMMA StoredFacts ==
  ASSUME CutoverTypeOK, NEW d \in Devices, disk[d] # {}
  PROVE  Stored(d) \in disk[d] /\ Stored(d) \in Snapshots /\ Stored(d).doc \in Docs
BY DEF CutoverTypeOK, Stored, Snapshots

LEMMA HandleParts ==
  ASSUME NEW h \in Handles
  PROVE  h.doc \in Docs /\ h.queue \in Docs /\ h.run \subseteq Commands /\ h.roomGen \in {0, 1, 2}
BY DEF Handles

LEMMA NewCopyIsACopy == NewCopy \subseteq Copies
BY DEF NewCopy

LEMMA RequeuedFacts ==
  ASSUME CutoverTypeOK, NEW d \in Devices, disk[d] # {}
  PROVE  Requeued(d) \in Docs /\ Requeued(d).messages = {}
<1>1. PICK C : C = {c \in Pending(Stored(d).doc) : IssuedBy[c] = d}  OBVIOUS
<1>2. C \subseteq Commands  BY <1>1, StoredFacts, DocParts DEF Pending
<1> QED  BY <1>1, <1>2, CommandsFacts DEF Requeued

LEMMA WaiterFacts ==
  ASSUME CutoverTypeOK, NEW d \in Devices
  PROVE  /\ WaiterAfterDrop(d) \in {"none", "live", "dead"} /\ Arm(waiter) \in {"none", "live", "dead"}
         /\ d # Host => WaiterAfterDrop(d) = waiter
         /\ WaiterAfterDrop(Host) # "live"
BY DEF CutoverTypeOK, WaiterAfterDrop, Arm

\* What save_snapshot leaves in the store.
LEMMA SavedFacts ==
  ASSUME CutoverTypeOK, NEW d \in Devices
  PROVE  /\ Saved(d) \in [Devices -> SUBSET Snapshots]
         /\ disk[d] # {} /\ ~ handle[d].retired =>
              \E x \in Snapshots : /\ Saved(d) = [disk EXCEPT ![d] = {x}]
                                   /\ x.doc = handle[d].doc /\ x.epoch = Stored(d).epoch
<1>1. PICK h : h = handle[d] /\ h \in Handles /\ h.doc \in Docs
  BY HandleParts DEF CutoverTypeOK
<1>2. disk \in [Devices -> SUBSET Snapshots]  BY DEF CutoverTypeOK
<1>3. CASE disk[d] = {}
  <2>0. [doc |-> h.doc, epoch |-> 0, cursor |-> FALSE] \in Snapshots  BY <1>1 DEF Snapshots
  <2>1. PICK x \in Snapshots : x = [doc |-> h.doc, epoch |-> 0, cursor |-> FALSE]  BY <2>0
  <2>2. Saved(d) = disk \/ Saved(d) = [disk EXCEPT ![d] = {x}]  BY <1>1, <1>3, <2>1 DEF Saved
  <2>3. Saved(d) \in [Devices -> SUBSET Snapshots]  BY <1>2, <2>1, <2>2
  <2> QED  BY <1>3, <2>3
<1>4. CASE disk[d] # {}
  <2>0. PICK y : y = Stored(d) /\ y \in Snapshots  BY <1>4, StoredFacts
  <2>1. PICK x : x = [doc |-> h.doc, epoch |-> y.epoch, cursor |-> y.cursor]  OBVIOUS
  <2>2. (Saved(d) = disk /\ h.retired) \/ Saved(d) = [disk EXCEPT ![d] = {x}]
    <3>1. (disk[d] # {} /\ Stored(d).cursor) = y.cursor  BY <1>4, <2>0 DEF Snapshots
    <3> QED  BY <1>1, <1>4, <2>0, <2>1, <3>1 DEF Saved
  <2>3. x \in Snapshots /\ x.doc = h.doc /\ x.epoch = y.epoch  BY <1>1, <2>0, <2>1 DEF Snapshots
  <2> QED  BY <1>1, <1>2, <1>4, <2>0, <2>2, <2>3
<1> QED  BY <1>3, <1>4

\* What open() leaves behind when there is no handle to return.
LEMMA OpenFreshFacts ==
  ASSUME CutoverTypeOK, NEW d \in Devices, OpenFresh(d)
  PROVE  /\ \E h \in Handles :
              /\ handle' = [handle EXCEPT ![d] = h]
              /\ h.open /\ ~ h.retired /\ h.run = {} /\ h.roomGen = OpensOn(d)
              /\ h.queue.messages \subseteq h.doc.messages
              /\ disk[d] # {} => \/ h.doc = Stored(d).doc /\ (h.roomGen = 1 \/ Thin(d))
                                 \/ h.doc.messages = {} /\ h.roomGen = 2 /\ ~ Thin(d)
         /\ disk' \in [Devices -> SUBSET Snapshots] /\ (disk[d] # {} => disk' = disk)
         /\ rollback' \in [Devices -> SUBSET Docs]
         /\ waiter' = IF d = Host /\ OpensOn(d) = 1 THEN Arm(waiter) ELSE WaiterAfterDrop(d)
<1>0. /\ handle \in [Devices -> Handles] /\ disk \in [Devices -> SUBSET Snapshots]
      /\ rollback \in [Devices -> SUBSET Docs]
  BY DEF CutoverTypeOK
<1>1. waiter' = IF d = Host /\ OpensOn(d) = 1 THEN Arm(waiter) ELSE WaiterAfterDrop(d)
  BY DEF OpenFresh
<1>2. OpensOn(d) \in {1, 2} /\ (OpensOn(d) = 1 => ~ Thin(d))  BY DEF OpensOn
<1>3. Empty \in Docs /\ Empty.messages = {}  BY EmptyFacts
<1>4. CASE OpensOn(d) = 1
  <2>1. PICK a \in Docs : /\ handle' = [handle EXCEPT ![d] = Legacy(a)]
                          /\ disk[d] # {} => a = Stored(d).doc
    BY <1>3, <1>4, StoredFacts DEF OpenFresh, Load
  <2>2. UNCHANGED stores  BY <1>4 DEF OpenFresh, Load
  <2>3. Legacy(a).queue = Empty  BY DEF Legacy, NoHandle
  <2>4. PICK h : h = Legacy(a)  OBVIOUS
  <2>5. /\ h \in Handles /\ h.open /\ ~ h.retired /\ h.run = {} /\ h.roomGen = OpensOn(d)
        /\ h.doc = a /\ h.queue.messages = {}
    BY <1>3, <1>4, <2>3, <2>4, LegacyFacts
  <2>6. /\ handle' = [handle EXCEPT ![d] = h] /\ h.queue.messages \subseteq h.doc.messages
        /\ disk[d] # {} => h.doc = Stored(d).doc /\ h.roomGen = 1
    BY <1>4, <2>1, <2>4, <2>5
  <2> QED  BY <1>0, <1>1, <2>2, <2>5, <2>6 DEF stores
<1>5. CASE OpensOn(d) = 2 /\ Thin(d)
  <2>1. disk[d] # {} /\ Stored(d) \in Snapshots  BY <1>5, StoredFacts DEF Thin
  <2>2. PICK x : x = Stored(d) /\ x.doc \in Docs /\ x.cursor \in BOOLEAN  BY <2>1 DEF Snapshots
  <2>3. handle' = [handle EXCEPT ![d] = OnChat2(x.doc, x.cursor)] /\ UNCHANGED stores
    BY <1>5, <2>2 DEF OpenFresh, Load
  <2>4. PICK h : h = OnChat2(x.doc, x.cursor)  OBVIOUS
  <2>5. /\ h \in Handles /\ h.open /\ ~ h.retired /\ h.run = {} /\ h.roomGen = OpensOn(d)
        /\ h.doc = x.doc /\ h.queue.messages \subseteq h.doc.messages
    BY <1>5, <2>2, <2>4, OnChat2Facts
  <2>6. /\ handle' = [handle EXCEPT ![d] = h]
        /\ disk[d] # {} => h.doc = Stored(d).doc /\ Thin(d)
    BY <1>5, <2>2, <2>3, <2>4, <2>5
  <2> QED  BY <1>0, <1>1, <2>3, <2>5, <2>6 DEF stores
<1>6. CASE OpensOn(d) = 2 /\ ~ Thin(d) /\ disk[d] = {}
  <2>0. [doc |-> Empty, epoch |-> 2, cursor |-> FALSE] \in Snapshots  BY <1>3 DEF Snapshots
  <2>1. PICK x \in Snapshots : x = [doc |-> Empty, epoch |-> 2, cursor |-> FALSE]  BY <2>0
  <2>2. Born(d)  BY <1>6 DEF OpenFresh
  <2>3. handle' = [handle EXCEPT ![d] = OnChat2(Empty, FALSE)]  BY <2>2 DEF Born
  <2>7. disk' = [disk EXCEPT ![d] = {x}] /\ UNCHANGED rollback  BY <2>1, <2>2 DEF Born
  <2>4. PICK h : h = OnChat2(Empty, FALSE)  OBVIOUS
  <2>5. /\ h \in Handles /\ h.open /\ ~ h.retired /\ h.run = {} /\ h.roomGen = OpensOn(d)
        /\ h.doc = Empty /\ h.queue.messages \subseteq h.doc.messages
    BY <1>3, <1>6, <2>4, OnChat2Facts
  <2>6. /\ handle' = [handle EXCEPT ![d] = h]
        /\ disk[d] # {} => FALSE
    BY <1>6, <2>3, <2>4, <2>5
  <2> QED  BY <1>0, <1>1, <1>6, <2>1, <2>5, <2>6, <2>7
<1>7. CASE OpensOn(d) = 2 /\ ~ Thin(d) /\ disk[d] # {}
  <2>0. Requeued(d) \in Docs /\ Requeued(d).messages = {}  BY <1>7, RequeuedFacts
  <2>1. PICK a \in Docs : a = Requeued(d) /\ a.messages = {}  BY <2>0
  <2>7. Adopt(d)  BY <1>7 DEF OpenFresh
  <2>8. PICK q : q = IF rollback[d] = {} THEN {Stored(d).doc} ELSE rollback[d]  OBVIOUS
  <2>9. q \subseteq Docs  BY <1>0, <1>7, <2>8, StoredFacts
  <2>2. rollback' = [rollback EXCEPT ![d] = q]  BY <2>7, <2>8 DEF Adopt
  <2>3. handle' = [handle EXCEPT ![d] = OnChat2(a, FALSE)] /\ UNCHANGED disk
    BY <2>1, <2>7 DEF Adopt
  <2>4. PICK h : h = OnChat2(a, FALSE)  OBVIOUS
  <2>5. /\ h \in Handles /\ h.open /\ ~ h.retired /\ h.run = {} /\ h.roomGen = OpensOn(d)
        /\ h.doc = a /\ h.queue.messages \subseteq h.doc.messages
    BY <1>7, <2>1, <2>4, OnChat2Facts
  <2>6. /\ handle' = [handle EXCEPT ![d] = h]
        /\ disk[d] # {} => h.doc.messages = {} /\ h.roomGen = 2 /\ ~ Thin(d)
    BY <1>7, <2>1, <2>3, <2>4, <2>5
  <2> QED  BY <1>0, <1>1, <2>2, <2>3, <2>5, <2>6, <2>9
<1> QED  BY <1>2, <1>4, <1>5, <1>6, <1>7


-----------------------------------------------------------------------------
(* What each action of a device does to it *)

\* Handle h becomes g, whose document has the messages M too, and its queue at most Q.
Grown(h, g, M, Q) ==
  /\ g \in Handles /\ g.open = h.open /\ g.roomGen = h.roomGen /\ g.retired = h.retired
  /\ g.doc.messages = h.doc.messages \cup M
  /\ g.queue.messages \subseteq h.queue.messages \cup Q

SnapshotOf(x, doc, epoch) == x \in Snapshots /\ x.doc = doc /\ x.epoch = epoch

LEMMA TypeParts ==
  ASSUME CutoverTypeOK, NEW d \in Devices
  PROVE  /\ handle[d] \in Handles /\ handle[d].doc \in Docs /\ handle[d].queue \in Docs
         /\ handle[d].run \subseteq Commands /\ handle[d].roomGen \in {0, 1, 2}
         /\ s2 \in Docs /\ rows \in Docs /\ checkpoint \subseteq Docs
BY HandleParts DEF CutoverTypeOK

LEMMA SnapshotFacts ==
  ASSUME NEW doc \in Docs, NEW cursor \in BOOLEAN
  PROVE  SnapshotOf([doc |-> doc, epoch |-> 2, cursor |-> cursor], doc, 2)
BY DEF SnapshotOf, Snapshots

LEMMA ChangeEffect ==
  ASSUME CutoverTypeOK, NEW d \in Devices, NEW a \in Docs
  PROVE  \E g : /\ g = Changed(d, a) /\ Grown(handle[d], g, a.messages, a.messages)
                /\ g.run = handle[d].run /\ g.joined = handle[d].joined
BY TypeParts, ChangedFacts DEF Grown

LEMMA JoinS2Effect ==
  ASSUME CutoverTypeOK, NEW d \in Devices, JoinS2(d)
  PROVE  /\ \E g : /\ handle' = [handle EXCEPT ![d] = g] /\ Grown(handle[d], g, {}, {})
                   /\ g.run = handle[d].run /\ g.doc = handle[d].doc
         /\ handle[d].roomGen = 1
         /\ s2' \in Docs /\ s2'.messages = s2.messages \cup handle[d].doc.messages
<1>1. PICK h : h = handle[d] /\ h \in Handles  BY TypeParts
<1>2. PICK g : g = [h EXCEPT !.joined = TRUE]  OBVIOUS
<1>3. handle' = [handle EXCEPT ![d] = g]  BY <1>1, <1>2 DEF JoinS2
<1>4. Grown(h, g, {}, {}) /\ g.run = h.run /\ g.doc = h.doc  BY <1>1, <1>2 DEF Grown, Handles
<1>5. s2' \in Docs /\ s2'.messages = s2.messages \cup h.doc.messages
  BY <1>1, TypeParts, MergeFacts DEF JoinS2
<1> QED  BY <1>1, <1>3, <1>4, <1>5 DEF JoinS2

LEMMA PushS2Effect ==
  ASSUME CutoverTypeOK, NEW d \in Devices, PushS2(d)
  PROVE  /\ handle[d].roomGen = 1
         /\ s2' \in Docs /\ s2'.messages = s2.messages \cup handle[d].doc.messages
BY TypeParts, MergeFacts DEF PushS2

LEMMA PullS2Effect ==
  ASSUME CutoverTypeOK, NEW d \in Devices, PullS2(d)
  PROVE  /\ \E g : /\ handle' = [handle EXCEPT ![d] = g]
                   /\ Grown(handle[d], g, s2.messages, {}) /\ g.run = handle[d].run
         /\ handle[d].roomGen = 1
<1>1. PICK h : h = handle[d] /\ h \in Handles /\ h.doc \in Docs  BY TypeParts
<1>2. PICK a : a = Merge(h.doc, s2)  OBVIOUS
<1>3. a \in Docs /\ a.messages = h.doc.messages \cup s2.messages
  BY <1>1, <1>2, TypeParts, MergeFacts
<1>4. PICK g : g = [h EXCEPT !.doc = a]  OBVIOUS
<1>5. handle' = [handle EXCEPT ![d] = g]  BY <1>1, <1>2, <1>4 DEF PullS2
<1>6. Grown(h, g, s2.messages, {}) /\ g.run = h.run  BY <1>1, <1>3, <1>4 DEF Grown, Handles
<1> QED  BY <1>1, <1>5, <1>6 DEF PullS2

LEMMA AppliedEffect ==
  ASSUME CutoverTypeOK, NEW d \in Devices, NEW a \in Docs, NEW cursor \in BOOLEAN,
         Applied(d, a, cursor)
  PROVE  \E g, x : /\ handle' = [handle EXCEPT ![d] = g] /\ disk' = [disk EXCEPT ![d] = {x}]
                   /\ Grown(handle[d], g, a.messages, {}) /\ g.run = handle[d].run
                   /\ SnapshotOf(x, g.doc, 2)
<1>1. PICK h : h = handle[d] /\ h \in Handles /\ h.doc \in Docs  BY TypeParts
<1>2. PICK b : b = Merge(h.doc, a)  OBVIOUS
<1>3. b \in Docs /\ b.messages = h.doc.messages \cup a.messages  BY <1>1, <1>2, MergeFacts
<1>4. PICK g, x : g = [h EXCEPT !.doc = b] /\ x = [doc |-> b, epoch |-> 2, cursor |-> cursor]
  OBVIOUS
<1>5. handle' = [handle EXCEPT ![d] = g] /\ disk' = [disk EXCEPT ![d] = {x}]
  BY <1>1, <1>2, <1>4 DEF Applied
<1>6. Grown(h, g, a.messages, {}) /\ g.run = h.run /\ g.doc = b
  BY <1>1, <1>3, <1>4 DEF Grown, Handles
<1>7. SnapshotOf(x, g.doc, 2)  BY <1>3, <1>4, <1>6, SnapshotFacts
<1> QED  BY <1>1, <1>5, <1>6, <1>7

LEMMA JoinChat2Effect ==
  ASSUME CutoverTypeOK, NEW d \in Devices, JoinChat2(d)
  PROVE  /\ \E g, x : /\ handle' = [handle EXCEPT ![d] = g]
                      /\ disk' = disk \/ disk' = [disk EXCEPT ![d] = {x}]
                      /\ Grown(handle[d], g, rows.messages, {}) /\ g.run = handle[d].run
                      /\ SnapshotOf(x, g.doc, 2)
         /\ handle[d].roomGen = 2
<1>1. PICK h : h = handle[d] /\ h \in Handles /\ h.doc \in Docs  BY TypeParts
<1>2. PICK b : b = Merge(h.doc, rows)  OBVIOUS
<1>3. b \in Docs /\ b.messages = h.doc.messages \cup rows.messages
  BY <1>1, <1>2, TypeParts, MergeFacts
<1>4. PICK g, x : /\ g = [h EXCEPT !.joined = TRUE, !.doc = b]
                  /\ x = [doc |-> b, epoch |-> 2, cursor |-> TRUE]
  OBVIOUS
<1>5. handle' = [handle EXCEPT ![d] = g]  BY <1>1, <1>2, <1>4 DEF JoinChat2
<1>6. disk' = disk \/ disk' = [disk EXCEPT ![d] = {x}]  BY <1>1, <1>2, <1>4 DEF JoinChat2
<1>7. Grown(h, g, rows.messages, {}) /\ g.run = h.run /\ g.doc = b
  BY <1>1, <1>3, <1>4 DEF Grown, Handles
<1>8. SnapshotOf(x, g.doc, 2)  BY <1>3, <1>4, <1>7, SnapshotFacts
<1> QED  BY <1>1, <1>5, <1>6, <1>7, <1>8 DEF JoinChat2

LEMMA PushChat2Effect ==
  ASSUME CutoverTypeOK, NEW d \in Devices, PushChat2(d)
  PROVE  /\ \E g, x : /\ handle' = [handle EXCEPT ![d] = g] /\ disk' = [disk EXCEPT ![d] = {x}]
                      /\ Grown(handle[d], g, {}, {}) /\ g.run = handle[d].run
                      /\ SnapshotOf(x, g.doc, 2)
         /\ handle[d].roomGen = 2
         /\ rows' \in Docs /\ rows'.messages = rows.messages \cup handle[d].queue.messages
<1>1. PICK h : h = handle[d] /\ h \in Handles /\ h.doc \in Docs /\ h.queue \in Docs  BY TypeParts
<1>2. PICK e : e = Empty /\ e \in Docs /\ e.messages = {}  BY EmptyFacts
<1>4. PICK g, x : /\ g = [h EXCEPT !.owes = FALSE, !.queue = e]
                  /\ x = [doc |-> h.doc, epoch |-> 2, cursor |-> TRUE]
  OBVIOUS
<1>5. handle' = [handle EXCEPT ![d] = g] /\ disk' = [disk EXCEPT ![d] = {x}]
  BY <1>1, <1>2, <1>4 DEF PushChat2
<1>6. Grown(h, g, {}, {}) /\ g.run = h.run /\ g.doc = h.doc
  BY <1>1, <1>2, <1>4 DEF Grown, Handles
<1>7. SnapshotOf(x, g.doc, 2)  BY <1>1, <1>4, <1>6, SnapshotFacts
<1>8. rows' \in Docs /\ rows'.messages = rows.messages \cup h.queue.messages
  BY <1>1, TypeParts, MergeFacts DEF PushChat2
<1> QED  BY <1>1, <1>5, <1>6, <1>7, <1>8 DEF PushChat2

LEMMA FetchCheckpointEffect ==
  ASSUME CutoverTypeOK, NEW d \in Devices, FetchCheckpoint(d)
  PROVE  /\ \E g, x, k : /\ handle' = [handle EXCEPT ![d] = g] /\ disk' = [disk EXCEPT ![d] = {x}]
                         /\ k \in checkpoint /\ Grown(handle[d], g, k.messages, {})
                         /\ g.run = handle[d].run /\ SnapshotOf(x, g.doc, 2)
         /\ handle[d].roomGen = 2
<1>1. PICK k \in checkpoint : Applied(d, k, FALSE)  BY DEF FetchCheckpoint, Lacking
<1>2. k \in Docs  BY TypeParts
<1>3. \E g, x : /\ handle' = [handle EXCEPT ![d] = g] /\ disk' = [disk EXCEPT ![d] = {x}]
                /\ Grown(handle[d], g, k.messages, {}) /\ g.run = handle[d].run
                /\ SnapshotOf(x, g.doc, 2)
  BY <1>1, <1>2, AppliedEffect
<1> QED  BY <1>3 DEF FetchCheckpoint

LEMMA PullChat2Effect ==
  ASSUME CutoverTypeOK, NEW d \in Devices, PullChat2(d)
  PROVE  /\ \E g, x : /\ handle' = [handle EXCEPT ![d] = g] /\ disk' = [disk EXCEPT ![d] = {x}]
                      /\ Grown(handle[d], g, rows.messages, {}) /\ g.run = handle[d].run
                      /\ SnapshotOf(x, g.doc, 2)
         /\ handle[d].roomGen = 2
BY TypeParts, AppliedEffect DEF PullChat2


LEMMA IssueEffect ==
  ASSUME CutoverTypeOK, NEW c \in Commands, Issue(c)
  PROVE  LET d == IssuedBy[c] IN
         \E g : /\ handle' = [handle EXCEPT ![d] = g] /\ Grown(handle[d], g, {}, {})
                /\ g.run = handle[d].run
<1>1. PICK d \in Devices : d = IssuedBy[c]  BY HostIsADevice
<1>2. PICK a : a = [Empty EXCEPT !.commands = {c}]  OBVIOUS
<1>3. a \in Docs /\ a.messages = {}  BY <1>2, CommandsFacts
<1>4. PICK g : g = Changed(d, a) /\ Grown(handle[d], g, a.messages, a.messages) /\ g.run = handle[d].run
  BY <1>3, ChangeEffect
<1>5. handle' = [handle EXCEPT ![d] = g]  BY <1>1, <1>2, <1>4 DEF Issue
<1> QED  BY <1>1, <1>3, <1>4, <1>5

LEMMA ExecuteEffect ==
  ASSUME CutoverTypeOK, NEW c \in Commands, Execute(c)
  PROVE  /\ \E g : /\ handle' = [handle EXCEPT ![Host] = g] /\ Grown(handle[Host], g, {}, {})
                   /\ g.run = {c}
         /\ c \notin processed /\ processed' = processed \cup {c} /\ handle[Host].open
<1>1. Host \in Devices  BY HostIsADevice
<1>2. PICK a : a = [Empty EXCEPT !.done = {c}]  OBVIOUS
<1>3. a \in Docs /\ a.messages = {}  BY <1>2, CommandsFacts
<1>4. PICK h : h = Changed(Host, a) /\ Grown(handle[Host], h, a.messages, a.messages)
  BY <1>1, <1>3, ChangeEffect
<1>5. PICK g : g = [h EXCEPT !.run = {c}]  OBVIOUS
<1>6. handle' = [handle EXCEPT ![Host] = g]  BY <1>2, <1>4, <1>5 DEF Execute
<1>7. Grown(handle[Host], g, {}, {}) /\ g.run = {c}  BY <1>3, <1>4, <1>5 DEF Grown, Handles
<1> QED  BY <1>6, <1>7 DEF Execute, Owed

LEMMA FinishRunEffect ==
  ASSUME CutoverTypeOK, FinishRun
  PROVE  \E c, g :
           /\ c \in handle[Host].run /\ handle' = [handle EXCEPT ![Host] = g] /\ g.run = {}
           /\ Grown(handle[Host], g, {<<0, c>>}, {<<0, c>>})
<1>1. Host \in Devices /\ 0 \in Copies  BY HostIsADevice, ChatCutoverAssumption DEF Copies
<1>2. PICK c \in handle[Host].run :
        handle' = [handle EXCEPT ![Host] =
                     [Changed(Host, [Empty EXCEPT !.messages = {<<0, c>>}]) EXCEPT !.run = {}]]
  BY DEF FinishRun
<1>3. c \in Messages  BY <1>1, <1>2, TypeParts DEF Messages
<1>4. PICK M, a : M = {<<0, c>>} /\ a = [Empty EXCEPT !.messages = M]  OBVIOUS
<1>5. M \subseteq Copies \X Messages  BY <1>1, <1>3, <1>4
<1>10. a \in Docs /\ a.messages = {<<0, c>>}  BY <1>4, <1>5, MessagesFacts
<1>6. PICK h : h = Changed(Host, a) /\ Grown(handle[Host], h, a.messages, a.messages)
  BY <1>1, <1>10, ChangeEffect
<1>7. PICK g : g = [h EXCEPT !.run = {}]  OBVIOUS
<1>8. handle' = [handle EXCEPT ![Host] = g]  BY <1>2, <1>4, <1>6, <1>7
<1>9. Grown(handle[Host], g, {<<0, c>>}, {<<0, c>>}) /\ g.run = {}
  BY <1>6, <1>7, <1>10 DEF Grown, Handles
<1> QED  BY <1>2, <1>8, <1>9

\* The registry's row as a device reads it, and the flip of it.
LEMMA CompleteFlipEffect ==
  ASSUME CutoverTypeOK, NEW d \in Devices, CompleteFlip(d)
  PROVE  /\ \/ UNCHANGED view /\ (Thin(d) => view[d] # 1)
            \/ Thin(d) /\ view[d] = 1 /\ view' = [view EXCEPT ![d] = 2]
         /\ signal' \subseteq Devices /\ UNCHANGED rowGen
BY DEF CutoverTypeOK, CompleteFlip, SetRoomGen, registry

LEMMA SalvageEffect ==
  ASSUME CutoverTypeOK, Salvage
  PROVE  /\ \/ UNCHANGED <<handle, rollback>>
            \/ /\ view[Host] = 2 /\ Said(handle[Host].doc) = {} /\ handle[Host].open
               /\ handle' \in [Devices -> Handles] /\ rollback' \in [Devices -> SUBSET Docs]
         /\ UNCHANGED <<disk, registry, rooms, waiter, seed, processed, issued, faults>>
         /\ salvageDue' \in BOOLEAN
<1>0. /\ Host \in Devices
      /\ handle \in [Devices -> Handles] /\ rollback \in [Devices -> SUBSET Docs]
  BY HostIsADevice DEF CutoverTypeOK
<1>1. PICK fat : fat = IF rollback[Host] = {} THEN {s2} ELSE rollback[Host]  OBVIOUS
<1>2. fat \subseteq Docs  BY <1>0, <1>1, TypeParts
<1>3. ASSUME ~ UNCHANGED <<handle, rollback>>
      PROVE  /\ view[Host] = 2 /\ Said(handle[Host].doc) = {} /\ handle[Host].open
             /\ handle' \in [Devices -> Handles] /\ rollback' \in [Devices -> SUBSET Docs]
  <2>1. /\ view[Host] = 2 /\ Said(handle[Host].doc) = {} /\ handle[Host].open
        /\ \E doc \in {x \in fat : Said(x) # {}}, k \in NewCopy :
             /\ rollback' = [rollback EXCEPT ![Host] = IF @ = {} THEN {doc} ELSE @]
             /\ handle' = [handle EXCEPT ![Host] = Changed(Host,
                  [Empty EXCEPT !.messages = Rebuild(doc, k).messages])]
    BY <1>1, <1>3 DEF Salvage
  <2>2. PICK doc \in fat, k \in NewCopy :
          /\ rollback' = [rollback EXCEPT ![Host] = IF @ = {} THEN {doc} ELSE @]
          /\ handle' = [handle EXCEPT ![Host] = Changed(Host,
               [Empty EXCEPT !.messages = Rebuild(doc, k).messages])]
    BY <2>1
  <2>3. doc \in Docs /\ k \in Copies  BY <1>2, <2>2, NewCopyIsACopy
  <2>4. PICK M : M = Rebuild(doc, k).messages  OBVIOUS
  <2>5. M \subseteq Copies \X Messages  BY <2>3, <2>4, RebuildFacts, DocParts
  <2>6. PICK a : a = [Empty EXCEPT !.messages = M]  OBVIOUS
  <2>7. a \in Docs  BY <2>5, <2>6, MessagesFacts
  <2>8. PICK g : g = Changed(Host, a) /\ g \in Handles  BY <1>0, <2>7, ChangeEffect DEF Grown
  <2>9. handle' = [handle EXCEPT ![Host] = g]  BY <2>2, <2>4, <2>6, <2>8
  <2>10. rollback' \in [Devices -> SUBSET Docs]  BY <1>0, <2>2, <2>3
  <2> QED  BY <1>0, <2>1, <2>8, <2>9, <2>10
<1> QED  BY <1>3 DEF Salvage


LEMMA TypesStay ==
  ASSUME CutoverTypeOK, NEW d \in Devices, NEW g, NEW x,
         handle' = [handle EXCEPT ![d] = g], g \in Handles,
         disk' = disk \/ (disk' = [disk EXCEPT ![d] = {x}] /\ x \in Snapshots)
  PROVE  handle' \in [Devices -> Handles] /\ disk' \in [Devices -> SUBSET Snapshots]
BY DEF CutoverTypeOK

LEMMA OpenFreshTypes ==
  ASSUME CutoverTypeOK, NEW d \in Devices, OpenFresh(d)
  PROVE  /\ handle' \in [Devices -> Handles] /\ disk' \in [Devices -> SUBSET Snapshots]
         /\ rollback' \in [Devices -> SUBSET Docs] /\ waiter' \in {"none", "live", "dead"}
<1>1. PICK h \in Handles : handle' = [handle EXCEPT ![d] = h]  BY OpenFreshFacts
<1>2. handle' \in [Devices -> Handles]  BY <1>1 DEF CutoverTypeOK
<1>3. waiter' \in {"none", "live", "dead"}  BY OpenFreshFacts, WaiterFacts
<1>4. disk' \in [Devices -> SUBSET Snapshots] /\ rollback' \in [Devices -> SUBSET Docs]
  BY OpenFreshFacts
<1> QED  BY <1>2, <1>3, <1>4

LEMMA DeviceTypes ==
  ASSUME CutoverTypeOK, NEW d \in Devices, Device(d)
  PROVE  CutoverTypeOK'
<1> USE DEF stores, registry, rooms, seeding, counters
<1>0. NoHandle \in Handles  BY NoHandleFacts
<1>1. CASE Open(d)
  <2>1. OpenFresh(d) /\ CompleteFlip(d) /\ UNCHANGED <<rooms, seed, counters>>  BY <1>1 DEF Open
  <2>2. view' \in [Devices -> 0 .. 2]  BY <2>1, CompleteFlipEffect DEF CutoverTypeOK
  <2> QED  BY <2>1, <2>2, OpenFreshTypes, CompleteFlipEffect DEF CutoverTypeOK
<1>2. CASE Save(d)
  BY <1>2, SavedFacts DEF Save, CutoverTypeOK
<1>3. CASE JoinS2(d)
  <2>1. handle' \in [Devices -> Handles]  BY <1>3, JoinS2Effect DEF CutoverTypeOK, Grown
  <2> QED  BY <1>3, <2>1, JoinS2Effect DEF JoinS2, CutoverTypeOK
<1>4. CASE PushS2(d)
  BY <1>4, PushS2Effect DEF PushS2, CutoverTypeOK
<1>5. CASE PullS2(d)
  <2>1. handle' \in [Devices -> Handles]  BY <1>5, PullS2Effect DEF CutoverTypeOK, Grown
  <2> QED  BY <1>5, <2>1 DEF PullS2, CutoverTypeOK
<1>6. CASE FetchCheckpoint(d)
  <2>1. handle' \in [Devices -> Handles] /\ disk' \in [Devices -> SUBSET Snapshots]
    BY <1>6, FetchCheckpointEffect, TypesStay DEF Grown, SnapshotOf
  <2> QED  BY <1>6, <2>1 DEF FetchCheckpoint, CutoverTypeOK
<1>7. CASE JoinChat2(d)
  <2>1. handle' \in [Devices -> Handles] /\ disk' \in [Devices -> SUBSET Snapshots]
    BY <1>7, JoinChat2Effect, TypesStay DEF Grown, SnapshotOf
  <2> QED  BY <1>7, <2>1 DEF JoinChat2, CutoverTypeOK
<1>8. CASE PushChat2(d)
  <2>1. handle' \in [Devices -> Handles] /\ disk' \in [Devices -> SUBSET Snapshots]
    BY <1>8, PushChat2Effect, TypesStay DEF Grown, SnapshotOf
  <2> QED  BY <1>8, <2>1, PushChat2Effect DEF PushChat2, CutoverTypeOK
<1>9. CASE PullChat2(d)
  <2>1. handle' \in [Devices -> Handles] /\ disk' \in [Devices -> SUBSET Snapshots]
    BY <1>9, PullChat2Effect, TypesStay DEF Grown, SnapshotOf
  <2> QED  BY <1>9, <2>1 DEF PullChat2, CutoverTypeOK
<1>10. CASE PublishRow(d)
  BY <1>10 DEF PublishRow, CutoverTypeOK
<1>11. CASE LearnRow(d)
  BY <1>11 DEF LearnRow, CutoverTypeOK
<1>12. CASE CutoverWatch(d)
  <2>1. /\ handle' \in [Devices -> Handles] /\ disk' \in [Devices -> SUBSET Snapshots]
        /\ rollback' \in [Devices -> SUBSET Docs] /\ waiter' \in {"none", "live", "dead"}
    <3>1. CASE UNCHANGED <<handle, stores>> /\ waiter' \in {waiter, Arm(waiter)}
      BY <3>1, WaiterFacts DEF CutoverTypeOK
    <3>2. CASE OpenFresh(d)
      BY <3>2, OpenFreshTypes
    <3>3. CASE handle' = Dropped(d) /\ UNCHANGED <<stores, waiter>>
      BY <1>0, <3>3 DEF Dropped, CutoverTypeOK
    <3> QED  BY <1>12, <3>1, <3>2, <3>3 DEF CutoverWatch
  <2> QED  BY <1>12, <2>1 DEF CutoverWatch, CutoverTypeOK
<1>13. CASE Evict(d)
  <2>1. faults' \in 0 .. MaxFaults
    BY <1>13, ChatCutoverAssumption DEF Evict, Strikes, Fault, CutoverTypeOK
  <2>2. handle' \in [Devices -> Handles]  BY <1>0, <1>13 DEF Evict, Dropped, CutoverTypeOK
  <2> QED  BY <1>13, <2>1, <2>2, SavedFacts, WaiterFacts DEF Evict, CutoverTypeOK
<1>14. CASE Crash(d)
  <2>1. faults' \in 0 .. MaxFaults
    BY <1>14, ChatCutoverAssumption DEF Crash, Strikes, Fault, CutoverTypeOK
  <2>2. handle' \in [Devices -> Handles]  BY <1>0, <1>14 DEF Crash, Dropped, CutoverTypeOK
  <2>3. view' \in [Devices -> 0 .. 2]  BY <1>14 DEF Crash, CutoverTypeOK
  <2>4. seed' \in {seed, NoSeed} /\ waiter' \in {waiter, "none"} /\ salvageDue' \in {salvageDue, TRUE}
    BY <1>14 DEF Crash
  <2>5. NoSeed \in [stage : Stages, doc : Docs, thin : Docs]  BY EmptyFacts DEF NoSeed, Stages
  <2>6. /\ signal' \subseteq signal
        /\ UNCHANGED <<disk, rollback, rowGen, s2, checkpoint, rows, processed, issued>>
    BY <1>14 DEF Crash
  <2> QED  BY <2>1, <2>2, <2>3, <2>4, <2>5, <2>6 DEF CutoverTypeOK
<1> QED
  BY <1>1, <1>2, <1>3, <1>4, <1>5, <1>6, <1>7, <1>8, <1>9, <1>10, <1>11, <1>12, <1>13, <1>14
  DEF Device


\* A rebuild of the document in the host's handle, in a seed that begins.
LEMMA StartSeedEffect ==
  ASSUME CutoverTypeOK, StartSeed
  PROVE  \/ UNCHANGED seed
         \/ /\ seed.stage = "none" /\ waiter = "live"
            /\ \E t \in Copies, doc \in Docs :
                 /\ doc = handle[Host].doc
                 /\ seed' = [stage |-> "posting", doc |-> doc, thin |-> Rebuild(doc, t)]
<1>1. handle[Host].doc \in Docs  BY HostIsADevice, TypeParts
<1>2. ASSUME ~ UNCHANGED seed
      PROVE  /\ seed.stage = "none" /\ waiter = "live"
             /\ \E t \in Copies, doc \in Docs :
                  /\ doc = handle[Host].doc
                  /\ seed' = [stage |-> "posting", doc |-> doc, thin |-> Rebuild(doc, t)]
  BY <1>1, <1>2, NewCopyIsACopy DEF StartSeed
<1> QED  BY <1>2

LEMMA SeedTypes ==
  ASSUME CutoverTypeOK
  PROVE  /\ seed.stage \in Stages /\ seed.doc \in Docs /\ seed.thin \in Docs
         /\ NoSeed \in [stage : Stages, doc : Docs, thin : Docs]
         /\ \A s \in Stages : [seed EXCEPT !.stage = s] \in [stage : Stages, doc : Docs, thin : Docs]
<1>1. PICK e : e = Empty /\ e \in Docs  BY EmptyFacts
<1>2. NoSeed \in [stage : Stages, doc : Docs, thin : Docs]  BY <1>1 DEF NoSeed, Stages
<1> QED  BY <1>2 DEF CutoverTypeOK

LEMMA StoreThinEffect ==
  ASSUME CutoverTypeOK, StoreThin
  PROVE  /\ \E x : disk' = [disk EXCEPT ![Host] = {x}] /\ SnapshotOf(x, seed.thin, 2)
         /\ rollback' \in [Devices -> SUBSET Docs]
<1>1. Host \in Devices /\ seed.thin \in Docs  BY HostIsADevice, SeedTypes
<1>2. PICK x : x = [doc |-> seed.thin, epoch |-> 2, cursor |-> FALSE]  OBVIOUS
<1>3. disk' = [disk EXCEPT ![Host] = {x}]  BY <1>2 DEF StoreThin
<1>4. SnapshotOf(x, seed.thin, 2)  BY <1>1, <1>2, SnapshotFacts
<1>5. PICK q : q = IF rollback[Host] = {} THEN {y.doc : y \in disk[Host]} ELSE rollback[Host]
  OBVIOUS
<1>6. q \subseteq Docs  BY <1>1, <1>5 DEF CutoverTypeOK, Snapshots
<1>7. rollback' = [rollback EXCEPT ![Host] = q]  BY <1>5 DEF StoreThin
<1>8. rollback' \in [Devices -> SUBSET Docs]  BY <1>1, <1>6, <1>7 DEF CutoverTypeOK
<1> QED  BY <1>3, <1>4, <1>8

\* Retirement changes the host's handle in place or drops it.
LEMMA RetireEffect ==
  ASSUME CutoverTypeOK, Retire
  PROVE  /\ \E g \in Handles : /\ handle' = [handle EXCEPT ![Host] = g]
                               /\ handle[Host].run = {} \/ ~ handle[Host].open => g = NoHandle
         /\ \/ waiter' = waiter /\ handle[Host].run # {}
            \/ waiter' = WaiterAfterDrop(Host)
<1>1. PICK h : h = handle[Host] /\ h \in Handles  BY HostIsADevice, TypeParts
<1>2. PICK r : r = [h EXCEPT !.retired = TRUE]  OBVIOUS
<1>3. r \in Handles  BY <1>1, <1>2 DEF Handles
<1>4. CASE h.open /\ h.run # {}
  <2>1. handle' = [handle EXCEPT ![Host] = r] /\ UNCHANGED waiter  BY <1>1, <1>2, <1>4 DEF Retire
  <2> QED  BY <1>1, <1>3, <1>4, <2>1
<1>5. CASE ~ (h.open /\ h.run # {})
  <2>1. handle' = [handle EXCEPT ![Host] = NoHandle] /\ waiter' = WaiterAfterDrop(Host)
    BY <1>1, <1>5 DEF Retire, Dropped
  <2> QED  BY <1>1, <1>5, <2>1, NoHandleFacts
<1> QED  BY <1>4, <1>5

\* Every step keeps the types, for every device and whatever faults come.
LEMMA NextTypes ==
  ASSUME CutoverTypeOK, [Next]_vars
  PROVE  CutoverTypeOK'
<1> USE DEF stores, registry, rooms, seeding, counters
<1>0. Host \in Devices  BY HostIsADevice
<1>1. CASE UNCHANGED vars
  BY <1>1 DEF vars, CutoverTypeOK
<1>2. ASSUME NEW d \in Devices, Device(d) PROVE CutoverTypeOK'
  BY <1>2, DeviceTypes
<1>3. ASSUME NEW c \in Commands, Issue(c) PROVE CutoverTypeOK'
  <2>1. handle' \in [Devices -> Handles]
    BY <1>3, IssueEffect, HostIsADevice DEF CutoverTypeOK, Grown
  <2> QED  BY <1>3, <2>1 DEF Issue, CutoverTypeOK
<1>4. ASSUME NEW c \in Commands, Execute(c) PROVE CutoverTypeOK'
  <2>1. handle' \in [Devices -> Handles]  BY <1>0, <1>4, ExecuteEffect DEF CutoverTypeOK, Grown
  <2> QED  BY <1>4, <2>1 DEF Execute, CutoverTypeOK
<1>5. CASE FinishRun
  <2>1. handle' \in [Devices -> Handles]  BY <1>0, <1>5, FinishRunEffect DEF CutoverTypeOK, Grown
  <2> QED  BY <1>5, <2>1 DEF FinishRun, CutoverTypeOK
<1>6. CASE Sweep
  <2>1. CASE ~ handle[Host].open
    <3>1. OpenFresh(Host) /\ CompleteFlip(Host) /\ UNCHANGED <<rooms, seed, counters>>
      BY <1>6, <2>1 DEF Sweep
    <3>2. view' \in [Devices -> 0 .. 2]  BY <1>0, <3>1, CompleteFlipEffect DEF CutoverTypeOK
    <3> QED  BY <1>0, <3>1, <3>2, OpenFreshTypes, CompleteFlipEffect DEF CutoverTypeOK
  <2>2. CASE handle[Host].open
    BY <1>0, <1>6, <2>2, WaiterFacts DEF Sweep, CutoverTypeOK
  <2> QED  BY <2>1, <2>2
<1>7. CASE GiveUpWaiting
  BY <1>7 DEF GiveUpWaiting, CutoverTypeOK
<1>8. CASE StartSeed
  <2>1. seed' \in [stage : Stages, doc : Docs, thin : Docs]
    <3>1. CASE UNCHANGED seed  BY <3>1 DEF CutoverTypeOK
    <3>2. CASE ~ UNCHANGED seed
      <4>1. PICK t \in Copies, doc \in Docs :
              seed' = [stage |-> "posting", doc |-> doc, thin |-> Rebuild(doc, t)]
        BY <1>8, <3>2, StartSeedEffect
      <4>2. Rebuild(doc, t) \in Docs  BY RebuildFacts
      <4> QED  BY <4>1, <4>2 DEF Stages
    <3> QED  BY <3>1, <3>2
  <2> QED  BY <1>8, <2>1 DEF StartSeed, CutoverTypeOK
<1>9. CASE PostCheckpoint
  <2>1. seed' \in [stage : Stages, doc : Docs, thin : Docs] /\ checkpoint' \subseteq Docs
    BY <1>9, SeedTypes DEF PostCheckpoint, Stages
  <2> QED  BY <1>9, <2>1 DEF PostCheckpoint, CutoverTypeOK
<1>10. CASE PostFails
  <2>1. /\ seed' \in [stage : Stages, doc : Docs, thin : Docs] /\ checkpoint' \subseteq Docs
        /\ faults' \in 0 .. MaxFaults
    BY <1>10, SeedTypes, ChatCutoverAssumption DEF PostFails, Fault, CutoverTypeOK
  <2> QED  BY <1>10, <2>1 DEF PostFails, CutoverTypeOK
<1>11. CASE Salvage
  BY <1>11, SalvageEffect DEF CutoverTypeOK
<1>12. CASE Seal
  <2>1. seed' \in [stage : Stages, doc : Docs, thin : Docs]  BY <1>12, SeedTypes DEF Seal, Stages
  <2> QED  BY <1>12, <2>1 DEF Seal, CutoverTypeOK
<1>13. CASE StoreThin
  <2>1. seed' \in [stage : Stages, doc : Docs, thin : Docs]
    BY <1>13, SeedTypes DEF StoreThin, Stages
  <2>2. disk' \in [Devices -> SUBSET Snapshots]
    BY <1>0, <1>13, StoreThinEffect DEF SnapshotOf, CutoverTypeOK
  <2> QED  BY <1>13, <2>1, <2>2, StoreThinEffect DEF StoreThin, CutoverTypeOK
<1>14. CASE Flip
  <2>1. seed' \in [stage : Stages, doc : Docs, thin : Docs]  BY <1>14, SeedTypes DEF Flip, Stages
  <2> QED  BY <1>0, <1>14, <2>1 DEF Flip, SetRoomGen, CutoverTypeOK
<1>15. CASE Retire
  <2>1. handle' \in [Devices -> Handles] /\ waiter' \in {"none", "live", "dead"}
    BY <1>0, <1>15, RetireEffect, WaiterFacts DEF CutoverTypeOK
  <2>2. seed' \in [stage : Stages, doc : Docs, thin : Docs]  BY <1>15, SeedTypes DEF Retire
  <2> QED  BY <1>15, <2>1, <2>2 DEF Retire, CutoverTypeOK
<1> QED
  BY <1>1, <1>2, <1>3, <1>4, <1>5, <1>6, <1>7, <1>8, <1>9, <1>10, <1>11, <1>12, <1>13, <1>14,
     <1>15
  DEF Next, FinishSeed

LEMMA InitTypes == Init => CutoverTypeOK
<1> SUFFICES ASSUME Init PROVE CutoverTypeOK  OBVIOUS
<1> USE DEF Init
<1>1. PICK e, f : e = Empty /\ f = Fat /\ e \in Docs /\ f \in Docs  BY EmptyFacts, FatFacts
<1>2. handle \in [Devices -> Handles]  BY NoHandleFacts
<1>3. [doc |-> f, epoch |-> 0, cursor |-> FALSE] \in Snapshots  BY <1>1 DEF Snapshots
<1>4. disk \in [Devices -> SUBSET Snapshots]  BY <1>1, <1>3
<1>5. NoSeed \in [stage : Stages, doc : Docs, thin : Docs]  BY <1>1 DEF NoSeed, Stages
<1>6. faults \in 0 .. MaxFaults  BY ChatCutoverAssumption
<1>7. /\ view \in [Devices -> 0 .. 2] /\ signal \subseteq Devices /\ rowGen \in 1 .. 2
      /\ rollback \in [Devices -> SUBSET Docs]
  OBVIOUS
<1>8. s2 \in Docs /\ checkpoint \subseteq Docs /\ rows \in Docs  BY <1>1
<1>9. /\ waiter \in {"none", "live", "dead"} /\ seed \in [stage : Stages, doc : Docs, thin : Docs]
      /\ processed \subseteq Commands /\ issued \subseteq Commands /\ salvageDue \in BOOLEAN
  BY <1>5
<1> HIDE DEF Init
<1> QED  BY <1>2, <1>4, <1>6, <1>7, <1>8, <1>9 DEF CutoverTypeOK

\* Whatever opens, rooms, the seed and the faults do, handles, stored documents, the
\* rooms and the registry keep their types: for every set of devices and every fault.
THEOREM CutoverIsTyped == Spec => []CutoverTypeOK
<1>1. Init => CutoverTypeOK  BY InitTypes
<1>2. CutoverTypeOK /\ [Next]_vars => CutoverTypeOK'  BY NextTypes
<1> QED  BY <1>1, <1>2, PTL DEF Spec


-----------------------------------------------------------------------------
(* What the invariant says *)

LEMMA SaidSame ==
  ASSUME NEW a, NEW b, a.messages = b.messages
  PROVE  Said(a) = Said(b)
BY DEF Said

LEMMA SaidGrows ==
  ASSUME NEW a, NEW b, a.messages \subseteq b.messages
  PROVE  Said(a) \subseteq Said(b)
BY DEF Said

\* Nothing of the old side, or of one rebuild and the runs after it, is there twice.
LEMMA OldIsSingle ==
  ASSUME NEW doc, doc.messages \subseteq Old
  PROVE  OneCopyEach(doc)
BY DEF OneCopyEach, Old

LEMMA NewSideIsSingle ==
  ASSUME NEW k, checkpoint = {k}, OneTag(k), NEW doc, doc.messages \subseteq NewSide
  PROVE  OneCopyEach(doc)
<1>1. PICK t \in Copies : k.messages \subseteq {t} \X Messages  BY DEF OneTag
<1>2. doc.messages \subseteq k.messages \cup ({0} \X (Commands \ Said(k)))  BY DEF NewSide
<1>3. \A m \in k.messages : m[2] \in Said(k) /\ m = <<t, m[2]>>  BY <1>1 DEF Said
<1>4. \A m \in doc.messages :
        \/ m = <<t, m[2]>> /\ m[2] \in Said(k)
        \/ m = <<0, m[2]>> /\ m[2] \notin Said(k)
  BY <1>2, <1>3
<1> QED  BY <1>4 DEF OneCopyEach

LEMMA ShapeParts ==
  ASSUME Shapes, NEW d \in Devices
  PROVE  /\ CutoverTypeOK
         /\ disk[d] = {Stored(d)} /\ Stored(d) \in Snapshots /\ Stored(d).doc \in Docs
         /\ Stored(d).epoch \in {0, 2} /\ (Thin(d) <=> Stored(d).epoch = 2)
         /\ view[d] \in {1, 2} /\ ~ handle[d].retired
         /\ (handle[d].open <=> handle[d].roomGen # 0)
<1>1. Stored(d) \in Snapshots /\ disk[d] = {Stored(d)}  BY DEF Shapes, Kept
<1>2. Stored(d).doc \in Docs /\ Stored(d).epoch \in {0, 2}  BY <1>1 DEF Snapshots
<1> QED  BY <1>1, <1>2 DEF Shapes, Thin

\* A reader that knows of the flip, or a registry that has it, is after the move.
LEMMA FlippedIsMoved ==
  ASSUME Ordinary, MoveInv
  PROVE  /\ rowGen \in {1, 2} /\ (rowGen = 2 => Moved)
         /\ \A d \in Devices : view[d] = 2 => Moved
<1>1. rowGen \in {1, 2}  BY DEF MoveInv, Shapes, CutoverTypeOK
<1>2. rowGen = 2 => Moved  BY DEF MoveInv, BeforeTheMove
<1>3. ASSUME NEW d \in Devices, view[d] = 2 PROVE Moved
  <2>1. CASE d = Host  BY <1>3, <2>1 DEF MoveInv, BeforeTheMove
  <2>2. CASE d # Host
    <3>1. d \in Readers  BY <2>2, HostIsADevice DEF Ordinary
    <3> QED  BY <1>1, <1>2, <1>3, <3>1 DEF MoveInv, ReadersFollow
  <2> QED  BY <2>1, <2>2
<1> QED  BY <1>1, <1>2, <1>3

LEMMA MovedParts ==
  ASSUME MoveInv, Moved
  PROVE  \E k \in checkpoint :
           /\ checkpoint = {k} /\ OneTag(k)
           /\ Attended => Said(s2) \subseteq Said(k)
           /\ Said(k) \subseteq {Before} \cup processed
BY DEF MoveInv, AfterTheMove, OldSide

\* The host's document, on whichever side it is, has what was there before.
LEMMA HostHasMessages ==
  ASSUME MoveInv, handle[Host].open
  PROVE  Said(handle[Host].doc) # {}
<1>1. PICK h : h = handle[Host]  OBVIOUS
<1>2. h.roomGen \in {1, 2}  BY <1>1, HostIsADevice, ShapeParts, TypeParts DEF MoveInv
<1>3. CASE h.roomGen = 1
  <2>1. <<0, Before>> \in h.doc.messages  BY <1>1, <1>3 DEF MoveInv, OldSide
  <2> QED  BY <1>1, <2>1 DEF Said
<1>4. CASE h.roomGen = 2
  <2>1. Before \in Said(h.doc)  BY <1>1, <1>4 DEF MoveInv, BeforeTheMove, AfterTheMove
  <2> QED  BY <1>1, <2>1
<1> QED  BY <1>2, <1>3, <1>4

LEMMA MoveImpliesSingle == Ordinary /\ MoveInv => NoDuplicates
<1> SUFFICES ASSUME Ordinary, MoveInv PROVE NoDuplicates  OBVIOUS
<1>0. Shapes /\ s2.messages \subseteq Old  BY DEF MoveInv, OldSide
<1>1. ASSUME NEW doc, Moved, doc.messages \subseteq NewSide PROVE OneCopyEach(doc)
  BY <1>1, MovedParts, NewSideIsSingle
<1>2. ASSUME NEW d \in Devices
      PROVE  OneCopyEach(handle[d].doc) /\ \A x \in disk[d] : OneCopyEach(x.doc)
  <2>0. PICK h, x : h = handle[d] /\ x = Stored(d)  OBVIOUS
  <2>1. h.roomGen \in {0, 1, 2} /\ disk[d] = {x} /\ x.epoch \in {0, 2}
    BY <1>0, <2>0, ShapeParts, TypeParts
  <2>2. h.roomGen = 0 => h.doc.messages = {}  BY <1>0, <2>0 DEF Shapes
  <2>3. OneCopyEach(h.doc)
    <3>1. h.doc.messages = {} => OneCopyEach(h.doc)  BY DEF OneCopyEach
    <3>2. CASE d = Host
      BY <1>1, <2>0, <2>1, <2>2, <3>1, <3>2, OldIsSingle
      DEF MoveInv, OldSide, BeforeTheMove, AfterTheMove
    <3>3. CASE d # Host
      <4>1. d \in Readers  BY <3>3, HostIsADevice DEF Ordinary
      <4>2. ReaderOn(h, x, view[d], s2.messages, NewSide)  BY <2>0, <4>1 DEF MoveInv, ReadersFollow
      <4>3. h.roomGen = 1 => h.doc.messages \subseteq Old  BY <1>0, <4>2 DEF ReaderOn
      <4>4. h.roomGen = 2 => Moved /\ h.doc.messages \subseteq NewSide
        BY <4>2, FlippedIsMoved DEF ReaderOn
      <4> QED  BY <1>1, <2>1, <2>2, <3>1, <4>3, <4>4, OldIsSingle
    <3> QED  BY <3>2, <3>3
  <2>4. OneCopyEach(x.doc)
    <3>1. CASE d = Host
      <4>1. \/ x.doc.messages \subseteq Old
            \/ Moved /\ x.doc.messages \subseteq NewSide
        BY <2>0, <3>1 DEF MoveInv, BeforeTheMove, AfterTheMove
      <4> QED  BY <1>1, <4>1, OldIsSingle
    <3>2. CASE d # Host
      <4>1. d \in Readers  BY <3>2, HostIsADevice DEF Ordinary
      <4>2. ReaderOn(h, x, view[d], s2.messages, NewSide)  BY <2>0, <4>1 DEF MoveInv, ReadersFollow
      <4>3. \/ x.doc.messages \subseteq Old
            \/ Moved /\ x.doc.messages \subseteq NewSide
        BY <1>0, <4>2, FlippedIsMoved DEF ReaderOn
      <4> QED  BY <1>1, <4>3, OldIsSingle
    <3> QED  BY <3>1, <3>2
  <2> QED  BY <2>0, <2>1, <2>3, <2>4
<1>3. ASSUME NEW k \in checkpoint PROVE OneCopyEach(Merge(k, rows))
  <2>1. PICK m : m = Merge(k, rows) /\ m.messages = k.messages \cup rows.messages
    BY <1>0, HostIsADevice, ShapeParts, TypeParts, MergeFacts
  <2>2. CASE Moved
    <3>1. k.messages \subseteq NewSide  BY DEF NewSide
    <3>2. rows.messages \subseteq NewSide  BY <2>2 DEF MoveInv, AfterTheMove
    <3> QED  BY <1>1, <2>1, <2>2, <3>1, <3>2
  <2>3. CASE ~ Moved
    <3>1. m.messages = k.messages  BY <2>1, <2>3 DEF MoveInv, BeforeTheMove
    <3>2. PICK t \in Copies : k.messages \subseteq {t} \X Messages
      BY DEF MoveInv, OldSide, OneTag
    <3>3. \A n \in m.messages : n = <<t, n[2]>>  BY <3>1, <3>2
    <3> QED  BY <2>1, <3>3 DEF OneCopyEach
  <2> QED  BY <2>2, <2>3
<1> QED  BY <1>2, <1>3 DEF NoDuplicates

LEMMA MoveImpliesKept == Attended /\ MoveInv => HistoryIsKept
<1> SUFFICES ASSUME Attended, MoveInv, Thin(Host) PROVE HistoryIsKept  BY DEF HistoryIsKept
<1>1. Moved  BY HostIsADevice, ShapeParts DEF MoveInv, Moved
<1>2. PICK k \in checkpoint : Said(s2) \subseteq Said(k)  BY <1>1, MovedParts
<1>3. Said(k) \subseteq UNION {Said(j) : j \in checkpoint}  OBVIOUS
<1> QED  BY <1>2, <1>3 DEF HistoryIsKept


-----------------------------------------------------------------------------
(* What a step leaves alone *)

\* One device's handle, stored document and row change at most.
LEMMA ShapesStay ==
  ASSUME Shapes, CutoverTypeOK', NEW d \in Devices, NEW g, NEW x \in Snapshots, NEW v \in {1, 2},
         handle' = [handle EXCEPT ![d] = g], ~ g.retired, g.open <=> g.roomGen # 0,
         g.roomGen = 0 => g.doc.messages = {},
         disk' = [disk EXCEPT ![d] = {x}], view' = [view EXCEPT ![d] = v]
  PROVE  /\ Shapes' /\ Stored(d)' = x
         /\ \A e \in Devices : e # d => Stored(e)' = Stored(e)
<1>0. disk \in [Devices -> SUBSET Snapshots] /\ handle \in [Devices -> Handles] /\ view \in [Devices -> 0 .. 2]
  BY DEF Shapes, CutoverTypeOK
<1>1. disk'[d] = {x} /\ handle'[d] = g /\ view'[d] = v  BY <1>0
<1>2. Stored(d)' = x  BY <1>1 DEF Stored
<1>3. ASSUME NEW e \in Devices, e # d
      PROVE  /\ Stored(e)' = Stored(e) /\ disk'[e] = disk[e]
             /\ handle'[e] = handle[e] /\ view'[e] = view[e]
  BY <1>0, <1>3 DEF Stored
<1>4. ASSUME NEW e \in Devices
      PROVE  /\ Kept(e)' /\ view'[e] \in {1, 2}
             /\ ~ handle'[e].retired /\ (handle'[e].open <=> handle'[e].roomGen # 0)
             /\ handle'[e].roomGen = 0 => handle'[e].doc.messages = {}
  <2>1. CASE e = d  BY <1>1, <1>2, <2>1 DEF Kept
  <2>2. CASE e # d
    <3>1. Kept(e) /\ view[e] \in {1, 2}  BY DEF Shapes
    <3>2. Kept(e)'  BY <1>3, <2>2, <3>1 DEF Kept
    <3> QED  BY <1>3, <2>2, <3>1, <3>2 DEF Shapes
  <2> QED  BY <2>1, <2>2
<1> QED  BY <1>2, <1>3, <1>4 DEF Shapes

\* A device of which only some changes is a special case.
LEMMA Unchanged ==
  ASSUME Shapes, NEW d \in Devices
  PROVE  /\ handle = [handle EXCEPT ![d] = handle[d]] /\ view = [view EXCEPT ![d] = view[d]]
         /\ disk = [disk EXCEPT ![d] = {Stored(d)}]
<1>1. disk[d] = {Stored(d)}  BY ShapeParts
<1> QED  BY <1>1 DEF Shapes, CutoverTypeOK

\* Readers stay where they are when others change the rooms.
LEMMA ReadersStay ==
  ASSUME Ordinary, MoveInv, rowGen' \in {1, 2}, rowGen <= rowGen', s2.messages \subseteq s2'.messages,
         NewSide' = NewSide \/ rowGen = 1,
         \A e \in Readers : /\ handle'[e] = handle[e] /\ Stored(e)' = Stored(e)
                            /\ view'[e] = view[e]
  PROVE  ReadersFollow'
<1>1. SUFFICES ASSUME NEW e \in Readers
               PROVE  view[e] <= rowGen' /\ ReaderOn(handle[e], Stored(e), view[e], s2'.messages, NewSide')
  BY DEF ReadersFollow
<1>2. PICK h, x, v, S, N : /\ h = handle[e] /\ x = Stored(e) /\ v = view[e]
                           /\ S = s2.messages /\ N = NewSide
  OBVIOUS
<1>3. v \in {1, 2} /\ rowGen \in {1, 2} /\ v <= rowGen /\ ReaderOn(h, x, v, S, N)
  BY <1>1, <1>2, HostIsADevice, ShapeParts, FlippedIsMoved DEF MoveInv, ReadersFollow
<1>4. v <= rowGen'  BY <1>3
<1>5. NewSide' = N \/ v = 1  BY <1>2, <1>3
<1>6. ReaderOn(h, x, v, s2'.messages, NewSide')  BY <1>2, <1>3, <1>5 DEF ReaderOn
<1> QED  BY <1>2, <1>4, <1>6

\* The host stays where it is when a reader takes a step.
LEMMA HostStays ==
  ASSUME MoveInv, handle'[Host] = handle[Host], Stored(Host)' = Stored(Host), view'[Host] = view[Host],
         UNCHANGED <<rowGen, checkpoint, seed, waiter, processed>>,
         s2'.messages = s2.messages,
         rows'.messages = rows.messages \/ (Moved /\ rows'.messages \subseteq NewSide)
  PROVE  BeforeTheMove' /\ AfterTheMove' /\ OldSide' /\ SeedHolds'
<1>1. Moved' = Moved /\ Old' = Old  BY DEF Moved, Old
<1>2. NewSide' = NewSide  BY DEF NewSide, Said
<1>3. Said(s2)' = Said(s2)  BY DEF Said
<1>4. BeforeTheMove'  BY <1>1 DEF MoveInv, BeforeTheMove
<1>5. AfterTheMove'
  <2>1. SUFFICES ASSUME Moved PROVE AfterTheMove'  BY <1>1 DEF AfterTheMove
  <2>2. rows'.messages \subseteq NewSide'  BY <1>2, <2>1 DEF MoveInv, AfterTheMove
  <2>3. \E k \in checkpoint' : /\ checkpoint' = {k}
                               /\ Attended => Said(s2)' \subseteq Said(k)
                               /\ Said(k) \subseteq {Before} \cup processed'
    BY <1>3, <2>1, MovedParts
  <2> QED  BY <1>2, <2>1, <2>2, <2>3 DEF MoveInv, AfterTheMove, Said
<1>6. OldSide'  BY <1>1 DEF MoveInv, OldSide, OneTag
<1>7. SeedHolds'  BY <1>1 DEF MoveInv, SeedHolds, OneTag, Said
<1> QED  BY <1>4, <1>5, <1>6, <1>7

\* The rooms, the host and its seed as a reader's step leaves them.
OthersStay ==
  /\ UNCHANGED <<rowGen, checkpoint, seed, waiter, processed>>
  /\ s2'.messages = s2.messages
  /\ rows'.messages = rows.messages \/ (Moved /\ rows'.messages \subseteq NewSide)

\* A reader's step: to handle g, stored document x and view v.
ReaderTo(d, g, x, v) ==
  /\ handle' = [handle EXCEPT ![d] = g] /\ ~ g.retired /\ (g.open <=> g.roomGen # 0)
  /\ g.roomGen = 0 => g.doc.messages = {}
  /\ disk' = [disk EXCEPT ![d] = {x}] /\ x \in Snapshots
  /\ view' = [view EXCEPT ![d] = v] /\ v \in {1, 2} /\ v <= rowGen
  /\ ReaderOn(g, x, v, s2.messages, NewSide)

LEMMA ReaderStep ==
  ASSUME Ordinary, MoveInv, CutoverTypeOK', NEW d \in Readers, NEW g, NEW x, NEW v,
         ReaderTo(d, g, x, v), OthersStay
  PROVE  MoveInv'
<1>0. /\ d \in Devices /\ Host \in Devices /\ d # Host /\ Readers \subseteq Devices /\ Shapes
      /\ handle \in [Devices -> Handles] /\ view \in [Devices -> 0 .. 2]
  BY HostIsADevice DEF MoveInv, Shapes, CutoverTypeOK
<1>00. x \in Snapshots /\ v \in {1, 2}  BY DEF ReaderTo
<1>1. /\ Shapes' /\ Stored(d)' = x
      /\ \A e \in Devices : e # d => Stored(e)' = Stored(e)
  BY <1>0, <1>00, ShapesStay DEF ReaderTo
<1>2. /\ handle'[d] = g /\ view'[d] = v
      /\ \A e \in Devices : e # d => handle'[e] = handle[e] /\ view'[e] = view[e]
  BY <1>0 DEF ReaderTo
<1>3. BeforeTheMove' /\ AfterTheMove' /\ OldSide' /\ SeedHolds'  BY <1>0, <1>1, <1>2, HostStays DEF OthersStay
<1>4. NewSide' = NewSide  BY DEF NewSide, Said, OthersStay
<1>5. ReadersFollow'
  <2>1. ASSUME NEW e \in Readers
        PROVE  /\ view'[e] <= rowGen'
               /\ ReaderOn(handle'[e], Stored(e)', view'[e], s2'.messages, NewSide')
    <3>1. CASE e = d  BY <1>1, <1>2, <1>4, <3>1 DEF ReaderTo, OthersStay
    <3>2. CASE e # d
      BY <1>0, <1>1, <1>2, <1>4, <2>1, <3>2 DEF MoveInv, ReadersFollow, OthersStay
    <3> QED  BY <3>1, <3>2
  <2> QED  BY <2>1 DEF ReadersFollow
<1> QED  BY <1>1, <1>3, <1>5 DEF MoveInv


\* A reader's handle grows by what its side has.
Growth(d, g, x, M, Q) ==
  /\ handle' = [handle EXCEPT ![d] = g] /\ Grown(handle[d], g, M, Q) /\ g.run = handle[d].run
  /\ handle[d].roomGen # 0 /\ UNCHANGED view
  /\ handle[d].roomGen = 1 => M \subseteq s2.messages
  /\ handle[d].roomGen = 2 => M \subseteq NewSide /\ Q \subseteq NewSide
  /\ \/ UNCHANGED disk
     \/ disk' = [disk EXCEPT ![d] = {x}] /\ SnapshotOf(x, g.doc, 2) /\ handle[d].roomGen = 2

LEMMA ReaderGrows ==
  ASSUME Ordinary, MoveInv, CutoverTypeOK', NEW d \in Readers, NEW g, NEW x, NEW M, NEW Q,
         Growth(d, g, x, M, Q), OthersStay
  PROVE  MoveInv'
<1> USE DEF Growth
<1>0. d \in Devices /\ Shapes  BY HostIsADevice DEF MoveInv
<1>1. PICK h, y, v, S, N : /\ h = handle[d] /\ y = Stored(d) /\ v = view[d]
                           /\ S = s2.messages /\ N = NewSide
  OBVIOUS
<1>2. /\ v \in {1, 2} /\ v <= rowGen /\ ReaderOn(h, y, v, S, N) /\ y \in Snapshots
      /\ ~ h.retired /\ (h.open <=> h.roomGen # 0)
  BY <1>0, <1>1, ShapeParts DEF MoveInv, ReadersFollow
<1>3. ~ g.retired /\ (g.open <=> g.roomGen # 0) /\ g.roomGen = h.roomGen /\ g.roomGen # 0
  BY <1>1, <1>2 DEF Grown
<1>4. /\ h.roomGen = 1 => g.doc.messages \subseteq S
      /\ h.roomGen = 2 => v = 2 /\ g.doc.messages \subseteq N /\ g.queue.messages \subseteq N
  BY <1>1, <1>2 DEF Grown, ReaderOn
<1>5. PICK z : /\ disk' = [disk EXCEPT ![d] = {z}]
               /\ z = y \/ (SnapshotOf(z, g.doc, 2) /\ h.roomGen = 2)
  BY <1>0, <1>1, Unchanged
<1>6. z \in Snapshots  BY <1>2, <1>5 DEF SnapshotOf
<1>7. ReaderOn(g, z, v, S, N)
  <2>0. g.run = {}  BY <1>1, <1>2 DEF ReaderOn
  <2>1. CASE z = y  BY <1>2, <1>3, <1>4, <2>0, <2>1 DEF ReaderOn
  <2>2. CASE SnapshotOf(z, g.doc, 2) /\ h.roomGen = 2
    BY <1>3, <1>4, <2>0, <2>2 DEF ReaderOn, SnapshotOf
  <2> QED  BY <1>5, <2>1, <2>2
<1>8. view' = [view EXCEPT ![d] = v]  BY <1>0, <1>1, Unchanged
<1>9. ReaderTo(d, g, z, v)  BY <1>1, <1>2, <1>3, <1>5, <1>6, <1>7, <1>8 DEF ReaderTo
<1> QED  BY <1>9, ReaderStep

\* A reader's handle is dropped: by an eviction, a crash, or the watcher.
LEMMA ReaderDrops ==
  ASSUME Ordinary, MoveInv, CutoverTypeOK', NEW d \in Readers, handle' = Dropped(d),
         \/ UNCHANGED disk
         \/ handle[d].open /\ disk' = Saved(d),
         UNCHANGED <<view, rowGen, checkpoint, seed, waiter, processed, s2, rows>>
  PROVE  MoveInv'
<1>0. d \in Devices /\ Shapes /\ NoHandle.doc.messages = {}
  BY HostIsADevice, EmptyFacts DEF MoveInv, NoHandle
<1>1. PICK h, y, v, S, N : /\ h = handle[d] /\ y = Stored(d) /\ v = view[d]
                           /\ S = s2.messages /\ N = NewSide
  OBVIOUS
<1>2. /\ v \in {1, 2} /\ v <= rowGen /\ ReaderOn(h, y, v, S, N) /\ y \in Snapshots
      /\ ~ h.retired /\ (h.open <=> h.roomGen # 0) /\ CutoverTypeOK /\ disk[d] # {}
      /\ h.roomGen \in {0, 1, 2}
  BY <1>0, <1>1, ShapeParts, TypeParts DEF MoveInv, ReadersFollow
<1>3. PICK z : /\ disk' = [disk EXCEPT ![d] = {z}] /\ z \in Snapshots
               /\ z = y \/ (h.open /\ z.doc = h.doc /\ z.epoch = y.epoch)
  BY <1>0, <1>1, <1>2, Unchanged, SavedFacts
<1>4. ReaderOn(NoHandle, z, v, S, N)
  BY <1>2, <1>3, NoHandleFacts DEF ReaderOn
<1>5. view' = [view EXCEPT ![d] = v] /\ handle' = [handle EXCEPT ![d] = NoHandle]
  BY <1>0, <1>1, Unchanged DEF Dropped
<1>6. ReaderTo(d, NoHandle, z, v)
  BY <1>0, <1>1, <1>2, <1>3, <1>4, <1>5, NoHandleFacts DEF ReaderTo
<1> QED  BY <1>6, ReaderStep DEF OthersStay

\* A reader opens the chat on the side its row and its stored document are on.
LEMMA ReaderOpens ==
  ASSUME Ordinary, MoveInv, CutoverTypeOK', NEW d \in Readers, OpenFresh(d),
         UNCHANGED <<view, rowGen, checkpoint, seed, waiter, processed, s2, rows>>
  PROVE  MoveInv'
<1>0. d \in Devices /\ Shapes  BY HostIsADevice DEF MoveInv
<1>1. PICK y, v, S, N : y = Stored(d) /\ v = view[d] /\ S = s2.messages /\ N = NewSide  OBVIOUS
<1>2. /\ v \in {1, 2} /\ v <= rowGen /\ ReaderOn(handle[d], y, v, S, N) /\ y \in Snapshots
      /\ CutoverTypeOK /\ disk[d] # {} /\ (Thin(d) <=> y.epoch = 2)
  BY <1>0, <1>1, ShapeParts DEF MoveInv, ReadersFollow
<1>3. PICK g \in Handles :
        /\ handle' = [handle EXCEPT ![d] = g]
        /\ g.open /\ ~ g.retired /\ g.run = {} /\ g.roomGen = OpensOn(d)
        /\ g.queue.messages \subseteq g.doc.messages
        /\ \/ g.doc = y.doc /\ (g.roomGen = 1 \/ Thin(d))
           \/ g.doc.messages = {} /\ g.roomGen = 2 /\ ~ Thin(d)
  BY <1>0, <1>1, <1>2, OpenFreshFacts
<1>4. disk' = disk  BY <1>0, <1>2, OpenFreshFacts
<1>5. g.roomGen = IF v = 1 /\ y.epoch # 2 THEN 1 ELSE 2  BY <1>1, <1>2, <1>3 DEF OpensOn
<1>6. ReaderOn(g, y, v, S, N)  BY <1>2, <1>3, <1>5 DEF ReaderOn
<1>7. view' = [view EXCEPT ![d] = v] /\ disk' = [disk EXCEPT ![d] = {y}]
  BY <1>0, <1>1, <1>4, Unchanged
<1>8. g.open <=> g.roomGen # 0  BY <1>3, <1>5
<1>9. g.roomGen # 0  BY <1>5
<1>10. ReaderTo(d, g, y, v)  BY <1>1, <1>2, <1>3, <1>6, <1>7, <1>8, <1>9 DEF ReaderTo
<1> QED  BY <1>10, ReaderStep DEF OthersStay


\* Whatever a reader does next.
LEMMA ReaderMoves ==
  ASSUME Ordinary, MoveInv, CutoverTypeOK', NEW d \in Readers, Device(d)
  PROVE  MoveInv'
<1> USE DEF stores, registry, rooms, seeding, counters
<1>0. /\ d \in Devices /\ d # Host /\ Shapes /\ CutoverTypeOK /\ handle[d] \in Handles
      /\ handle \in [Devices -> Handles]
  BY HostIsADevice, ShapeParts, TypeParts DEF MoveInv, Shapes, CutoverTypeOK
<1>1. PICK h, y, v, S, N : /\ h = handle[d] /\ y = Stored(d) /\ v = view[d]
                           /\ S = s2.messages /\ N = NewSide
  OBVIOUS
<1>2. /\ v \in {1, 2} /\ v <= rowGen /\ rowGen \in {1, 2} /\ ReaderOn(h, y, v, S, N) /\ y \in Snapshots
      /\ ~ h.retired /\ (h.open <=> h.roomGen # 0) /\ disk[d] # {} /\ (Thin(d) <=> y.epoch = 2)
      /\ (h.roomGen = 0 => h.doc.messages = {})
  BY <1>0, <1>1, ShapeParts, FlippedIsMoved DEF MoveInv, ReadersFollow, Shapes
<1>3. v = 2 => Moved /\ rows.messages \subseteq N /\ \A k \in checkpoint : k.messages \subseteq N
  <2>1. SUFFICES ASSUME v = 2 PROVE Moved /\ rows.messages \subseteq N
    <3>1. \A k \in checkpoint : k.messages \subseteq N  BY <1>1 DEF NewSide
    <3> QED  BY <3>1
  <2>2. Moved  BY <1>0, <1>1, <2>1, FlippedIsMoved
  <2> QED  BY <1>1, <2>2 DEF MoveInv, AfterTheMove
<1>4. h.roomGen = 1 => h.doc.messages \subseteq S  BY <1>2 DEF ReaderOn
<1>5. h.roomGen = 2 => v = 2 /\ h.queue.messages \subseteq N  BY <1>2 DEF ReaderOn
<1>6. CASE Open(d)
  <2>1. UNCHANGED <<view, rowGen>>
    <3>1. ~ (Thin(d) /\ view[d] = 1)  BY <1>1, <1>2 DEF ReaderOn
    <3> QED  BY <1>0, <1>6, <3>1, CompleteFlipEffect DEF Open
  <2>2. UNCHANGED waiter  BY <1>0, <1>6, WaiterFacts DEF Open, OpenFresh
  <2>3. UNCHANGED <<s2, rows, checkpoint, seed, processed>> /\ OpenFresh(d)  BY <1>6 DEF Open
  <2> QED  BY <2>1, <2>2, <2>3, ReaderOpens
<1>7. CASE Save(d)
  <2>1. PICK z \in Snapshots : disk' = [disk EXCEPT ![d] = {z}] /\ z.doc = h.doc /\ z.epoch = y.epoch
    BY <1>0, <1>1, <1>2, <1>7, SavedFacts DEF Save
  <2>2. h.roomGen \in {1, 2}  BY <1>0, <1>1, <1>2, <1>7, TypeParts DEF Save
  <2>3. ReaderOn(h, z, v, S, N)  BY <1>2, <2>1, <2>2 DEF ReaderOn
  <2>4. handle' = [handle EXCEPT ![d] = h] /\ view' = [view EXCEPT ![d] = v]
    BY <1>0, <1>1, <1>7, Unchanged DEF Save
  <2>5. UNCHANGED <<s2, rows, rowGen, checkpoint, seed, waiter, processed>>  BY <1>7 DEF Save
  <2>6. ReaderTo(d, h, z, v)  BY <1>1, <1>2, <2>1, <2>3, <2>4, <2>5 DEF ReaderTo
  <2> QED  BY <2>5, <2>6, ReaderStep DEF OthersStay
<1>8. CASE JoinS2(d)
  <2>1. PICK g : /\ handle' = [handle EXCEPT ![d] = g] /\ Grown(handle[d], g, {}, {})
                 /\ g.run = handle[d].run
    BY <1>0, <1>8, JoinS2Effect
  <2>2. h.roomGen = 1 /\ s2'.messages = s2.messages  BY <1>0, <1>1, <1>4, <1>8, JoinS2Effect
  <2>3. UNCHANGED <<disk, rows, view, rowGen, checkpoint, seed, waiter, processed>>  BY <1>8 DEF JoinS2
  <2>4. Growth(d, g, y, {}, {})  BY <1>1, <2>1, <2>2, <2>3 DEF Growth
  <2>5. OthersStay  BY <2>2, <2>3 DEF OthersStay
  <2> QED  BY <2>4, <2>5, ReaderGrows
<1>9. CASE PushS2(d)
  <2>1. h.roomGen = 1 /\ s2'.messages = s2.messages  BY <1>0, <1>1, <1>4, <1>9, PushS2Effect
  <2>2. Grown(handle[d], h, {}, {}) /\ handle' = [handle EXCEPT ![d] = h]
    BY <1>0, <1>1, <1>9, Unchanged DEF PushS2, Grown
  <2>3. UNCHANGED <<disk, rows, view, rowGen, checkpoint, seed, waiter, processed>>  BY <1>9 DEF PushS2
  <2>4. Growth(d, h, y, {}, {})  BY <1>1, <2>1, <2>2, <2>3 DEF Growth
  <2>5. OthersStay  BY <2>1, <2>3 DEF OthersStay
  <2> QED  BY <2>4, <2>5, ReaderGrows
<1>10. CASE PullS2(d)
  <2>1. PICK g : /\ handle' = [handle EXCEPT ![d] = g] /\ Grown(handle[d], g, s2.messages, {})
                 /\ g.run = handle[d].run
    BY <1>0, <1>10, PullS2Effect
  <2>2. h.roomGen = 1  BY <1>0, <1>1, <1>10, PullS2Effect
  <2>3. UNCHANGED <<disk, s2, rows, view, rowGen, checkpoint, seed, waiter, processed>>
    BY <1>10 DEF PullS2
  <2>4. Growth(d, g, y, s2.messages, {})  BY <1>1, <2>1, <2>2, <2>3 DEF Growth
  <2>5. OthersStay  BY <2>2, <2>3 DEF OthersStay
  <2> QED  BY <2>4, <2>5, ReaderGrows
<1>11. CASE FetchCheckpoint(d)
  <2>1. PICK g, x, k : /\ handle' = [handle EXCEPT ![d] = g] /\ disk' = [disk EXCEPT ![d] = {x}]
                       /\ k \in checkpoint /\ Grown(handle[d], g, k.messages, {})
                       /\ g.run = handle[d].run /\ SnapshotOf(x, g.doc, 2)
    BY <1>0, <1>11, FetchCheckpointEffect
  <2>2. h.roomGen = 2 /\ k.messages \subseteq NewSide
    BY <1>1, <1>3, <1>5, <1>11, <2>1 DEF FetchCheckpoint
  <2>3. UNCHANGED <<s2, rows, view, rowGen, checkpoint, seed, waiter, processed>>
    BY <1>11 DEF FetchCheckpoint
  <2>4. Growth(d, g, x, k.messages, {})  BY <1>1, <2>1, <2>2, <2>3 DEF Growth
  <2>5. OthersStay  BY <2>2, <2>3 DEF OthersStay
  <2> QED  BY <2>4, <2>5, ReaderGrows
<1>12. CASE JoinChat2(d)
  <2>1. PICK g, x : /\ handle' = [handle EXCEPT ![d] = g]
                    /\ disk' = disk \/ disk' = [disk EXCEPT ![d] = {x}]
                    /\ Grown(handle[d], g, rows.messages, {}) /\ g.run = handle[d].run
                    /\ SnapshotOf(x, g.doc, 2)
    BY <1>0, <1>12, JoinChat2Effect
  <2>2. h.roomGen = 2 /\ rows.messages \subseteq NewSide  BY <1>1, <1>3, <1>5, <1>12 DEF JoinChat2
  <2>3. UNCHANGED <<s2, rows, view, rowGen, checkpoint, seed, waiter, processed>>
    BY <1>12 DEF JoinChat2
  <2>4. Growth(d, g, x, rows.messages, {})  BY <1>1, <2>1, <2>2, <2>3 DEF Growth
  <2>5. OthersStay  BY <2>2, <2>3 DEF OthersStay
  <2> QED  BY <2>4, <2>5, ReaderGrows
<1>13. CASE PushChat2(d)
  <2>1. PICK g, x : /\ handle' = [handle EXCEPT ![d] = g] /\ disk' = [disk EXCEPT ![d] = {x}]
                    /\ Grown(handle[d], g, {}, {}) /\ g.run = handle[d].run
                    /\ SnapshotOf(x, g.doc, 2)
    BY <1>0, <1>13, PushChat2Effect
  <2>2. h.roomGen = 2 /\ rows'.messages = rows.messages \cup h.queue.messages
    BY <1>0, <1>1, <1>13, PushChat2Effect
  <2>3. Moved /\ rows'.messages \subseteq NewSide  BY <1>1, <1>3, <1>5, <2>2
  <2>4. UNCHANGED <<s2, view, rowGen, checkpoint, seed, waiter, processed>>  BY <1>13 DEF PushChat2
  <2>5. Growth(d, g, x, {}, {})  BY <1>1, <2>1, <2>2, <2>4 DEF Growth
  <2>6. OthersStay  BY <2>3, <2>4 DEF OthersStay
  <2> QED  BY <2>5, <2>6, ReaderGrows
<1>14. CASE PullChat2(d)
  <2>1. PICK g, x : /\ handle' = [handle EXCEPT ![d] = g] /\ disk' = [disk EXCEPT ![d] = {x}]
                    /\ Grown(handle[d], g, rows.messages, {}) /\ g.run = handle[d].run
                    /\ SnapshotOf(x, g.doc, 2)
    BY <1>0, <1>14, PullChat2Effect
  <2>2. h.roomGen = 2 /\ rows.messages \subseteq NewSide  BY <1>1, <1>3, <1>5, <1>14 DEF PullChat2
  <2>3. UNCHANGED <<s2, rows, view, rowGen, checkpoint, seed, waiter, processed>>
    BY <1>14 DEF PullChat2
  <2>4. Growth(d, g, x, rows.messages, {})  BY <1>1, <2>1, <2>2, <2>3 DEF Growth
  <2>5. OthersStay  BY <2>2, <2>3 DEF OthersStay
  <2> QED  BY <2>4, <2>5, ReaderGrows
<1>15. CASE PublishRow(d)
  BY <1>1, <1>2, <1>15 DEF PublishRow
<1>16. CASE LearnRow(d)
  <2>0. v < rowGen /\ view' = [view EXCEPT ![d] = rowGen]  BY <1>1, <1>16 DEF LearnRow
  <2>9. v = 1 /\ rowGen = 2  BY <1>2, <2>0
  <2>1. v = 1 /\ rowGen = 2 /\ view' = [view EXCEPT ![d] = 2]  BY <2>0, <2>9
  <2>2. handle' = [handle EXCEPT ![d] = h] /\ disk' = [disk EXCEPT ![d] = {y}]
    BY <1>0, <1>1, <1>16, Unchanged DEF LearnRow
  <2>3. ReaderOn(h, y, 2, S, N)  BY <1>2, <2>1 DEF ReaderOn
  <2>4. UNCHANGED <<s2, rows, rowGen, checkpoint, seed, waiter, processed>>  BY <1>16 DEF LearnRow
  <2>5. ReaderTo(d, h, y, 2)  BY <1>1, <1>2, <2>1, <2>2, <2>3, <2>4 DEF ReaderTo
  <2> QED  BY <2>4, <2>5, ReaderStep DEF OthersStay
<1>17. CASE CutoverWatch(d)
  <2>0. UNCHANGED <<s2, rows, view, rowGen, checkpoint, seed, processed>>  BY <1>17 DEF CutoverWatch
  <2>1. CASE UNCHANGED <<handle, stores, waiter>>
    <3>1. /\ handle' = [handle EXCEPT ![d] = h] /\ view' = [view EXCEPT ![d] = v]
          /\ disk' = [disk EXCEPT ![d] = {y}]
      BY <1>0, <1>1, <2>0, <2>1, Unchanged
    <3>2. ReaderTo(d, h, y, v)  BY <1>1, <1>2, <3>1 DEF ReaderTo
    <3> QED  BY <2>0, <2>1, <3>2, ReaderStep DEF OthersStay
  <2>2. CASE handle' = Dropped(d) /\ UNCHANGED <<stores, waiter>>
    BY <2>0, <2>2, ReaderDrops
  <2>3. h.run = {}  BY <1>2 DEF ReaderOn
  <2> QED  BY <1>0, <1>1, <1>17, <2>1, <2>2, <2>3 DEF CutoverWatch
<1>18. CASE Evict(d)
  <2>1. UNCHANGED waiter  BY <1>0, <1>18, WaiterFacts DEF Evict
  <2>2. /\ UNCHANGED <<s2, rows, view, rowGen, checkpoint, seed, processed>>
        /\ handle' = Dropped(d) /\ handle[d].open /\ disk' = Saved(d)
    BY <1>18 DEF Evict
  <2> QED  BY <2>1, <2>2, ReaderDrops
<1>19. CASE Crash(d)
  <2>1. UNCHANGED <<view, seed, waiter>>
    <3>1. PICK known \in {view[d], rowGen} : known <= view[d] /\ view' = [view EXCEPT ![d] = known]
      BY <1>19 DEF Crash
    <3>2. known = view[d]  BY <1>1, <1>2, <3>1
    <3>3. UNCHANGED view  BY <1>0, <3>1, <3>2, Unchanged
    <3> QED  BY <1>0, <1>19, <3>3 DEF Crash
  <2>2. UNCHANGED <<disk, s2, rows, rowGen, checkpoint, processed>> /\ handle' = Dropped(d)
    BY <1>19 DEF Crash
  <2> QED  BY <2>1, <2>2, ReaderDrops
<1> QED
  BY <1>6, <1>7, <1>8, <1>9, <1>10, <1>11, <1>12, <1>13, <1>14, <1>15, <1>16, <1>17, <1>18, <1>19
  DEF Device


-----------------------------------------------------------------------------
(* What the host does *)

\* The host's step: to handle g, stored document x and view v.
HostTo(g, x, v) ==
  /\ handle' = [handle EXCEPT ![Host] = g] /\ ~ g.retired /\ (g.open <=> g.roomGen # 0)
  /\ g.roomGen = 0 => g.doc.messages = {}
  /\ disk' = [disk EXCEPT ![Host] = {x}] /\ x \in Snapshots
  /\ view' = [view EXCEPT ![Host] = v] /\ v \in {1, 2}

\* The readers follow whatever the host does.
LEMMA HostStep ==
  ASSUME Ordinary, MoveInv, CutoverTypeOK', NEW g, NEW x, NEW v, HostTo(g, x, v),
         rowGen <= rowGen', s2.messages \subseteq s2'.messages, NewSide' = NewSide \/ rowGen = 1
  PROVE  /\ Shapes' /\ ReadersFollow'
         /\ Stored(Host)' = x /\ handle'[Host] = g /\ view'[Host] = v
<1>0. /\ Host \in Devices /\ Host \notin Readers /\ Readers \subseteq Devices /\ Shapes
      /\ handle \in [Devices -> Handles] /\ view \in [Devices -> 0 .. 2]
  BY HostIsADevice DEF MoveInv, Shapes, CutoverTypeOK
<1>1. x \in Snapshots /\ v \in {1, 2} /\ rowGen' \in {1, 2}  BY DEF HostTo, CutoverTypeOK
<1>2. /\ Shapes' /\ Stored(Host)' = x
      /\ \A e \in Devices : e # Host => Stored(e)' = Stored(e)
  BY <1>0, <1>1, ShapesStay DEF HostTo
<1>3. /\ handle'[Host] = g /\ view'[Host] = v
      /\ \A e \in Devices : e # Host => handle'[e] = handle[e] /\ view'[e] = view[e]
  BY <1>0 DEF HostTo
<1>4. \A e \in Readers : /\ handle'[e] = handle[e] /\ Stored(e)' = Stored(e)
                         /\ view'[e] = view[e]
  BY <1>0, <1>2, <1>3
<1>5. ReadersFollow'  BY <1>1, <1>4, ReadersStay
<1> QED  BY <1>2, <1>3, <1>5

LEMMA HostShapes ==
  ASSUME Ordinary, MoveInv
  PROVE  /\ Host \in Devices /\ Shapes /\ CutoverTypeOK /\ handle[Host] \in Handles
         /\ handle[Host].roomGen \in {0, 1, 2} /\ ~ handle[Host].retired
         /\ (handle[Host].open <=> handle[Host].roomGen # 0)
         /\ (handle[Host].roomGen = 0 => handle[Host].doc.messages = {})
         /\ Stored(Host) \in Snapshots /\ Stored(Host).epoch \in {0, 2} /\ disk[Host] # {}
         /\ (Thin(Host) <=> Moved) /\ view[Host] \in {1, 2} /\ rowGen \in {1, 2}
<1>1. Host \in Devices /\ Shapes /\ CutoverTypeOK  BY HostIsADevice DEF MoveInv, Shapes
<1>2. /\ handle[Host] \in Handles
      /\ handle[Host].roomGen \in {0, 1, 2} /\ ~ handle[Host].retired
      /\ (handle[Host].open <=> handle[Host].roomGen # 0)
      /\ (handle[Host].roomGen = 0 => handle[Host].doc.messages = {})
      /\ Stored(Host) \in Snapshots /\ Stored(Host).epoch \in {0, 2} /\ disk[Host] # {}
      /\ (Thin(Host) <=> Moved) /\ view[Host] \in {1, 2} /\ rowGen \in {1, 2}
  BY <1>1, ShapeParts, TypeParts, FlippedIsMoved DEF Shapes, Moved
<1> QED  BY <1>1, <1>2

LEMMA HostSame ==
  ASSUME Ordinary, MoveInv, UNCHANGED <<handle, disk, view>>
  PROVE  HostTo(handle[Host], Stored(Host), view[Host])
BY HostShapes, Unchanged DEF HostTo

\* The host works in its old document.
OldGrowth(g, M, Q) ==
  /\ handle' = [handle EXCEPT ![Host] = g] /\ Grown(handle[Host], g, M, Q)
  /\ handle[Host].roomGen = 1 /\ seed.stage \notin {"sealed", "stored", "flipped"}
  /\ M \subseteq Old' /\ g.run \subseteq processed' /\ processed \subseteq processed'
  /\ s2.messages \subseteq s2'.messages /\ s2'.messages \subseteq s2.messages \cup g.doc.messages
  /\ Attended /\ seed.stage # "none" => s2'.messages \subseteq g.doc.messages
  /\ UNCHANGED <<disk, view, rowGen, rows, checkpoint, seed, waiter>>

LEMMA HostGrowsOld ==
  ASSUME Ordinary, MoveInv, CutoverTypeOK', NEW g, NEW M, NEW Q, OldGrowth(g, M, Q)
  PROVE  MoveInv'
<1>1. PICK h, x, v : h = handle[Host] /\ x = Stored(Host) /\ v = view[Host]  OBVIOUS
<1>2. g.roomGen = 1 /\ ~ g.retired /\ g.open /\ g.doc.messages = h.doc.messages \cup M
  BY <1>1, HostShapes DEF OldGrowth, Grown
<1>3. HostTo(g, x, v)
  <2>1. view' = [view EXCEPT ![Host] = v] /\ disk' = [disk EXCEPT ![Host] = {x}]
    BY <1>1, HostShapes, Unchanged DEF OldGrowth
  <2>2. x \in Snapshots /\ v \in {1, 2}  BY <1>1, HostShapes
  <2>3. handle' = [handle EXCEPT ![Host] = g]  BY DEF OldGrowth
  <2>4. g.roomGen # 0 /\ ~ g.retired /\ g.open  BY <1>2
  <2> QED  BY <2>1, <2>2, <2>3, <2>4 DEF HostTo
<1>4. NewSide' = NewSide  BY DEF NewSide, Said, OldGrowth
<1>5. rowGen <= rowGen'  BY HostShapes DEF OldGrowth
<1>6. /\ Shapes' /\ ReadersFollow'
      /\ Stored(Host)' = x /\ handle'[Host] = g /\ view'[Host] = v
  BY <1>3, <1>4, <1>5, HostStep DEF OldGrowth
<1>7. ~ Moved /\ ~ Moved'
  BY <1>1, <1>6 DEF MoveInv, AfterTheMove, Moved, OldGrowth
<1>8. Old \subseteq Old'  BY DEF Old, OldGrowth
<1>9. BeforeTheMove'
  BY <1>1, <1>2, <1>6, <1>7, <1>8 DEF MoveInv, BeforeTheMove, OldGrowth
<1>10. AfterTheMove'  BY <1>7 DEF AfterTheMove
<1>11. h.doc.messages \subseteq Old /\ <<0, Before>> \in h.doc.messages /\ s2.messages \subseteq Old
  BY <1>1 DEF MoveInv, OldSide, OldGrowth
<1>12. g.doc.messages \subseteq Old' /\ <<0, Before>> \in g.doc.messages /\ s2'.messages \subseteq Old'
  BY <1>2, <1>8, <1>11 DEF OldGrowth
<1>13. OldSide'  BY <1>2, <1>6, <1>12 DEF MoveInv, OldSide, OneTag, OldGrowth
<1>14. SeedHolds'
  <2>1. SUFFICES ASSUME seed.stage # "none" PROVE SeedHolds'  BY DEF SeedHolds, OldGrowth
  <2>2. /\ OneTag(seed.thin) /\ Said(seed.thin) = Said(seed.doc)
        /\ seed.doc.messages \subseteq Old' /\ <<0, Before>> \in seed.doc.messages
        /\ seed.stage # "posting" => checkpoint = {seed.thin}
    BY <1>8, <2>1 DEF MoveInv, SeedHolds
  <2>3. seed' = seed /\ checkpoint' = checkpoint /\ seed.stage \in {"posting", "posted"}
    <3>1. seed.stage \in Stages  BY HostShapes, SeedTypes
    <3> QED  BY <2>1, <3>1 DEF OldGrowth, Stages
  <2>4. Attended => s2'.messages \subseteq g.doc.messages  BY <2>1 DEF OldGrowth
  <2> QED  BY <1>2, <1>6, <2>2, <2>3, <2>4 DEF SeedHolds, OneTag, Said
<1> QED  BY <1>6, <1>9, <1>10, <1>13, <1>14 DEF MoveInv

\* The host works in its new document.
NewGrowth(g, x, M, Q) ==
  /\ handle' = [handle EXCEPT ![Host] = g] /\ Grown(handle[Host], g, M, Q)
  /\ handle[Host].roomGen = 2 /\ M \subseteq NewSide /\ Q \subseteq NewSide
  /\ {0} \X g.run \subseteq NewSide /\ processed \subseteq processed'
  /\ UNCHANGED disk \/ (disk' = [disk EXCEPT ![Host] = {x}] /\ SnapshotOf(x, g.doc, 2))
  /\ rows'.messages \subseteq NewSide
  /\ UNCHANGED <<view, rowGen, s2, checkpoint, seed, waiter>>

LEMMA HostGrowsNew ==
  ASSUME Ordinary, MoveInv, CutoverTypeOK', NEW g, NEW x, NEW M, NEW Q, NewGrowth(g, x, M, Q)
  PROVE  MoveInv'
<1>1. PICK h, y, v, N : h = handle[Host] /\ y = Stored(Host) /\ v = view[Host] /\ N = NewSide  OBVIOUS
<1>2. Moved  BY DEF MoveInv, BeforeTheMove, NewGrowth
<1>3. /\ h.doc.messages \subseteq N /\ Before \in Said(h.doc) /\ h.queue.messages \subseteq N
      /\ y.doc.messages \subseteq N /\ Before \in Said(y.doc) /\ y.epoch = 2
  BY <1>1, <1>2 DEF MoveInv, AfterTheMove, Moved, NewGrowth
<1>4. /\ g.roomGen = 2 /\ ~ g.retired /\ g.open
      /\ g.doc.messages \subseteq N /\ Before \in Said(g.doc) /\ g.queue.messages \subseteq N
  <2>1. /\ g.roomGen = 2 /\ ~ g.retired /\ g.open
        /\ g.doc.messages = h.doc.messages \cup M /\ g.queue.messages \subseteq h.queue.messages \cup Q
    BY <1>1, HostShapes DEF NewGrowth, Grown
  <2>2. Before \in Said(g.doc)  BY <1>3, <2>1 DEF Said
  <2> QED  BY <1>1, <1>3, <2>1, <2>2 DEF NewGrowth
<1>5. PICK z : /\ disk' = [disk EXCEPT ![Host] = {z}] /\ z \in Snapshots /\ z.epoch = 2
               /\ z = y \/ z.doc = g.doc
  BY <1>1, <1>3, HostShapes, Unchanged DEF NewGrowth, SnapshotOf
<1>6. HostTo(g, z, v)
  <2>1. view' = [view EXCEPT ![Host] = v]  BY <1>1, HostShapes, Unchanged DEF NewGrowth
  <2>2. v \in {1, 2}  BY <1>1, HostShapes
  <2>3. handle' = [handle EXCEPT ![Host] = g]  BY DEF NewGrowth
  <2>4. g.roomGen # 0 /\ ~ g.retired /\ g.open  BY <1>4
  <2> QED  BY <1>5, <2>1, <2>2, <2>3, <2>4 DEF HostTo
<1>7. NewSide' = N  BY <1>1 DEF NewSide, Said, NewGrowth
<1>8. rowGen <= rowGen'  BY HostShapes DEF NewGrowth
<1>9. /\ Shapes' /\ ReadersFollow'
      /\ Stored(Host)' = z /\ handle'[Host] = g /\ view'[Host] = v
  BY <1>1, <1>6, <1>7, <1>8, HostStep DEF NewGrowth
<1>10. Moved'  BY <1>5, <1>9 DEF Moved
<1>11. seed.stage = "none"  BY DEF MoveInv, SeedHolds, NewGrowth
<1>12. z.doc.messages \subseteq N /\ Before \in Said(z.doc)  BY <1>3, <1>4, <1>5
<1>13. \E k \in checkpoint' :
         /\ checkpoint' = {k} /\ (Attended => Said(s2)' \subseteq Said(k))
         /\ Said(k) \subseteq {Before} \cup processed'
  <2>1. PICK k \in checkpoint : /\ checkpoint = {k} /\ (Attended => Said(s2) \subseteq Said(k))
                                /\ Said(k) \subseteq {Before} \cup processed
    BY <1>2, MovedParts
  <2>2. Said(s2)' = Said(s2)  BY DEF NewGrowth, Said
  <2> QED  BY <2>1, <2>2 DEF NewGrowth
<1>14. AfterTheMove'
  <2>1. seed'.stage = "none" /\ g.roomGen = 2 /\ rows'.messages \subseteq N
        /\ {0} \X g.run \subseteq N
    BY <1>1, <1>4, <1>11 DEF NewGrowth
  <2>2. Said(z.doc)' = Said(z.doc) /\ Said(g.doc)' = Said(g.doc)  OBVIOUS
  <2> QED  BY <1>4, <1>7, <1>9, <1>12, <1>13, <2>1 DEF AfterTheMove, Said
<1>15. BeforeTheMove'  BY <1>10 DEF BeforeTheMove
<1>16. Old \subseteq Old'  BY DEF Old, NewGrowth
<1>17. OldSide'  BY <1>1, <1>4, <1>9, <1>16 DEF MoveInv, OldSide, OneTag, NewGrowth
<1>18. SeedHolds'  BY <1>11 DEF SeedHolds, NewGrowth
<1> QED  BY <1>9, <1>14, <1>15, <1>17, <1>18 DEF MoveInv


\* A step of the host that leaves the rooms alone and its handle on the side it is on,
\* or closed: what has to hold of the new handle and the new store.
Rests(g, x, v) ==
  /\ HostTo(g, x, v) /\ x.epoch = Stored(Host).epoch
  /\ g = handle[Host] \/ (g.roomGen = 0 /\ g.run = {})
  /\ x = Stored(Host) \/ (x.doc = handle[Host].doc /\ handle[Host].open /\ seed.stage \notin {"stored", "flipped"})
  /\ v = view[Host] \/ v = 1 \/ Moved
  /\ \/ seed' = seed /\ (g = handle[Host] \/ seed.stage = "none" \/ ~ Attended)
     \/ seed'.stage = "none" /\ g.roomGen = 0
  /\ waiter' = "live" => g.roomGen = 1
  /\ rowGen' = rowGen \/ (Moved /\ rowGen <= rowGen')
  /\ UNCHANGED <<rooms, processed>>

LEMMA HostRests ==
  ASSUME Ordinary, MoveInv, CutoverTypeOK', NEW g, NEW x, NEW v, Rests(g, x, v)
  PROVE  MoveInv'
<1>1. PICK h, y, N : h = handle[Host] /\ y = Stored(Host) /\ N = NewSide  OBVIOUS
<1>2. NewSide' = N /\ Old' = Old /\ UNCHANGED <<s2, checkpoint, rows, processed>>
  BY <1>1 DEF NewSide, Old, Said, Rests, rooms
<1>3. rowGen <= rowGen' /\ (~ Moved => rowGen' = rowGen)  BY HostShapes DEF Rests
<1>4. /\ Shapes' /\ ReadersFollow'
      /\ Stored(Host)' = x /\ handle'[Host] = g /\ view'[Host] = v
  BY <1>1, <1>2, <1>3, HostStep DEF Rests
<1>5. Moved' <=> Moved  BY <1>4 DEF Moved, Rests
<1>6. h.open <=> h.roomGen \in {1, 2}  BY <1>1, HostShapes
<1>7. g = h \/ (g.roomGen = 0 /\ g.run = {})  BY <1>1 DEF Rests
<1>8. x = y \/ (x.doc = h.doc /\ h.roomGen \in {1, 2} /\ seed.stage \notin {"stored", "flipped"})
  BY <1>1, <1>6 DEF Rests
<1>9. \/ seed' = seed /\ (g = h \/ seed.stage = "none" \/ ~ Attended)
      \/ seed'.stage = "none" /\ g.roomGen = 0
  BY <1>1 DEF Rests
<1>10. BeforeTheMove'
  <2>1. SUFFICES ASSUME ~ Moved PROVE BeforeTheMove'  BY <1>5 DEF BeforeTheMove
  <2>2. /\ view[Host] = 1 /\ rowGen = 1 /\ rows.messages = {}
        /\ h.roomGen # 2 /\ seed.stage \notin {"stored", "flipped"}
        /\ y.doc.messages \subseteq Old /\ <<0, Before>> \in y.doc.messages
    BY <1>1, <2>1 DEF MoveInv, BeforeTheMove
  <2>3. h.roomGen = 1 => h.doc.messages \subseteq Old /\ <<0, Before>> \in h.doc.messages
    BY <1>1 DEF MoveInv, OldSide
  <2>4. x.doc.messages \subseteq Old /\ <<0, Before>> \in x.doc.messages  BY <1>8, <2>2, <2>3
  <2>5. v = 1  BY <2>1, <2>2 DEF Rests
  <2> QED  BY <1>2, <1>3, <1>4, <1>7, <1>9, <2>1, <2>2, <2>4, <2>5 DEF BeforeTheMove
<1>11. AfterTheMove'
  <2>1. SUFFICES ASSUME Moved PROVE AfterTheMove'  BY <1>5 DEF AfterTheMove
  <2>2. /\ seed.stage \in {"none", "stored", "flipped"} /\ (h.roomGen = 1 => seed.stage # "none")
        /\ rows.messages \subseteq N
        /\ y.doc.messages \subseteq N /\ Before \in Said(y.doc)
        /\ h.roomGen = 2 =>
             /\ h.doc.messages \subseteq N /\ Before \in Said(h.doc) /\ h.queue.messages \subseteq N
             /\ {0} \X h.run \subseteq N
    BY <1>1, <2>1 DEF MoveInv, AfterTheMove
  <2>3. x.doc.messages \subseteq N /\ Before \in Said(x.doc)  BY <1>8, <2>2
  <2>4. seed'.stage \in {"none", "stored", "flipped"} /\ (g.roomGen = 1 => seed'.stage # "none")
    BY <1>7, <1>9, <2>2
  <2>5. \E k \in checkpoint : /\ checkpoint = {k} /\ (Attended => Said(s2) \subseteq Said(k))
                              /\ Said(k) \subseteq {Before} \cup processed
    BY <2>1, MovedParts
  <2>6. Said(s2)' = Said(s2)  BY <1>2 DEF Said
  <2>7. g.roomGen = 2 => g = h  BY <1>7
  <2> QED  BY <1>2, <1>4, <2>2, <2>3, <2>4, <2>5, <2>6, <2>7 DEF AfterTheMove, Said
<1>12. OldSide'
  BY <1>1, <1>2, <1>4, <1>7 DEF MoveInv, OldSide, OneTag, Rests
<1>13. SeedHolds'
  <2>1. CASE seed'.stage = "none"  BY <2>1 DEF SeedHolds
  <2>2. CASE seed' = seed /\ seed.stage # "none"
    BY <1>1, <1>2, <1>4, <1>7, <1>9, <2>2 DEF MoveInv, SeedHolds, OneTag, Said
  <2> QED  BY <1>9, <2>1, <2>2
<1> QED  BY <1>4, <1>10, <1>11, <1>12, <1>13 DEF MoveInv

\* The host opens the chat on the side its stored document is on.
LEMMA HostOpens ==
  ASSUME Ordinary, MoveInv, CutoverTypeOK', ~ handle[Host].open, Undisturbed(Host),
         OpenFresh(Host), CompleteFlip(Host),
         UNCHANGED <<rooms, seed, processed>>
  PROVE  MoveInv'
<1>1. PICK y, v, N : y = Stored(Host) /\ v = view'[Host] /\ N = NewSide  OBVIOUS
<1>2. /\ seed.stage \notin {"sealed", "stored", "flipped"} /\ handle[Host].roomGen = 0
      /\ Attended \/ Moved => seed.stage = "none"
  BY HostShapes DEF Undisturbed, Ordinary, MoveInv, SeedHolds, AfterTheMove
<1>3. OpensOn(Host) = IF Moved THEN 2 ELSE 1
  BY HostShapes DEF MoveInv, BeforeTheMove, OpensOn
<1>4. PICK g \in Handles :
        /\ handle' = [handle EXCEPT ![Host] = g]
        /\ g.open /\ ~ g.retired /\ g.run = {} /\ g.roomGen = OpensOn(Host)
        /\ g.queue.messages \subseteq g.doc.messages
        /\ \/ g.doc = y.doc /\ (g.roomGen = 1 \/ Thin(Host))
           \/ g.doc.messages = {} /\ g.roomGen = 2 /\ ~ Thin(Host)
  BY <1>1, HostShapes, OpenFreshFacts
<1>5. g.doc = y.doc  BY <1>3, <1>4, HostShapes
<1>6. disk' = disk /\ (waiter' = "live" => ~ Moved)
  <2>1. disk' = disk  BY HostShapes, OpenFreshFacts
  <2>2. Moved => waiter' = WaiterAfterDrop(Host)  BY <1>3, HostShapes, OpenFreshFacts
  <2> QED  BY <2>1, <2>2, HostShapes, WaiterFacts
<1>7. /\ view' = [view EXCEPT ![Host] = v] /\ v \in {1, 2} /\ (v = view[Host] \/ Moved)
      /\ UNCHANGED rowGen
  BY <1>1, HostShapes, Unchanged, CompleteFlipEffect DEF Shapes, CutoverTypeOK
<1>8. HostTo(g, y, v)
  <2>1. disk' = [disk EXCEPT ![Host] = {y}] /\ y \in Snapshots  BY <1>1, <1>6, HostShapes, Unchanged
  <2>2. g.roomGen # 0 /\ ~ g.retired /\ g.open  BY <1>3, <1>4
  <2>3. handle' = [handle EXCEPT ![Host] = g]  BY <1>4
  <2> QED  BY <1>7, <2>1, <2>2, <2>3 DEF HostTo
<1>9. NewSide' = N /\ Old' = Old /\ UNCHANGED <<s2, checkpoint, rows, processed, seed>>
  BY <1>1 DEF NewSide, Old, Said, rooms
<1>10. rowGen <= rowGen'  BY <1>7, HostShapes
<1>11. /\ Shapes' /\ ReadersFollow'
       /\ Stored(Host)' = y /\ handle'[Host] = g /\ view'[Host] = v
  BY <1>1, <1>8, <1>9, <1>10, HostStep
<1>12. Moved' <=> Moved  BY <1>1, <1>11 DEF Moved
<1>13. BeforeTheMove'
  <2>1. SUFFICES ASSUME ~ Moved PROVE BeforeTheMove'  BY <1>12 DEF BeforeTheMove
  <2>2. g.roomGen = 1  BY <1>3, <1>4, <2>1
  <2> QED  BY <1>1, <1>2, <1>7, <1>9, <1>11, <2>1, <2>2 DEF MoveInv, BeforeTheMove
<1>14. AfterTheMove'
  <2>1. SUFFICES ASSUME Moved PROVE AfterTheMove'  BY <1>12 DEF AfterTheMove
  <2>2. g.roomGen = 2  BY <1>3, <1>4, <2>1
  <2>3. /\ rows.messages \subseteq N
        /\ y.doc.messages \subseteq N /\ Before \in Said(y.doc)
    BY <1>1, <2>1 DEF MoveInv, AfterTheMove
  <2>4. g.doc.messages \subseteq N /\ g.queue.messages \subseteq N /\ {0} \X g.run = {}
    BY <1>4, <1>5, <2>3
  <2>5. \E k \in checkpoint : /\ checkpoint = {k} /\ (Attended => Said(s2) \subseteq Said(k))
                              /\ Said(k) \subseteq {Before} \cup processed
    BY <2>1, MovedParts
  <2>6. Said(s2)' = Said(s2)  BY <1>9 DEF Said
  <2>7. seed.stage = "none"  BY <1>2, <2>1
  <2> QED  BY <1>5, <1>9, <1>11, <2>2, <2>3, <2>4, <2>5, <2>6, <2>7 DEF AfterTheMove, Said
<1>15. OldSide'
  <2>1. waiter' = "live" => g.roomGen = 1  BY <1>3, <1>4, <1>6
  <2>2. g.roomGen = 1 => g.doc.messages \subseteq Old /\ <<0, Before>> \in g.doc.messages
    BY <1>1, <1>3, <1>4, <1>5 DEF MoveInv, BeforeTheMove
  <2> QED  BY <1>4, <1>9, <1>11, <2>1, <2>2 DEF MoveInv, OldSide, OneTag
<1>16. SeedHolds'
  <2>1. SUFFICES ASSUME seed.stage # "none" PROVE SeedHolds'  BY <1>9 DEF SeedHolds
  <2>2. g.roomGen = 1  BY <1>2, <1>3, <1>4, <2>1
  <2>3. seed.stage \in {"posting", "posted"}
    <3>1. seed.stage \in Stages  BY HostShapes, SeedTypes
    <3> QED  BY <1>2, <2>1, <3>1 DEF Stages
  <2> QED  BY <1>2, <1>9, <1>11, <2>1, <2>2, <2>3 DEF MoveInv, SeedHolds, OneTag, Said
<1> QED  BY <1>11, <1>13, <1>14, <1>15, <1>16 DEF MoveInv


\* What holds when the seal has closed: the checkpoint is all that was said on the old
\* side, and so is what an open handle still holds.
LEMMA SealedFacts ==
  ASSUME MoveInv, seed.stage \in {"sealed", "stored", "flipped"}
  PROVE  /\ handle[Host].roomGen # 2 /\ handle[Host].run = {} /\ checkpoint = {seed.thin}
         /\ OneTag(seed.thin) /\ Before \in Said(seed.thin)
         /\ Said(seed.thin) \subseteq {Before} \cup processed
         /\ handle[Host].roomGen = 1 => Said(seed.thin) = Said(handle[Host].doc)
         /\ Attended => Said(s2) \subseteq Said(seed.thin)
<1>1. PICK h : h = handle[Host] /\ h.roomGen \in {0, 1, 2}  BY HostIsADevice, TypeParts DEF MoveInv, Shapes
<1>2. /\ h.roomGen # 2 /\ checkpoint = {seed.thin}
      /\ OneTag(seed.thin) /\ Said(seed.thin) = Said(seed.doc)
      /\ seed.doc.messages \subseteq Old /\ <<0, Before>> \in seed.doc.messages
      /\ h.roomGen = 1 => h.doc = seed.doc /\ h.run = {}
      /\ Attended => h.roomGen = 1 /\ s2.messages \subseteq h.doc.messages
  BY <1>1 DEF MoveInv, SeedHolds
<1>3. h.run = {}  BY <1>1, <1>2 DEF MoveInv, OldSide
<1>4. Before \in Said(seed.doc) /\ Said(seed.doc) \subseteq {Before} \cup processed
  BY <1>2 DEF Said, Old
<1>5. Attended => Said(s2) \subseteq Said(h.doc)  BY <1>2, SaidGrows
<1> QED  BY <1>1, <1>2, <1>3, <1>4, <1>5

\* A handle whose seed is sealed may still push: what it pushes is in the checkpoint.
LEMMA HostPushesS2 ==
  ASSUME Ordinary, MoveInv, CutoverTypeOK', PushS2(Host)
  PROVE  MoveInv'
<1>1. PICK h : h = handle[Host]  OBVIOUS
<1>2. h.roomGen = 1 /\ s2'.messages = s2.messages \cup h.doc.messages
  BY <1>1, HostShapes, PushS2Effect
<1>3. UNCHANGED <<handle, disk, rollback, view, signal, rowGen, checkpoint, rows, waiter, seed, processed>>
  BY DEF PushS2, stores, registry, seeding, counters
<1>4. HostTo(handle[Host], Stored(Host), view[Host])  BY <1>3, HostSame
<1>5. NewSide' = NewSide /\ Old' = Old  BY <1>3 DEF NewSide, Old, Said
<1>6. rowGen <= rowGen' /\ s2.messages \subseteq s2'.messages  BY <1>2, <1>3, HostShapes
<1>7. Shapes' /\ ReadersFollow' /\ Stored(Host)' = Stored(Host)
  BY <1>4, <1>5, <1>6, HostStep
<1>8. Moved' <=> Moved  BY <1>7 DEF Moved
<1>9. h.doc.messages \subseteq Old /\ s2'.messages \subseteq Old
  BY <1>1, <1>2 DEF MoveInv, OldSide
<1>10. BeforeTheMove'  BY <1>3, <1>5, <1>7, <1>8 DEF MoveInv, BeforeTheMove
<1>11. AfterTheMove'
  <2>1. SUFFICES ASSUME Moved PROVE AfterTheMove'  BY <1>8 DEF AfterTheMove
  <2>2. seed.stage \in {"stored", "flipped"}  BY <1>1, <1>2, <2>1 DEF MoveInv, AfterTheMove
  <2>3. /\ checkpoint = {seed.thin} /\ Said(seed.thin) = Said(h.doc)
        /\ Attended => Said(s2) \subseteq Said(seed.thin)
    BY <1>1, <1>2, <2>2, SealedFacts
  <2>4. Said(s2)' \subseteq Said(s2) \cup Said(h.doc)  BY <1>2 DEF Said
  <2>5. PICK k \in checkpoint : Said(k) \subseteq {Before} \cup processed  BY <2>1, MovedParts
  <2>6. k = seed.thin /\ (Attended => Said(s2)' \subseteq Said(k))  BY <2>3, <2>4, <2>5
  <2>7. \E j \in checkpoint' : /\ checkpoint' = {j} /\ (Attended => Said(s2)' \subseteq Said(j))
                               /\ Said(j) \subseteq {Before} \cup processed'
    BY <1>3, <2>3, <2>5, <2>6
  <2> QED  BY <1>3, <1>5, <1>7, <2>1, <2>7 DEF MoveInv, AfterTheMove, Said
<1>12. OldSide'  BY <1>3, <1>5, <1>9 DEF MoveInv, OldSide, OneTag
<1>13. SeedHolds'  BY <1>1, <1>2, <1>3, <1>5 DEF MoveInv, SeedHolds, OneTag, Said
<1> QED  BY <1>7, <1>10, <1>11, <1>12, <1>13 DEF MoveInv

\* The host's own steps, but for the seed's.
LEMMA HostMoves ==
  ASSUME Ordinary, MoveInv, CutoverTypeOK', Device(Host)
  PROVE  MoveInv'
<1> USE DEF stores, registry, seeding, counters
<1>1. PICK h, y, v, N : h = handle[Host] /\ y = Stored(Host) /\ v = view[Host] /\ N = NewSide  OBVIOUS
<1>2. /\ Host \in Devices /\ Shapes /\ CutoverTypeOK /\ h.roomGen \in {0, 1, 2} /\ ~ h.retired
      /\ (h.open <=> h.roomGen # 0) /\ disk[Host] # {} /\ rowGen \in {1, 2} /\ v \in {1, 2}
      /\ (Thin(Host) <=> Moved) /\ (h.roomGen = 0 => h.doc.messages = {})
      /\ y \in Snapshots
  BY <1>1, HostShapes
<1>3. Undisturbed(Host) => seed.stage \notin {"sealed", "stored", "flipped"}
  BY DEF Undisturbed, Ordinary
<1>4. h.roomGen = 2 =>
        /\ Moved /\ seed.stage = "none"
        /\ h.queue.messages \subseteq N /\ {0} \X h.run \subseteq N
        /\ rows.messages \subseteq N
  BY <1>1 DEF MoveInv, BeforeTheMove, AfterTheMove, SeedHolds
<1>5. \A k \in checkpoint : k.messages \subseteq N  BY <1>1 DEF NewSide
<1>6. h.roomGen = 1 => h.run \subseteq processed /\ h.doc.messages \subseteq Old
  BY <1>1 DEF MoveInv, OldSide
<1>7. /\ s2.messages \subseteq Old
      /\ Attended /\ seed.stage # "none" => s2.messages \subseteq h.doc.messages
  BY <1>1 DEF MoveInv, OldSide, SeedHolds
<1>8. waiter = "live" => h.roomGen = 1  BY <1>1 DEF MoveInv, OldSide
<1>9. h.roomGen = 1 /\ Moved => seed.stage \in {"stored", "flipped"}
  BY <1>1 DEF MoveInv, AfterTheMove
<1>10. v = 2 => Moved  BY <1>1, <1>2, FlippedIsMoved
<1>11. CASE Open(Host)
  <2>1. /\ ~ h.open \/ Stale(Host)
        /\ OpenFresh(Host) /\ CompleteFlip(Host) /\ UNCHANGED <<rooms, seed, processed>>
    BY <1>1, <1>11 DEF Open
  <2>2. ~ Stale(Host)
    <3>1. h.roomGen = 1 => ~ Moved  BY <1>3, <1>9, <1>11 DEF Open
    <3> QED  BY <1>1, <1>2, <1>10, <3>1 DEF Stale
  <2> QED  BY <1>1, <1>11, <2>1, <2>2, HostOpens DEF Open
<1>12. CASE Save(Host)
  <2>1. PICK z \in Snapshots : disk' = [disk EXCEPT ![Host] = {z}] /\ z.doc = h.doc /\ z.epoch = y.epoch
    BY <1>1, <1>2, <1>12, SavedFacts DEF Save
  <2>2. handle' = [handle EXCEPT ![Host] = h] /\ view' = [view EXCEPT ![Host] = v]
    BY <1>1, <1>2, <1>12, Unchanged DEF Save
  <2>3. HostTo(h, z, v)  BY <1>2, <2>1, <2>2 DEF HostTo
  <2>4. h.open /\ UNCHANGED <<rooms, seed, waiter, rowGen, processed>>  BY <1>1, <1>12 DEF Save
  <2>5. Rests(h, z, v)  BY <1>1, <1>3, <1>8, <1>12, <2>1, <2>3, <2>4 DEF Rests, Save
  <2> QED  BY <2>5, HostRests
<1>13. CASE JoinS2(Host)
  <2>1. PICK g : /\ handle' = [handle EXCEPT ![Host] = g] /\ Grown(handle[Host], g, {}, {})
                 /\ g.run = h.run /\ g.doc = h.doc
    BY <1>1, <1>2, <1>13, JoinS2Effect
  <2>2. h.roomGen = 1 /\ s2'.messages = s2.messages \cup h.doc.messages
    BY <1>1, <1>2, <1>13, JoinS2Effect
  <2>3. UNCHANGED <<disk, view, rowGen, rows, checkpoint, seed, waiter, processed>>
    BY <1>13 DEF JoinS2
  <2>4. OldGrowth(g, {}, {})
    BY <1>1, <1>3, <1>6, <1>7, <1>13, <2>1, <2>2, <2>3 DEF OldGrowth, JoinS2
  <2> QED  BY <2>4, HostGrowsOld
<1>14. CASE PushS2(Host)  BY <1>14, HostPushesS2
<1>15. CASE PullS2(Host)
  <2>1. PICK g : /\ handle' = [handle EXCEPT ![Host] = g]
                 /\ Grown(handle[Host], g, s2.messages, {}) /\ g.run = h.run
    BY <1>1, <1>2, <1>15, PullS2Effect
  <2>2. h.roomGen = 1  BY <1>1, <1>2, <1>15, PullS2Effect
  <2>3. UNCHANGED <<s2, disk, view, rowGen, rows, checkpoint, seed, waiter, processed>>
    BY <1>15 DEF PullS2, rooms
  <2>4. g.doc.messages = h.doc.messages \cup s2.messages /\ Old' = Old
    BY <1>1, <2>1, <2>3 DEF Grown, Old
  <2>5. OldGrowth(g, s2.messages, {})
    BY <1>1, <1>3, <1>6, <1>7, <1>15, <2>1, <2>2, <2>3, <2>4 DEF OldGrowth, PullS2
  <2> QED  BY <2>5, HostGrowsOld
<1>16. CASE FetchCheckpoint(Host)
  <2>1. PICK g, x, k : /\ handle' = [handle EXCEPT ![Host] = g] /\ disk' = [disk EXCEPT ![Host] = {x}]
                       /\ k \in checkpoint /\ Grown(handle[Host], g, k.messages, {})
                       /\ g.run = h.run /\ SnapshotOf(x, g.doc, 2)
    BY <1>1, <1>2, <1>16, FetchCheckpointEffect
  <2>2. h.roomGen = 2 /\ UNCHANGED <<s2, rows, view, rowGen, checkpoint, seed, waiter, processed>>
    BY <1>1, <1>16 DEF FetchCheckpoint, rooms
  <2>3. NewGrowth(g, x, k.messages, {})  BY <1>1, <1>4, <1>5, <2>1, <2>2 DEF NewGrowth
  <2> QED  BY <2>3, HostGrowsNew
<1>17. CASE JoinChat2(Host)
  <2>1. PICK g, x : /\ handle' = [handle EXCEPT ![Host] = g]
                    /\ disk' = disk \/ disk' = [disk EXCEPT ![Host] = {x}]
                    /\ Grown(handle[Host], g, rows.messages, {})
                    /\ g.run = h.run /\ SnapshotOf(x, g.doc, 2)
    BY <1>1, <1>2, <1>17, JoinChat2Effect
  <2>2. h.roomGen = 2 /\ UNCHANGED <<s2, rows, view, rowGen, checkpoint, seed, waiter, processed>>
    BY <1>1, <1>17 DEF JoinChat2, rooms
  <2>3. NewGrowth(g, x, rows.messages, {})  BY <1>1, <1>4, <2>1, <2>2 DEF NewGrowth
  <2> QED  BY <2>3, HostGrowsNew
<1>18. CASE PushChat2(Host)
  <2>1. PICK g, x : /\ handle' = [handle EXCEPT ![Host] = g] /\ disk' = [disk EXCEPT ![Host] = {x}]
                    /\ Grown(handle[Host], g, {}, {})
                    /\ g.run = h.run /\ SnapshotOf(x, g.doc, 2)
    BY <1>1, <1>2, <1>18, PushChat2Effect
  <2>2. h.roomGen = 2 /\ rows'.messages = rows.messages \cup h.queue.messages
    BY <1>1, <1>2, <1>18, PushChat2Effect
  <2>3. UNCHANGED <<s2, view, rowGen, checkpoint, seed, waiter, processed>>  BY <1>18 DEF PushChat2
  <2>4. NewGrowth(g, x, {}, {})  BY <1>1, <1>4, <2>1, <2>2, <2>3 DEF NewGrowth
  <2> QED  BY <2>4, HostGrowsNew
<1>19. CASE PullChat2(Host)
  <2>1. PICK g, x : /\ handle' = [handle EXCEPT ![Host] = g] /\ disk' = [disk EXCEPT ![Host] = {x}]
                    /\ Grown(handle[Host], g, rows.messages, {})
                    /\ g.run = h.run /\ SnapshotOf(x, g.doc, 2)
    BY <1>1, <1>2, <1>19, PullChat2Effect
  <2>2. h.roomGen = 2 /\ UNCHANGED <<s2, rows, view, rowGen, checkpoint, seed, waiter, processed>>
    BY <1>1, <1>19 DEF PullChat2, rooms
  <2>3. NewGrowth(g, x, rows.messages, {})  BY <1>1, <1>4, <2>1, <2>2 DEF NewGrowth
  <2> QED  BY <2>3, HostGrowsNew
<1>20. CASE PublishRow(Host)
  <2>1. UNCHANGED <<handle, disk, view, rooms, seed, waiter, processed>> /\ rowGen < v /\ rowGen' = v
    BY <1>1, <1>20 DEF PublishRow
  <2>2. Moved /\ rowGen <= rowGen'  BY <1>2, <1>10, <2>1
  <2>3. HostTo(h, y, v)  BY <1>1, <2>1, HostSame
  <2>4. Rests(h, y, v)  BY <1>1, <1>8, <2>1, <2>2, <2>3 DEF Rests
  <2> QED  BY <2>4, HostRests
<1>21. CASE LearnRow(Host)
  <2>1. /\ UNCHANGED <<handle, disk, rooms, seed, waiter, processed, rowGen>>
        /\ v < rowGen /\ view' = [view EXCEPT ![Host] = rowGen]
    BY <1>1, <1>21 DEF LearnRow
  <2>2. rowGen = 2 /\ Moved  BY <1>2, <2>1, FlippedIsMoved
  <2>3. handle' = [handle EXCEPT ![Host] = h] /\ disk' = [disk EXCEPT ![Host] = {y}]
    BY <1>1, <1>2, <2>1, Unchanged
  <2>4. HostTo(h, y, 2)  BY <1>2, <2>1, <2>2, <2>3 DEF HostTo
  <2>5. Rests(h, y, 2)  BY <1>1, <1>8, <2>1, <2>2, <2>4 DEF Rests
  <2> QED  BY <2>5, HostRests
<1>22. CASE CutoverWatch(Host)
  <2>1. v # 2 \/ h.roomGen # 1
    <3>1. h.roomGen = 1 => ~ Moved  BY <1>3, <1>9, <1>22 DEF CutoverWatch
    <3> QED  BY <1>10, <3>1
  <2>2. UNCHANGED <<handle, disk, view, rowGen, rooms, seed, waiter, processed>>
    BY <1>1, <1>22, <2>1 DEF CutoverWatch
  <2>3. HostTo(h, y, v)  BY <1>1, <2>2, HostSame
  <2>4. Rests(h, y, v)  BY <1>1, <1>8, <2>2, <2>3 DEF Rests
  <2> QED  BY <2>4, HostRests
<1>23. CASE Evict(Host)
  <2>1. /\ h.open /\ handle' = Dropped(Host) /\ disk' = Saved(Host)
        /\ seed.stage = "none" \/ ~ Attended
        /\ waiter' = WaiterAfterDrop(Host) /\ UNCHANGED <<view, rowGen, rooms, seed, processed>>
    BY <1>1, <1>23 DEF Evict, Attended
  <2>2. PICK z \in Snapshots : disk' = [disk EXCEPT ![Host] = {z}] /\ z.doc = h.doc /\ z.epoch = y.epoch
    BY <1>1, <1>2, <2>1, SavedFacts
  <2>3. view' = [view EXCEPT ![Host] = v] /\ waiter' # "live" /\ NoHandle.doc.messages = {}
    BY <1>1, <1>2, <2>1, Unchanged, WaiterFacts, EmptyFacts DEF NoHandle
  <2>4. HostTo(NoHandle, z, v)  BY <1>2, <2>1, <2>2, <2>3, NoHandleFacts DEF HostTo, Dropped
  <2>5. Rests(NoHandle, z, v)
    BY <1>1, <1>3, <1>23, <2>1, <2>2, <2>3, <2>4, NoHandleFacts DEF Rests, Evict
  <2> QED  BY <2>5, HostRests
<1>24. CASE Crash(Host)
  <2>1. /\ handle' = Dropped(Host) /\ UNCHANGED <<disk, rowGen, rooms, processed>>
        /\ seed' = NoSeed /\ waiter' = "none"
    BY <1>24 DEF Crash
  <2>2. PICK known \in {v, rowGen} : known <= v /\ view' = [view EXCEPT ![Host] = known]
    BY <1>1, <1>24 DEF Crash
  <2>3. known \in {1, 2} /\ (known = v \/ known = 1)  BY <1>2, <2>2
  <2>4. disk' = [disk EXCEPT ![Host] = {y}] /\ NoHandle.doc.messages = {} /\ NoSeed.stage = "none"
    BY <1>1, <1>2, <2>1, Unchanged, EmptyFacts DEF NoHandle, NoSeed
  <2>5. HostTo(NoHandle, y, known)
    BY <1>2, <2>1, <2>2, <2>3, <2>4, NoHandleFacts DEF HostTo, Dropped
  <2>6. Rests(NoHandle, y, known)  BY <1>1, <2>1, <2>3, <2>4, <2>5, NoHandleFacts DEF Rests
  <2> QED  BY <2>6, HostRests
<1> QED
  BY <1>11, <1>12, <1>13, <1>14, <1>15, <1>16, <1>17, <1>18, <1>19, <1>20, <1>21, <1>22, <1>23,
     <1>24
  DEF Device

\* Commands are issued on any device.
LEMMA IssueKeeps ==
  ASSUME Ordinary, MoveInv, CutoverTypeOK', NEW c \in Commands, Issue(c)
  PROVE  MoveInv'
<1> USE DEF stores, registry, rooms, seeding
<1>1. PICK d \in Devices : d = IssuedBy[c]  BY HostIsADevice
<1>2. CutoverTypeOK  BY DEF MoveInv, Shapes
<1>3. PICK g : /\ handle' = [handle EXCEPT ![d] = g] /\ Grown(handle[d], g, {}, {})
               /\ g.run = handle[d].run
  BY <1>1, <1>2, IssueEffect
<1>4. /\ handle[d].open /\ Undisturbed(d)
      /\ UNCHANGED <<disk, view, rowGen, s2, checkpoint, rows, waiter, seed, processed>>
  BY <1>1 DEF Issue
<1>5. CASE d = Host
  <2>1. PICK h, N : h = handle[Host] /\ N = NewSide  OBVIOUS
  <2>2. h.roomGen \in {1, 2}  BY <1>4, <1>5, <2>1, HostShapes
  <2>3. CASE h.roomGen = 1
    <3>1. seed.stage \notin {"sealed", "stored", "flipped"}  BY <1>4, <1>5 DEF Undisturbed, Ordinary
    <3>2. /\ h.run \subseteq processed
          /\ Attended /\ seed.stage # "none" => s2.messages \subseteq h.doc.messages
      BY <2>1, <2>3 DEF MoveInv, OldSide, SeedHolds
    <3>3. g.doc.messages = h.doc.messages  BY <1>3, <1>5, <2>1 DEF Grown
    <3>4. OldGrowth(g, {}, {})
      BY <1>3, <1>4, <1>5, <2>1, <2>3, <3>1, <3>2, <3>3 DEF OldGrowth
    <3> QED  BY <3>4, HostGrowsOld
  <2>4. CASE h.roomGen = 2
    <3>1. Moved  BY <2>1, <2>4 DEF MoveInv, BeforeTheMove
    <3>2. {0} \X h.run \subseteq N /\ rows.messages \subseteq N
      BY <2>1, <2>4, <3>1 DEF MoveInv, AfterTheMove
    <3>3. NewGrowth(g, g, {}, {})  BY <1>3, <1>4, <1>5, <2>1, <2>4, <3>2 DEF NewGrowth
    <3> QED  BY <3>3, HostGrowsNew
  <2> QED  BY <2>2, <2>3, <2>4
<1>6. CASE d # Host
  <2>1. d \in Readers /\ Shapes  BY <1>6, HostIsADevice DEF Ordinary, MoveInv
  <2>2. handle[d].roomGen # 0  BY <1>4, <2>1, ShapeParts
  <2>3. Growth(d, g, g, {}, {})  BY <1>3, <1>4, <2>2 DEF Growth
  <2>4. OthersStay  BY <1>4 DEF OthersStay
  <2> QED  BY <2>1, <2>3, <2>4, ReaderGrows
<1> QED  BY <1>5, <1>6

\* A run that begins is of a command that no checkpoint shows to have been answered.
LEMMA ExecuteKeeps ==
  ASSUME Ordinary, MoveInv, CutoverTypeOK', NEW c \in Commands, Execute(c)
  PROVE  MoveInv'
<1> USE DEF stores, registry, rooms, seeding
<1>1. PICK h, N : h = handle[Host] /\ N = NewSide  OBVIOUS
<1>2. h.roomGen \in {0, 1, 2} /\ (h.open <=> h.roomGen # 0) /\ CutoverTypeOK  BY <1>1, HostShapes
<1>3. PICK g : /\ handle' = [handle EXCEPT ![Host] = g] /\ Grown(handle[Host], g, {}, {})
               /\ g.run = {c}
  BY <1>2, ExecuteEffect
<1>4. c \notin processed /\ processed' = processed \cup {c} /\ h.open  BY <1>1, <1>2, ExecuteEffect
<1>5. /\ Undisturbed(Host)
      /\ UNCHANGED <<disk, view, rowGen, s2, checkpoint, rows, waiter, seed>>
  BY DEF Execute
<1>6. CASE h.roomGen = 1
  <2>1. seed.stage \notin {"sealed", "stored", "flipped"}  BY <1>5 DEF Undisturbed, Ordinary
  <2>2. Attended /\ seed.stage # "none" => s2.messages \subseteq h.doc.messages
    BY <1>1 DEF MoveInv, SeedHolds
  <2>3. g.doc.messages = h.doc.messages  BY <1>1, <1>3 DEF Grown
  <2>4. OldGrowth(g, {}, {})
    BY <1>1, <1>3, <1>4, <1>5, <1>6, <2>1, <2>2, <2>3 DEF OldGrowth
  <2> QED  BY <2>4, HostGrowsOld
<1>7. CASE h.roomGen = 2
  <2>1. Moved  BY <1>1, <1>7 DEF MoveInv, BeforeTheMove
  <2>2. rows.messages \subseteq N  BY <1>1, <2>1 DEF MoveInv, AfterTheMove
  <2>3. PICK k \in checkpoint : Said(k) \subseteq {Before} \cup processed  BY <2>1, MovedParts
  <2>4. c \notin Said(k)  BY <1>4, <2>3, ChatCutoverAssumption
  <2>5. <<0, c>> \in N  BY <1>1, <2>4 DEF NewSide
  <2>6. {0} \X g.run \subseteq N  BY <1>3, <2>5
  <2>7. NewGrowth(g, g, {}, {})  BY <1>1, <1>3, <1>4, <1>5, <1>7, <2>2, <2>6 DEF NewGrowth
  <2> QED  BY <2>7, HostGrowsNew
<1> QED  BY <1>2, <1>4, <1>6, <1>7

LEMMA FinishRunKeeps ==
  ASSUME Ordinary, MoveInv, CutoverTypeOK', FinishRun
  PROVE  MoveInv'
<1> USE DEF stores, registry, rooms, seeding, counters
<1>1. PICK h, N : h = handle[Host] /\ N = NewSide  OBVIOUS
<1>2. h.roomGen \in {0, 1, 2} /\ CutoverTypeOK  BY <1>1, HostShapes
<1>3. PICK c, g : /\ c \in handle[Host].run /\ handle' = [handle EXCEPT ![Host] = g] /\ g.run = {}
                  /\ Grown(handle[Host], g, {<<0, c>>}, {<<0, c>>})
  BY <1>2, FinishRunEffect
<1>4. h.roomGen # 0  BY <1>1, <1>3 DEF MoveInv, OldSide
<1>5. /\ Undisturbed(Host)
      /\ UNCHANGED <<disk, view, rowGen, s2, checkpoint, rows, waiter, seed, processed>>
  BY DEF FinishRun
<1>6. CASE h.roomGen = 1
  <2>1. seed.stage \notin {"sealed", "stored", "flipped"}  BY <1>5 DEF Undisturbed, Ordinary
  <2>2. /\ c \in processed
        /\ Attended /\ seed.stage # "none" => s2.messages \subseteq h.doc.messages
    BY <1>1, <1>3, <1>6 DEF MoveInv, OldSide, SeedHolds
  <2>3. g.doc.messages = h.doc.messages \cup {<<0, c>>}  BY <1>1, <1>3 DEF Grown
  <2>4. {<<0, c>>} \subseteq Old'  BY <1>5, <2>2 DEF Old
  <2>5. OldGrowth(g, {<<0, c>>}, {<<0, c>>})
    BY <1>1, <1>3, <1>5, <1>6, <2>1, <2>2, <2>3, <2>4 DEF OldGrowth
  <2> QED  BY <2>5, HostGrowsOld
<1>7. CASE h.roomGen = 2
  <2>1. Moved  BY <1>1, <1>7 DEF MoveInv, BeforeTheMove
  <2>2. {0} \X h.run \subseteq N /\ rows.messages \subseteq N
    BY <1>1, <1>7, <2>1 DEF MoveInv, AfterTheMove
  <2>3. {<<0, c>>} \subseteq N  BY <1>1, <1>3, <2>2
  <2>4. NewGrowth(g, g, {<<0, c>>}, {<<0, c>>})
    BY <1>1, <1>3, <1>5, <1>7, <2>2, <2>3 DEF NewGrowth
  <2> QED  BY <2>4, HostGrowsNew
<1> QED  BY <1>2, <1>4, <1>6, <1>7

\* The sweep, the end of a wait and the boot-time salvage.  A host that shows what was
\* there before needs no salvage, and an ordinary one always does.
LEMMA WaitingKeeps ==
  ASSUME Ordinary, MoveInv, CutoverTypeOK', Sweep \/ GiveUpWaiting \/ Salvage
  PROVE  MoveInv'
<1> USE DEF stores, registry, seeding, counters
<1>1. PICK h, y, v : h = handle[Host] /\ y = Stored(Host) /\ v = view[Host]  OBVIOUS
<1>2. CutoverTypeOK /\ (h.open <=> h.roomGen # 0)  BY <1>1, HostShapes
<1>3. waiter = "live" => h.roomGen = 1  BY <1>1 DEF MoveInv, OldSide
<1>4. ASSUME UNCHANGED <<handle, disk, view, rowGen, rooms, seed, processed>>,
             waiter' = "live" => h.roomGen = 1
      PROVE  MoveInv'
  <2>1. HostTo(h, y, v)  BY <1>1, <1>4, HostSame
  <2>2. Rests(h, y, v)  BY <1>1, <1>4, <2>1 DEF Rests
  <2> QED  BY <2>2, HostRests
<1>5. CASE Sweep
  <2>1. CASE ~ handle[Host].open
    BY <1>5, <2>1, HostOpens DEF Sweep
  <2>2. CASE handle[Host].open
    BY <1>1, <1>4, <1>5, <2>2 DEF Sweep
  <2> QED  BY <2>1, <2>2
<1>6. CASE GiveUpWaiting
  BY <1>4, <1>6 DEF GiveUpWaiting
<1>7. CASE Salvage
  <2>1. UNCHANGED <<handle, rollback>>
    BY <1>2, <1>7, SalvageEffect, HostHasMessages
  <2>2. UNCHANGED <<disk, registry, rooms, waiter, seed, processed, issued, faults>>
    BY <1>2, <1>7, SalvageEffect
  <2> QED  BY <1>3, <1>4, <2>1, <2>2
<1> QED  BY <1>5, <1>6, <1>7

-----------------------------------------------------------------------------
(* The seed *)

\* Up to the seal a seed changes nothing but itself and the checkpoint, which nobody
\* reads before the move.
LEMMA SeedAdvances ==
  ASSUME Ordinary, MoveInv, CutoverTypeOK', ~ Moved,
         UNCHANGED <<handle, disk, view, rowGen, s2, rows, processed>>,
         waiter' = waiter \/ waiter' = "none",
         \A k \in checkpoint' : OneTag(k),
         seed'.stage \notin {"stored", "flipped"}, SeedHolds'
  PROVE  MoveInv'
<1>1. HostTo(handle[Host], Stored(Host), view[Host])  BY HostSame
<1>2. rowGen = 1 /\ rowGen <= rowGen'  BY HostShapes DEF MoveInv, BeforeTheMove
<1>3. Shapes' /\ ReadersFollow' /\ Stored(Host)' = Stored(Host)  BY <1>1, <1>2, HostStep
<1>4. ~ Moved' /\ Old' = Old  BY <1>3 DEF Moved, Old
<1>5. BeforeTheMove'  BY <1>3, <1>4 DEF MoveInv, BeforeTheMove
<1>6. AfterTheMove'  BY <1>4 DEF AfterTheMove
<1>7. OldSide'  BY <1>4 DEF MoveInv, OldSide, OneTag
<1> QED  BY <1>3, <1>5, <1>6, <1>7 DEF MoveInv

LEMMA StartSeedKeeps ==
  ASSUME Ordinary, MoveInv, CutoverTypeOK', StartSeed
  PROVE  MoveInv'
<1> USE DEF stores, registry, counters
<1>1. PICK h : h = handle[Host] /\ CutoverTypeOK  BY HostShapes
<1>2. /\ waiter = "live" /\ waiter' = "none" /\ (Attended => Holds(h.doc, s2))
      /\ UNCHANGED <<handle, disk, view, rowGen, rooms, processed>>
  BY <1>1 DEF StartSeed, Attended
<1>3. h.roomGen = 1  BY <1>1, <1>2 DEF MoveInv, OldSide
<1>4. CASE UNCHANGED seed
  <2>1. HostTo(h, Stored(Host), view[Host])  BY <1>1, <1>2, HostSame
  <2>2. Rests(h, Stored(Host), view[Host])  BY <1>1, <1>2, <1>4, <2>1 DEF Rests
  <2> QED  BY <2>2, HostRests
<1>5. CASE ~ UNCHANGED seed
  <2>1. PICK t \in Copies, doc \in Docs :
          /\ doc = h.doc /\ seed' = [stage |-> "posting", doc |-> doc, thin |-> Rebuild(doc, t)]
    BY <1>1, <1>5, StartSeedEffect
  <2>2. seed.stage = "none"  BY <1>1, <1>5, StartSeedEffect
  <2>3. ~ Moved  BY <1>1, <1>3, <2>2 DEF MoveInv, AfterTheMove
  <2>4. ASSUME Attended PROVE s2.messages \subseteq h.doc.messages
    <3>1. s2 \in Docs  BY <1>1 DEF CutoverTypeOK
    <3>2. Merge(doc, s2).messages = doc.messages \cup s2.messages /\ Merge(doc, s2) = doc
      BY <1>2, <2>1, <2>4, <3>1, MergeFacts DEF Holds
    <3> QED  BY <2>1, <3>2
  <2>5. PICK thin : thin = Rebuild(doc, t) /\ OneTag(thin) /\ Said(thin) = Said(doc)
    BY RebuildFacts
  <2>6. seed'.stage = "posting" /\ seed'.doc = doc /\ seed'.thin = thin  BY <2>1, <2>5
  <2>9. doc.messages \subseteq Old' /\ <<0, Before>> \in doc.messages
    BY <1>1, <1>2, <1>3, <2>1 DEF MoveInv, OldSide, Old
  <2>7. SeedHolds'
    BY <1>1, <1>2, <1>3, <2>4, <2>5, <2>6, <2>9 DEF SeedHolds, OneTag, Said, rooms
  <2>8. \A k \in checkpoint' : OneTag(k)  BY <1>2 DEF MoveInv, OldSide, rooms
  <2> QED  BY <1>2, <2>3, <2>6, <2>7, <2>8, SeedAdvances DEF rooms
<1> QED  BY <1>4, <1>5

LEMMA PostKeeps ==
  ASSUME Ordinary, MoveInv, CutoverTypeOK', PostCheckpoint \/ PostFails
  PROVE  MoveInv'
<1> USE DEF stores, registry, counters
<1>1. /\ seed.stage = "posting" /\ checkpoint' \in {checkpoint, {seed.thin}}
      /\ UNCHANGED <<handle, disk, view, rowGen, s2, rows, waiter, processed>>
  BY DEF PostCheckpoint, PostFails
<1>2. ~ Moved  BY <1>1 DEF MoveInv, AfterTheMove
<1>3. /\ handle[Host].roomGen # 2
      /\ Attended => handle[Host].roomGen = 1 /\ s2.messages \subseteq handle[Host].doc.messages
      /\ OneTag(seed.thin) /\ Said(seed.thin) = Said(seed.doc)
      /\ seed.doc.messages \subseteq Old' /\ <<0, Before>> \in seed.doc.messages
  BY <1>1 DEF MoveInv, SeedHolds, Old
<1>4. \A k \in checkpoint' : OneTag(k)  BY <1>1, <1>3 DEF MoveInv, OldSide
<1>5. CASE PostCheckpoint
  <2>1. /\ checkpoint' = {seed.thin} /\ seed'.stage = "posted"
        /\ seed'.thin = seed.thin /\ seed'.doc = seed.doc
    BY <1>5, HostShapes DEF PostCheckpoint, CutoverTypeOK
  <2>2. SeedHolds'  BY <1>1, <1>3, <2>1 DEF SeedHolds, OneTag, Said
  <2> QED  BY <1>1, <1>2, <1>4, <2>1, <2>2, SeedAdvances
<1>6. CASE PostFails
  <2>1. seed'.stage = "none"  BY <1>6 DEF PostFails, NoSeed
  <2>2. SeedHolds'  BY <2>1 DEF SeedHolds
  <2> QED  BY <1>1, <1>2, <1>4, <2>1, <2>2, SeedAdvances
<1> QED  BY <1>5, <1>6

\* The seal closes over a document that still is the one rebuilt, and that no run holds.
LEMMA SealKeeps ==
  ASSUME Ordinary, MoveInv, CutoverTypeOK', Seal
  PROVE  MoveInv'
<1> USE DEF stores, registry, counters
<1>1. /\ seed.stage = "posted"
      /\ UNCHANGED <<handle, disk, view, rowGen, s2, checkpoint, rows, waiter, processed>>
  BY DEF Seal, rooms
<1>2. ~ Moved  BY <1>1 DEF MoveInv, AfterTheMove
<1>3. PICK h : h = handle[Host] /\ (h.open <=> h.roomGen # 0) /\ CutoverTypeOK  BY HostShapes
<1>4. /\ h.roomGen # 2
      /\ Attended => h.roomGen = 1 /\ s2.messages \subseteq h.doc.messages
      /\ OneTag(seed.thin) /\ Said(seed.thin) = Said(seed.doc) /\ checkpoint = {seed.thin}
      /\ seed.doc.messages \subseteq Old' /\ <<0, Before>> \in seed.doc.messages
  BY <1>1, <1>3 DEF MoveInv, SeedHolds, Old
<1>5. \A k \in checkpoint' : OneTag(k)  BY <1>1, <1>4
<1>6. CASE Sealed
  <2>1. seed'.stage = "sealed" /\ seed'.thin = seed.thin /\ seed'.doc = seed.doc
    BY <1>3, <1>6 DEF Seal, CutoverTypeOK
  <2>2. h.roomGen = 1 => h.run = {} /\ h.doc = seed.doc  BY <1>3, <1>6 DEF Sealed, Pinned
  <2>3. SeedHolds'  BY <1>1, <1>3, <1>4, <2>1, <2>2 DEF SeedHolds, OneTag, Said
  <2> QED  BY <1>1, <1>2, <1>5, <2>1, <2>3, SeedAdvances
<1>7. CASE ~ Sealed
  <2>1. seed'.stage = "none"  BY <1>7 DEF Seal, NoSeed
  <2>2. SeedHolds'  BY <2>1 DEF SeedHolds
  <2> QED  BY <1>1, <1>2, <1>5, <2>1, <2>2, SeedAdvances
<1> QED  BY <1>6, <1>7

\* The move itself: all that was said is in the document that is stored.
LEMMA StoreThinKeeps ==
  ASSUME Ordinary, MoveInv, CutoverTypeOK', StoreThin
  PROVE  MoveInv'
<1> USE DEF registry, counters
<1>1. /\ seed.stage = "sealed" /\ seed' = [seed EXCEPT !.stage = "stored"]
      /\ UNCHANGED <<handle, view, rowGen, s2, checkpoint, rows, waiter, processed>>
  BY DEF StoreThin, rooms
<1>2. PICK h, v, k : h = handle[Host] /\ v = view[Host] /\ k = seed.thin  OBVIOUS
<1>3. /\ ~ h.retired /\ (h.open <=> h.roomGen # 0) /\ v \in {1, 2} /\ rowGen \in {1, 2}
      /\ CutoverTypeOK /\ Shapes
  BY <1>2, HostShapes
<1>4. PICK x : disk' = [disk EXCEPT ![Host] = {x}] /\ SnapshotOf(x, k, 2)
  BY <1>2, <1>3, StoreThinEffect
<1>5. HostTo(h, x, v)
  <2>1. handle' = [handle EXCEPT ![Host] = h] /\ view' = [view EXCEPT ![Host] = v]
    BY <1>1, <1>2, <1>3, HostShapes, Unchanged
  <2>2. h.roomGen = 0 => h.doc.messages = {}  BY <1>2, HostShapes
  <2> QED  BY <1>3, <1>4, <2>1, <2>2 DEF HostTo, SnapshotOf
<1>6. NewSide' = NewSide /\ Old' = Old /\ rowGen <= rowGen'  BY <1>1, <1>3 DEF NewSide, Old, Said
<1>7. Shapes' /\ ReadersFollow' /\ Stored(Host)' = x  BY <1>1, <1>5, <1>6, HostStep
<1>8. Moved'  BY <1>4, <1>7 DEF Moved, SnapshotOf
<1>9. h.roomGen # 2 /\ checkpoint = {k} /\ (Attended => Said(s2) \subseteq Said(k))
  BY <1>1, <1>2, SealedFacts
<1>10. rows.messages = {}  BY <1>1 DEF MoveInv, BeforeTheMove, AfterTheMove
<1>12. Before \in Said(k) /\ Said(k) \subseteq {Before} \cup processed
  BY <1>1, <1>2, SealedFacts
<1>13. k.messages \subseteq NewSide  BY <1>9 DEF NewSide
<1>14. seed'.stage = "stored" /\ seed'.thin = seed.thin /\ seed'.doc = seed.doc
  BY <1>1, <1>3 DEF CutoverTypeOK
<1>15. BeforeTheMove'  BY <1>8 DEF BeforeTheMove
<1>16. AfterTheMove'
  <2>1. x.doc.messages \subseteq NewSide /\ Before \in Said(x.doc)
    BY <1>4, <1>12, <1>13 DEF SnapshotOf
  <2>2. \E j \in checkpoint' : /\ checkpoint' = {j} /\ (Attended => Said(s2)' \subseteq Said(j))
                               /\ Said(j) \subseteq {Before} \cup processed'
    BY <1>1, <1>9, <1>12 DEF Said
  <2> QED  BY <1>1, <1>2, <1>6, <1>7, <1>9, <1>10, <1>14, <2>1, <2>2 DEF AfterTheMove, Said
<1>17. OldSide'  BY <1>1, <1>6 DEF MoveInv, OldSide, OneTag
<1>18. SeedHolds'  BY <1>1, <1>6, <1>14 DEF MoveInv, SeedHolds, OneTag, Said
<1> QED  BY <1>7, <1>15, <1>16, <1>17, <1>18 DEF MoveInv

LEMMA FlipKeeps ==
  ASSUME Ordinary, MoveInv, CutoverTypeOK', Flip
  PROVE  MoveInv'
<1> USE DEF stores, counters
<1>1. /\ seed.stage = "stored" /\ seed' = [seed EXCEPT !.stage = "flipped"]
      /\ view' = [view EXCEPT ![Host] = 2]
      /\ UNCHANGED <<handle, disk, rowGen, s2, checkpoint, rows, waiter, processed>>
  BY DEF Flip, SetRoomGen, rooms
<1>2. PICK h, y : h = handle[Host] /\ y = Stored(Host)  OBVIOUS
<1>3. /\ ~ h.retired /\ (h.open <=> h.roomGen # 0) /\ y \in Snapshots /\ rowGen \in {1, 2}
      /\ CutoverTypeOK /\ Shapes
  BY <1>2, HostShapes
<1>4. h.roomGen # 2 /\ (h.roomGen = 0 => h.doc.messages = {}) /\ Moved
  BY <1>1, <1>2, SealedFacts, HostShapes DEF MoveInv, BeforeTheMove
<1>5. HostTo(h, y, 2)
  <2>1. handle' = [handle EXCEPT ![Host] = h] /\ disk' = [disk EXCEPT ![Host] = {y}]
    BY <1>1, <1>2, <1>3, HostShapes, Unchanged
  <2>2. view' = [view EXCEPT ![Host] = 2] /\ 2 \in {1, 2}  BY <1>1
  <2>3. h.roomGen = 0 => h.doc.messages = {}  BY <1>4
  <2> QED  BY <1>3, <2>1, <2>2, <2>3 DEF HostTo
<1>6. NewSide' = NewSide /\ Old' = Old /\ rowGen <= rowGen'  BY <1>1, <1>3 DEF NewSide, Old, Said
<1>7. Shapes' /\ ReadersFollow' /\ Stored(Host)' = y  BY <1>1, <1>5, <1>6, HostStep
<1>8. Moved'  BY <1>2, <1>4, <1>7 DEF Moved
<1>9. seed'.stage = "flipped" /\ seed'.thin = seed.thin /\ seed'.doc = seed.doc
  BY <1>1, <1>3 DEF CutoverTypeOK
<1>10. BeforeTheMove'  BY <1>8 DEF BeforeTheMove
<1>11. AfterTheMove'
  <2>1. rows.messages \subseteq NewSide /\ y.doc.messages \subseteq NewSide /\ Before \in Said(y.doc)
    BY <1>2, <1>4 DEF MoveInv, AfterTheMove
  <2>2. \E k \in checkpoint' : /\ checkpoint' = {k} /\ (Attended => Said(s2)' \subseteq Said(k))
                               /\ Said(k) \subseteq {Before} \cup processed'
    <3>1. Said(s2)' = Said(s2)  BY <1>1 DEF Said
    <3> QED  BY <1>1, <1>4, <3>1, MovedParts
  <2> QED  BY <1>1, <1>2, <1>4, <1>6, <1>7, <1>9, <2>1, <2>2 DEF AfterTheMove, Said
<1>12. OldSide'  BY <1>1, <1>6 DEF MoveInv, OldSide, OneTag
<1>13. SeedHolds'  BY <1>1, <1>6, <1>9 DEF MoveInv, SeedHolds, OneTag, Said
<1> QED  BY <1>7, <1>10, <1>11, <1>12, <1>13 DEF MoveInv

\* A sealed handle is in no run's hands, so retirement drops it.
LEMMA RetireKeeps ==
  ASSUME Ordinary, MoveInv, CutoverTypeOK', Retire
  PROVE  MoveInv'
<1> USE DEF stores, registry, counters
<1>1. /\ seed.stage = "flipped" /\ seed'.stage = "none"
      /\ UNCHANGED <<disk, view, rowGen, rooms, processed>>
  BY DEF Retire, NoSeed
<1>2. PICK y, v : y = Stored(Host) /\ v = view[Host]  OBVIOUS
<1>3. handle[Host].run = {}  BY <1>1, SealedFacts
<1>4. CutoverTypeOK /\ y \in Snapshots /\ v \in {1, 2}  BY <1>2, HostShapes
<1>5. handle' = [handle EXCEPT ![Host] = NoHandle] /\ waiter' # "live"
  BY <1>3, <1>4, HostIsADevice, RetireEffect, WaiterFacts
<1>6. /\ view' = [view EXCEPT ![Host] = v] /\ disk' = [disk EXCEPT ![Host] = {y}]
      /\ NoHandle.doc.messages = {}
  BY <1>1, <1>2, HostShapes, Unchanged, EmptyFacts DEF NoHandle
<1>7. HostTo(NoHandle, y, v)  BY <1>4, <1>5, <1>6, NoHandleFacts DEF HostTo
<1>8. Rests(NoHandle, y, v)  BY <1>1, <1>2, <1>5, <1>7, NoHandleFacts DEF Rests
<1> QED  BY <1>8, HostRests

-----------------------------------------------------------------------------
(* Every behaviour *)

LEMMA InitMove == Ordinary /\ Init => MoveInv
<1> SUFFICES ASSUME Ordinary, Init PROVE MoveInv  OBVIOUS
<1>1. PICK n, f, x : /\ n = NoHandle /\ f = Fat /\ x = [doc |-> f, epoch |-> 0, cursor |-> FALSE]
                     /\ n \in Handles /\ n.roomGen = 0 /\ ~ n.open /\ ~ n.retired /\ n.run = {}
                     /\ f \in Docs /\ f.messages = {<<0, Before>>}
  BY NoHandleFacts, FatFacts
<1>2. n.doc.messages = {}  BY <1>1, EmptyFacts DEF NoHandle
<1>3. x \in Snapshots /\ x.doc = f /\ x.epoch = 0  BY <1>1 DEF Snapshots
<1>4. Host \in Devices /\ Readers \subseteq Devices  BY HostIsADevice
<1>5. ASSUME NEW d \in Devices
      PROVE  handle[d] = n /\ disk[d] = {x} /\ view[d] = 1 /\ Stored(d) = x
  <2>1. handle[d] = n /\ disk[d] = {x} /\ view[d] = 1  BY <1>1 DEF Init, Ordinary
  <2> QED  BY <2>1 DEF Stored
<1>6. /\ rowGen = 1 /\ s2 = f /\ checkpoint = {} /\ rows.messages = {}
      /\ waiter = "none" /\ seed.stage = "none" /\ processed = {}
  BY <1>1, EmptyFacts DEF Init, NoSeed
<1>7. Shapes
  <2>1. CutoverTypeOK  BY InitTypes
  <2>2. \A d \in Devices : Kept(d)  BY <1>3, <1>5 DEF Kept
  <2> QED  BY <1>1, <1>2, <1>5, <2>1, <2>2 DEF Shapes
<1>8. f.messages \subseteq Old  BY <1>1 DEF Old
<1>9. BeforeTheMove  BY <1>1, <1>3, <1>4, <1>5, <1>6, <1>8 DEF BeforeTheMove
<1>10. AfterTheMove
  <2>1. ~ Moved  BY <1>3, <1>4, <1>5 DEF Moved
  <2> QED  BY <2>1 DEF AfterTheMove
<1>11. OldSide  BY <1>1, <1>4, <1>5, <1>6, <1>8 DEF OldSide
<1>12. SeedHolds  BY <1>6 DEF SeedHolds
<1>13. ReadersFollow
  <2>1. ASSUME NEW d \in Readers PROVE ReaderOn(n, x, 1, s2.messages, NewSide)
    BY <1>1, <1>2, <1>3, <1>6 DEF ReaderOn
  <2>2. \A d \in Readers : handle[d] = n /\ view[d] = 1 /\ Stored(d) = x  BY <1>4, <1>5
  <2> QED  BY <1>6, <2>1, <2>2 DEF ReadersFollow
<1> QED  BY <1>7, <1>9, <1>10, <1>11, <1>12, <1>13 DEF MoveInv

LEMMA NextMove ==
  ASSUME Ordinary, MoveInv, [Next]_vars
  PROVE  MoveInv'
<1>1. CutoverTypeOK'
  <2>1. CutoverTypeOK  BY DEF MoveInv, Shapes
  <2> QED  BY <2>1, NextTypes
<1>2. CASE UNCHANGED vars
  <2>1. UNCHANGED <<handle, disk, view, rowGen, rooms, waiter, seed, processed>>
    BY <1>2 DEF vars, stores, registry, seeding, counters
  <2>2. HostTo(handle[Host], Stored(Host), view[Host])  BY <2>1, HostSame
  <2>3. Rests(handle[Host], Stored(Host), view[Host])
    BY <2>1, <2>2 DEF Rests, MoveInv, OldSide
  <2> QED  BY <1>1, <2>3, HostRests
<1>3. ASSUME NEW d \in Devices, Device(d) PROVE MoveInv'
  <2>1. CASE d = Host  BY <1>1, <1>3, <2>1, HostMoves
  <2>2. CASE d # Host
    <3>1. d \in Readers  BY <2>2, HostIsADevice DEF Ordinary
    <3> QED  BY <1>1, <1>3, <3>1, ReaderMoves
  <2> QED  BY <2>1, <2>2
<1>4. ASSUME NEW c \in Commands, Issue(c) \/ Execute(c) PROVE MoveInv'
  BY <1>1, <1>4, IssueKeeps, ExecuteKeeps
<1>5. CASE FinishRun  BY <1>1, <1>5, FinishRunKeeps
<1>6. CASE Sweep \/ GiveUpWaiting \/ Salvage  BY <1>1, <1>6, WaitingKeeps
<1>7. CASE StartSeed  BY <1>1, <1>7, StartSeedKeeps
<1>8. CASE PostCheckpoint \/ PostFails  BY <1>1, <1>8, PostKeeps
<1>9. CASE FinishSeed  BY <1>1, <1>9, SealKeeps, StoreThinKeeps, FlipKeeps, RetireKeeps DEF FinishSeed
<1> QED  BY <1>2, <1>3, <1>4, <1>5, <1>6, <1>7, <1>8, <1>9 DEF Next

\* The invariant holds throughout: a behaviour has one move, in which the host's store
\* goes from the old side to the new one, and every other device follows it.
THEOREM MoveIsOrderly == ASSUME Ordinary PROVE Spec => []MoveInv
<1>1. Init => MoveInv  BY InitMove
<1>2. MoveInv /\ [Next]_vars => MoveInv'  BY NextMove
<1> QED  BY <1>1, <1>2, PTL DEF Spec

\* However many readers there are, and wherever crashes, evictions and failed posts stop
\* the seed (doc_host.rs), nobody's document and no room shows a message twice.
THEOREM NothingIsShownTwice == ASSUME Ordinary PROVE Spec => []NoDuplicates
<1>1. MoveInv => NoDuplicates  BY MoveImpliesSingle
<1> QED  BY <1>1, MoveIsOrderly, PTL

\* From the moment the host's store is the rebuilt document, all that was said in the s2
\* room is on the new side, for as long as the chat lives.
THEOREM NothingIsLeftBehind == ASSUME Ordinary, Attended PROVE Spec => []HistoryIsKept
<1>1. MoveInv => HistoryIsKept  BY MoveImpliesKept
<1> QED  BY <1>1, MoveIsOrderly, PTL

===============================================================================
