----------------------------- MODULE ChatCutover -----------------------------
(***************************************************************************)
(* The cutover of a chat from its s2 room to a chat2 room                  *)
(* (crates/engine/src/doc_host.rs).  The host of the chat waits until the  *)
(* document is quiet, rebuilds it into a new lineage without history,      *)
(* posts that as the chat2 room's checkpoint, stores it in place of the    *)
(* old document with epoch 2, and sets roomGen = 2 in the registry's row,  *)
(* the signal every device dials by.  A device whose stored document is of *)
(* an older epoch then discards it, keeping a rollback copy, queues its    *)
(* own pending commands again and takes over what the chat2 room holds.    *)
(*                                                                         *)
(* One chat.  A document is the messages and commands it holds; a message  *)
(* is tagged with the copy it belongs to, 0 for what its author wrote, k   *)
(* for what the k-th rebuild copied: two copies of a message in one        *)
(* document are shown twice.  The rooms only merge documents (ChatSync has *)
(* the chat2 room's protocol, SessionRuns what a run does).                *)
(***************************************************************************)
EXTENDS Naturals, FiniteSets

CONSTANTS
  Host,           \* the device named by the chat's row
  Readers,        \* the user's other devices, with a copy of the chat
  Newcomers,      \* devices whose registry has no row for the chat yet
  Commands,       \* commands users will issue
  IssuedBy,       \* command -> the device it is issued on
  FaultKinds,     \* faults of this run: "crash", "evict", "post" (a checkpoint's POST
                  \* fails), "late" (the s2 room's backfill takes longer than the quiet
                  \* wait), "away" (evictions during a seed), "overlap" (others run
                  \* between the seed's last steps), "unsent" (faults strike a device
                  \* whose stored cursor hides changes it has not sent)
  MaxFaults,      \* bound: faults in a behaviour
  MaxCopies       \* bound: copies of the history that exist at a time

Devices == {Host} \cup Readers \cup Newcomers
Before == "before"                    \* what was said before the behaviour begins
Messages == {Before} \cup Commands    \* a command's run writes one message
Copies == 0 .. MaxCopies

ASSUME ChatCutoverAssumption ==
  /\ Host \notin Readers \cup Newcomers /\ Readers \cap Newcomers = {}
  /\ Before \notin Commands
  /\ IssuedBy \in [Commands -> {Host} \cup Readers]
  /\ FaultKinds \subseteq {"crash", "evict", "post", "late", "away", "overlap",
                      "unsent"}
  /\ MaxFaults \in Nat /\ MaxCopies \in Nat

VARIABLES
  handle,         \* device -> the chat's entry in DocHost's handles
  disk,           \* device -> stored snapshot with epoch and whether a cursor was stored
  rollback,       \* device -> snapshots stored as <chat>.pre-chat2 (none or one)
  view,           \* device -> roomGen in its registry (0: no row)
  signal,         \* devices whose cutover watcher has a registry change to look at
  rowGen,         \* roomGen in the server's registry
  s2,             \* document in the s2 room
  checkpoint,     \* the chat2 room's checkpoints (none or one)
  rows,           \* what the chat2 room's rows hold
  waiter,         \* the quiet wait: none, live, or left over from a dropped handle
  seed,           \* the seed in flight
  processed,      \* the host's processed-commands ledger
  salvageDue,     \* the boot-time salvage has not looked at the chat yet
  issued,         \* commands issued so far
  faults          \* counter of its bound

rooms == <<s2, checkpoint, rows>>
registry == <<view, signal, rowGen>>
stores == <<disk, rollback>>
seeding == <<waiter, seed>>
counters == <<processed, salvageDue, issued, faults>>
vars == <<handle, stores, registry, rooms, seeding, counters>>

-----------------------------------------------------------------------------
(* Documents *)

Empty == [messages |-> {}, commands |-> {}, done |-> {}]

Merge(a, b) == [messages |-> a.messages \cup b.messages,
                commands |-> a.commands \cup b.commands,
                done |-> a.done \cup b.done]

Holds(a, b) == Merge(a, b) = a

Said(doc) == {m[2] : m \in doc.messages}
Pending(doc) == doc.commands \ doc.done

\* Only what is pending of the commands crosses the epoch.
Rebuild(doc, k) == [messages |-> {k} \X Said(doc), commands |-> Pending(doc), done |-> {}]

NoHandle == [open |-> FALSE, roomGen |-> 0, doc |-> Empty, retired |-> FALSE, run |-> {},
             joined |-> FALSE, owes |-> FALSE, queue |-> Empty]

NoSeed == [stage |-> "none", doc |-> Empty, thin |-> Empty]

Fat == [Empty EXCEPT !.messages = {<<0, Before>>}]

Init ==
  /\ handle = [d \in Devices |-> NoHandle]
  /\ disk = [d \in Devices |->
               IF d \in Newcomers THEN {} ELSE {[doc |-> Fat, epoch |-> 0, cursor |-> FALSE]}]
  /\ rollback = [d \in Devices |-> {}]
  /\ view = [d \in Devices |-> IF d \in Newcomers THEN 0 ELSE 1]
  /\ signal = {}
  /\ rowGen = 1
  /\ s2 = Fat /\ checkpoint = {} /\ rows = Empty
  /\ waiter = "none" /\ seed = NoSeed
  /\ processed = {} /\ salvageDue = TRUE /\ issued = {}
  /\ faults = 0

\* A rebuild's messages are new objects: the first tag that no document uses.
Tags(doc) == {m[1] : m \in doc.messages}

NewCopy ==
  LET used == Tags(Merge(rows, s2))
                \cup UNION {Tags(k) : k \in checkpoint \cup UNION {rollback[d] : d \in Devices}}
                \cup UNION {Tags(Merge(handle[d].doc, handle[d].queue)) : d \in Devices}
                \cup UNION {Tags(x.doc) : x \in UNION {disk[d] : d \in Devices}}
                \cup Tags(seed.thin)
      free == Copies \ (used \cup {0})
  IN  {k \in free : \A j \in free : k <= j}

\* Seal, stores, flip and retirement follow each other without an await.
Undisturbed(d) ==
  d = Host => "overlap" \in FaultKinds \/ seed.stage \notin {"sealed", "stored", "flipped"}

Fault(kind) == kind \in FaultKinds /\ faults < MaxFaults /\ faults' = faults + 1

\* A chat without a row can be claimed by whoever asks.
IsHost(d) == view[d] = 0 \/ d = Host

Owed(d) == IF d = Host THEN Pending(handle[d].doc) \ processed ELSE Pending(handle[d].doc)

\* A live writer, or commands the executor still owes.
Pinned(d) == handle[d].run # {} \/ (IsHost(d) /\ Owed(d) # {})

Dropped(d) == [handle EXCEPT ![d] = NoHandle]

\* A waiter whose handle is gone keeps its place until its next tick.
WaiterAfterDrop(d) == IF d = Host /\ waiter = "live" THEN "dead" ELSE waiter

Arm(w) == IF w = "none" THEN "live" ELSE w

-----------------------------------------------------------------------------
(* Opening a chat *)

Stored(d) == CHOOSE x \in disk[d] : TRUE
Thin(d) == disk[d] # {} /\ Stored(d).epoch = 2

\* Mutant: the registry's row alone decides.
OpensOnRow(d) == IF view[d] = 1 THEN 1 ELSE 2

\* No row: the chat is being born, on chat2.  A thin document on disk outweighs the row.
OpensOn(d) == IF view[d] = 1 /\ ~ Thin(d) THEN 1 ELSE 2

Legacy(doc) == [NoHandle EXCEPT !.open = TRUE, !.roomGen = 1, !.doc = doc]

\* First contact with the room: the whole document is owed to it.
OnChat2(doc, cursor) ==
  [NoHandle EXCEPT !.open = TRUE, !.roomGen = 2, !.doc = doc, !.owes = ~ cursor,
                   !.queue = IF cursor THEN Empty ELSE doc]

\* Mutant: nothing crosses the epoch.
RequeuedNone(d) == Empty

Requeued(d) ==
  [Empty EXCEPT !.commands = {c \in Pending(Stored(d).doc) : IssuedBy[c] = d}]

\* The old document is discarded; its first rollback copy is the one that counts.
Adopt(d) ==
  /\ rollback' = [rollback EXCEPT ![d] = IF @ = {} THEN {Stored(d).doc} ELSE @]
  /\ handle' = [handle EXCEPT ![d] = OnChat2(Requeued(d), FALSE)]
  /\ UNCHANGED disk

\* A document without a snapshot is stored at once, lest it be taken for an old one.
Born(d) ==
  /\ handle' = [handle EXCEPT ![d] = OnChat2(Empty, FALSE)]
  /\ disk' = [disk EXCEPT ![d] = {[doc |-> Empty, epoch |-> 2, cursor |-> FALSE]}]
  /\ UNCHANGED rollback

Load(d) ==
  /\ handle' = [handle EXCEPT ![d] = IF OpensOn(d) = 2
                                     THEN OnChat2(Stored(d).doc, Stored(d).cursor)
                                     ELSE IF disk[d] = {} THEN Legacy(Empty)
                                     ELSE Legacy(Stored(d).doc)]
  /\ UNCHANGED stores

\* set_chat_room_gen
SetRoomGen(d) ==
  /\ view' = [view EXCEPT ![d] = 2]
  /\ signal' = signal \cup {d}
  /\ UNCHANGED rowGen

\* The part of open() behind the check for a cached handle.
OpenFresh(d) ==
  /\ IF OpensOn(d) = 1 \/ Thin(d) THEN Load(d)
     ELSE IF disk[d] = {} THEN Born(d) ELSE Adopt(d)
  /\ waiter' = IF d = Host /\ OpensOn(d) = 1 THEN Arm(waiter) ELSE WaiterAfterDrop(d)

\* A thin document under a row that still says s2: the flip was interrupted.
CompleteFlip(d) == IF Thin(d) /\ view[d] = 1 THEN SetRoomGen(d) ELSE UNCHANGED registry

Stale(d) == handle[d].open /\ ((view[d] # 1 /\ handle[d].roomGen = 1) \/ handle[d].retired)

\* A stale handle is replaced unless it is pinned.
Open(d) ==
  /\ Undisturbed(d)
  /\ ~ handle[d].open \/ (Stale(d) /\ ~ Pinned(d))
  /\ OpenFresh(d) /\ CompleteFlip(d)
  /\ UNCHANGED <<rooms, seed, counters>>

\* save_snapshot: a plain save keeps epoch and cursor; a retired handle's document must
\* not replace a thin one.
Saved(d) ==
  IF handle[d].retired /\ Thin(d) THEN disk
  ELSE [disk EXCEPT ![d] = {[doc |-> handle[d].doc,
                             epoch |-> IF disk[d] = {} THEN 0 ELSE Stored(d).epoch,
                             cursor |-> disk[d] # {} /\ Stored(d).cursor]}]

Save(d) ==
  /\ Undisturbed(d) /\ handle[d].open
  /\ disk' = Saved(d) /\ disk' # disk
  /\ UNCHANGED <<handle, rollback, registry, rooms, seeding, counters>>

\* A change made on this device: in a chat2 handle it is owed to the room as well.
Changed(d, delta) ==
  LET h == handle[d]
  IN  IF h.roomGen = 2
      THEN [h EXCEPT !.doc = Merge(@, delta), !.owes = TRUE, !.queue = Merge(@, delta)]
      ELSE [h EXCEPT !.doc = Merge(@, delta)]

Issue(c) ==
  LET d == IssuedBy[c]
  IN  /\ c \notin issued /\ Undisturbed(d)
      /\ handle[d].open /\ ~ (Stale(d) /\ ~ Pinned(d))
      /\ issued' = issued \cup {c}
      /\ handle' = [handle EXCEPT ![d] = Changed(d, [Empty EXCEPT !.commands = {c}])]
      /\ UNCHANGED <<stores, registry, rooms, seeding, processed, salvageDue, faults>>

\* The drain: marked first, then the run starts and the outcome is written.
Execute(c) ==
  /\ Undisturbed(Host)
  /\ handle[Host].open /\ handle[Host].run = {}
  /\ c \in Owed(Host)
  /\ processed' = processed \cup {c}
  /\ handle' = [handle EXCEPT ![Host] = [Changed(Host, [Empty EXCEPT !.done = {c}]) EXCEPT !.run = {c}]]
  /\ UNCHANGED <<stores, registry, rooms, seeding, salvageDue, issued, faults>>

\* A retired handle's run goes on in the document it holds.
FinishRun ==
  /\ Undisturbed(Host)
  /\ \E c \in handle[Host].run :
       handle' = [handle EXCEPT ![Host] =
                    [Changed(Host, [Empty EXCEPT !.messages = {<<0, c>>}]) EXCEPT !.run = {}]]
  /\ UNCHANGED <<stores, registry, rooms, seeding, counters>>

-----------------------------------------------------------------------------
(* The rooms *)

\* Joining the s2 room pushes what it lacks; its backfill follows.
JoinS2(d) ==
  /\ Undisturbed(d)
  /\ handle[d].open /\ handle[d].roomGen = 1 /\ ~ handle[d].joined
  /\ handle' = [handle EXCEPT ![d].joined = TRUE]
  /\ s2' = Merge(s2, handle[d].doc)
  /\ UNCHANGED <<stores, registry, checkpoint, rows, seeding, counters>>

PushS2(d) ==
  /\ handle[d].roomGen = 1 /\ handle[d].joined
  /\ ~ Holds(s2, handle[d].doc)
  /\ s2' = Merge(s2, handle[d].doc)
  /\ UNCHANGED <<handle, stores, registry, checkpoint, rows, seeding, counters>>

PullS2(d) ==
  /\ Undisturbed(d)
  /\ handle[d].roomGen = 1 /\ handle[d].joined
  /\ ~ Holds(handle[d].doc, s2)
  /\ handle' = [handle EXCEPT ![d].doc = Merge(@, s2)]
  /\ UNCHANGED <<stores, registry, rooms, seeding, counters>>

Lacking(d) == {k \in checkpoint : ~ Holds(handle[d].doc, k)}

\* The sink stores what it applied with epoch 2.
Applied(d, delta, cursor) ==
  LET doc == Merge(handle[d].doc, delta)
  IN  /\ handle' = [handle EXCEPT ![d].doc = doc]
      /\ disk' = [disk EXCEPT ![d] = {[doc |-> doc, epoch |-> 2, cursor |-> cursor]}]

\* The seed's checkpoint covers no rows: its cursor is 0.
FetchCheckpoint(d) ==
  /\ handle[d].roomGen = 2 /\ ~ handle[d].joined
  /\ \E k \in Lacking(d) : Applied(d, k, FALSE)
  /\ UNCHANGED <<rollback, registry, rooms, seeding, counters>>

\* The rows come last; without rows nothing is stored.
JoinChat2(d) ==
  LET doc == Merge(handle[d].doc, rows)
  IN  /\ handle[d].roomGen = 2 /\ ~ handle[d].joined /\ Lacking(d) = {}
      /\ handle' = [handle EXCEPT ![d].joined = TRUE, ![d].doc = doc]
      /\ disk' = IF rows = Empty THEN disk
                 ELSE [disk EXCEPT ![d] = {[doc |-> doc, epoch |-> 2, cursor |-> TRUE]}]
      /\ UNCHANGED <<rollback, registry, rooms, seeding, counters>>

\* The acknowledgement moves the cursor, and the sink stores it with the document.
PushChat2(d) ==
  /\ handle[d].roomGen = 2 /\ handle[d].joined /\ handle[d].owes
  /\ rows' = Merge(rows, handle[d].queue)
  /\ handle' = [handle EXCEPT ![d].owes = FALSE, ![d].queue = Empty]
  /\ disk' = [disk EXCEPT ![d] = {[doc |-> handle[d].doc, epoch |-> 2, cursor |-> TRUE]}]
  /\ UNCHANGED <<rollback, registry, s2, checkpoint, seeding, counters>>

PullChat2(d) ==
  /\ handle[d].roomGen = 2 /\ handle[d].joined
  /\ ~ Holds(handle[d].doc, rows)
  /\ Applied(d, rows, TRUE)
  /\ UNCHANGED <<rollback, registry, rooms, seeding, counters>>

\* The registry's row, in both directions; every change wakes the watcher.
PublishRow(d) ==
  /\ view[d] > rowGen
  /\ rowGen' = view[d]
  /\ UNCHANGED <<handle, stores, view, signal, rooms, seeding, counters>>

LearnRow(d) ==
  /\ view[d] < rowGen
  /\ view' = [view EXCEPT ![d] = rowGen]
  /\ signal' = signal \cup {d}
  /\ UNCHANGED <<handle, stores, rowGen, rooms, seeding, counters>>

\* A chat that flipped under an s2 handle: a live run's is seeded when the run is over,
\* any other is dropped, and opened again by the host.  Every change of a chat's row
\* runs this, the flip among them.
CutoverWatch(d) ==
  /\ Undisturbed(d)
  /\ signal' = signal \ {d}
  /\ IF view[d] # 2 \/ handle[d].roomGen # 1 THEN UNCHANGED <<handle, stores, waiter>>
     ELSE IF handle[d].run # {} THEN waiter' = Arm(waiter) /\ UNCHANGED <<handle, stores>>
     ELSE IF d = Host THEN OpenFresh(d)
     ELSE handle' = Dropped(d) /\ UNCHANGED <<stores, waiter>>
  /\ UNCHANGED <<view, rowGen, rooms, seed, counters>>

-----------------------------------------------------------------------------
(* The seed *)

\* The sweep arms the wait of a chat that is open and opens one that is not.
Sweep ==
  /\ Undisturbed(Host)
  /\ view[Host] = 1
  /\ IF ~ handle[Host].open THEN OpenFresh(Host) /\ CompleteFlip(Host)
     ELSE /\ handle[Host].roomGen = 1 /\ ~ handle[Host].retired
          /\ waiter' = Arm(waiter)
          /\ UNCHANGED <<handle, stores, registry>>
  /\ UNCHANGED <<rooms, seed, counters>>

\* The wait ends without a seed: the handle is gone or retired, or never joined.
GiveUpWaiting ==
  /\ waiter = "dead" \/ (waiter = "live" /\ (handle[Host].retired \/ ~ handle[Host].joined))
  /\ waiter' = "none"
  /\ UNCHANGED <<handle, stores, registry, rooms, seed, counters>>

\* Two seconds without a change after the join.  Nothing says that the room's backfill
\* has come by then.
StartSeed ==
  /\ waiter = "live" /\ handle[Host].joined /\ ~ handle[Host].retired
  /\ "late" \in FaultKinds \/ Holds(handle[Host].doc, s2)
  /\ waiter' = "none"
  /\ IF seed.stage # "none" THEN UNCHANGED seed
     ELSE \E k \in NewCopy :
            seed' = [stage |-> "posting", doc |-> handle[Host].doc,
                     thin |-> Rebuild(handle[Host].doc, k)]
  /\ UNCHANGED <<handle, stores, registry, rooms, counters>>

PostCheckpoint ==
  /\ seed.stage = "posting"
  /\ checkpoint' = {seed.thin}
  /\ seed' = [seed EXCEPT !.stage = "posted"]
  /\ UNCHANGED <<handle, stores, registry, s2, rows, waiter, counters>>

\* A failed POST may have arrived all the same.
PostFails ==
  /\ seed.stage = "posting"
  /\ Fault("post")
  /\ checkpoint' \in {checkpoint, {seed.thin}}
  /\ seed' = NoSeed
  /\ UNCHANGED <<handle, stores, registry, s2, rows, waiter, processed, salvageDue, issued>>

\* Mutant: without the frontier seal.
SealedUnpinned == handle[Host].open => ~ Pinned(Host)

\* Mutant: the seed still holds the document and takes itself for a live writer.
SealedHolding == ~ handle[Host].open

\* seed_blocked, and the frontier seal: nothing was written since the rebuild.  A chat
\* without a handle is not looked at.
Sealed == handle[Host].open => ~ Pinned(Host) /\ handle[Host].doc = seed.doc

Seal ==
  /\ seed.stage = "posted"
  /\ seed' = IF Sealed THEN [seed EXCEPT !.stage = "sealed"] ELSE NoSeed
  /\ UNCHANGED <<handle, stores, registry, rooms, waiter, counters>>

StoreThin ==
  /\ seed.stage = "sealed"
  /\ rollback' = [rollback EXCEPT ![Host] = IF @ = {} THEN {x.doc : x \in disk[Host]} ELSE @]
  /\ disk' = [disk EXCEPT ![Host] = {[doc |-> seed.thin, epoch |-> 2, cursor |-> FALSE]}]
  /\ seed' = [seed EXCEPT !.stage = "stored"]
  /\ UNCHANGED <<handle, registry, rooms, waiter, counters>>

\* The registry flip comes last.
Flip ==
  /\ seed.stage = "stored"
  /\ SetRoomGen(Host)
  /\ seed' = [seed EXCEPT !.stage = "flipped"]
  /\ UNCHANGED <<handle, stores, rooms, waiter, counters>>

\* The old handle is retired, and dropped unless a run holds its document.
Retire ==
  /\ seed.stage = "flipped"
  /\ seed' = NoSeed
  /\ IF handle[Host].open /\ handle[Host].run # {}
     THEN handle' = [handle EXCEPT ![Host].retired = TRUE] /\ UNCHANGED waiter
     ELSE handle' = Dropped(Host) /\ waiter' = WaiterAfterDrop(Host)
  /\ UNCHANGED <<stores, registry, rooms, counters>>

FinishSeed == Seal \/ StoreThin \/ Flip \/ Retire

\* At boot: a chat2 chat that shows no message though it ran here gets its messages back
\* from the rollback copy, or else from the s2 room.
Salvage ==
  LET fat == IF rollback[Host] = {} THEN {s2} ELSE rollback[Host]
      lost == {doc \in fat : Said(doc) # {}}
  IN  /\ salvageDue
      /\ salvageDue' = FALSE
      /\ IF view[Host] # 2
         THEN UNCHANGED <<handle, rollback>>
         ELSE /\ handle[Host].open
              /\ IF Said(handle[Host].doc) # {} \/ lost = {}
                 THEN UNCHANGED <<handle, rollback>>
                 ELSE \E doc \in lost, k \in NewCopy :
                        /\ rollback' = [rollback EXCEPT ![Host] = IF @ = {} THEN {doc} ELSE @]
                        /\ handle' = [handle EXCEPT ![Host] = Changed(Host,
                             [Empty EXCEPT !.messages = Rebuild(doc, k).messages])]
      /\ UNCHANGED <<disk, registry, rooms, waiter, seed, processed, issued, faults>>

-----------------------------------------------------------------------------
(* Faults *)

\* With a moved cursor in the store nothing sends these again (ChatSync's OutboxKept).
Unsent(d) == handle[d].owes /\ disk[d] # {} /\ Stored(d).cursor

Strikes(d, kind) == ("unsent" \in FaultKinds \/ ~ Unsent(d)) /\ Fault(kind)

\* An eviction stores the document; without a pin any quiet chat may be evicted.
Evict(d) ==
  /\ Undisturbed(d) /\ Strikes(d, "evict")
  /\ handle[d].open /\ ~ Pinned(d)
  /\ d = Host /\ seed.stage # "none" => "away" \in FaultKinds
  /\ disk' = Saved(d)
  /\ handle' = Dropped(d)
  /\ waiter' = WaiterAfterDrop(d)
  /\ UNCHANGED <<rollback, registry, rooms, seed, processed, salvageDue, issued>>

\* A crash may also forget a flip that is neither stored nor sent yet.
Crash(d) ==
  /\ Strikes(d, "crash")
  /\ handle[d].open \/ (d = Host /\ seed.stage # "none")
  /\ handle' = Dropped(d)
  /\ \E known \in {view[d], rowGen} : known <= view[d] /\ view' = [view EXCEPT ![d] = known]
  /\ signal' = signal \ {d}
  /\ IF d = Host THEN seed' = NoSeed /\ waiter' = "none" /\ salvageDue' = TRUE
     ELSE UNCHANGED <<seed, waiter, salvageDue>>
  /\ UNCHANGED <<stores, rowGen, rooms, processed, issued>>

-----------------------------------------------------------------------------

Device(d) ==
  \/ Open(d) \/ Save(d)
  \/ JoinS2(d) \/ PushS2(d) \/ PullS2(d)
  \/ FetchCheckpoint(d) \/ JoinChat2(d) \/ PushChat2(d) \/ PullChat2(d)
  \/ PublishRow(d) \/ LearnRow(d) \/ CutoverWatch(d) \/ Evict(d) \/ Crash(d)

Next ==
  \/ \E d \in Devices : Device(d)
  \/ \E c \in Commands : Issue(c) \/ Execute(c)
  \/ FinishRun \/ Sweep \/ GiveUpWaiting \/ StartSeed \/ PostCheckpoint \/ PostFails \/ Salvage
  \/ FinishSeed

Spec == Init /\ [][Next]_vars

\* Opens, saves, dials, pushes and the registry's sync are retried for ever, timers go
\* off, the executor runs what it owes and runs end.  The watcher need only look when
\* the registry changed.  Users issue what they like and faults may never come.
Fairness ==
  /\ \A d \in Devices :
       /\ WF_vars(Open(d)) /\ WF_vars(Save(d))
       /\ WF_vars(JoinS2(d)) /\ WF_vars(PushS2(d)) /\ WF_vars(PullS2(d))
       /\ WF_vars(FetchCheckpoint(d)) /\ WF_vars(JoinChat2(d))
       /\ WF_vars(PushChat2(d)) /\ WF_vars(PullChat2(d))
       /\ WF_vars(PublishRow(d)) /\ WF_vars(LearnRow(d))
       /\ WF_vars(d \in signal /\ CutoverWatch(d))
  /\ \A c \in Commands : WF_vars(Execute(c))
  /\ WF_vars(FinishRun) /\ WF_vars(Sweep) /\ WF_vars(GiveUpWaiting)
  /\ WF_vars(StartSeed) /\ WF_vars(PostCheckpoint) /\ WF_vars(FinishSeed)

FairSpec == Spec /\ Fairness

-----------------------------------------------------------------------------
(* Properties *)

\* No device shows a message twice, whatever it opens or fetches next: lineages of two
\* rebuilds, or of a rebuild and its source, never meet in one document.
OneCopyEach(doc) == \A m, n \in doc.messages : m[2] = n[2] => m = n

NoDuplicates ==
  /\ \A d \in Devices : OneCopyEach(handle[d].doc)
  /\ \A d \in Devices : \A x \in disk[d] : OneCopyEach(x.doc)
  /\ \A k \in checkpoint : OneCopyEach(Merge(k, rows))

\* Once the host's document is the thin one, all that was said in the s2 room is on the
\* new side: in the chat2 room or with the host.  Nothing is forked away by the seed.
HistoryIsKept ==
  Thin(Host) =>
    Said(s2) \subseteq Said(rows) \cup UNION {Said(k) : k \in checkpoint}
                       \cup Said(Stored(Host).doc) \cup Said(handle[Host].doc)

\* The chat moves: the registry says so to every device, no device stays on the dead s2
\* room, and an open chat shows all that was said there - though seeds are aborted,
\* posts fail and devices die between any two steps of the flip.
CutoverEnds ==
  <>[]( /\ rowGen = 2
        /\ \A d \in Devices :
             /\ view[d] = 2 /\ handle[d].roomGen # 1
             /\ handle[d].open => Said(s2) \subseteq Said(handle[d].doc))

StoredBy(c) == \E x \in disk[IssuedBy[c]] : c \in x.doc.commands

\* A command that its device has stored is executed by the host, on whichever side of
\* the cutover either of them is when it is issued.
CommandsArrive == \A c \in Commands : StoredBy(c) ~> c \in processed

=============================================================================
