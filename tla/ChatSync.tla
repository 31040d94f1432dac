------------------------------- MODULE ChatSync ------------------------------
(***************************************************************************)
(* chat2 sync end to end: the hub (ChatRoom) and, on every device, the     *)
(* ChatClient session (crates/sync/src/chat_client.rs) with the engine     *)
(* around it: the live document, its sqlite snapshot and cursor            *)
(* (chat2_host.rs, store.rs), the open/evict life of the handle and the    *)
(* checkpoint worker (doc_host.rs).                                        *)
(*                                                                         *)
(* One chat, one room.  A device's `client' record is one open handle:     *)
(*   phase    closed (no handle), idle (dialing or backing off), hello,    *)
(*            fetch, backfill, steady                                      *)
(*   cursor   Shared.cursor; `base' the cursor the handle was opened with, *)
(*            which every retry of the first join starts from again        *)
(*   joined   the first join succeeded: a ChatClient is in the handle, its *)
(*            queue survives reconnects and it skips its own rows          *)
(*   after    checkpointSeq of the hello being caught up                   *)
(*   pending  batches not acknowledged yet (before the first join, the     *)
(*            handle's chat2_pending_local buffer)                         *)
(*   nudged   a queued wake-up of the push loop                            *)
(* A document is the set of operations it holds.                           *)
(***************************************************************************)
EXTENDS ChatRoom

CONSTANTS
  MaxPushOps,       \* MAX_PUSH_BYTES, counted in operations
  Checkpointers,    \* devices whose engine may post checkpoints
  FaultKinds,       \* faults of this run: subset of "cut", "crash", "evict" and
                    \* "overlap", a save between whose export and write others run
  Disturbed,        \* session phases in which a fault may strike or the
                    \* checkpoint worker may read the cursor
  Committers,       \* devices with a user at work (bound)
  MaxCommits,       \* bound: local commits per device after the initial one
  MaxFaults,        \* bound: faults in a behaviour
  MaxCheckpoints    \* bound: checkpoint jobs in a behaviour

Phases == {"closed", "idle", "hello", "fetch", "backfill", "steady"}

ASSUME ChatSyncAssumption ==
  /\ MaxPushOps \in 1 .. MaxRowOps
  /\ Checkpointers \subseteq Devices /\ Committers \subseteq Devices
  /\ FaultKinds \subseteq {"cut", "crash", "evict", "overlap"}
  /\ Disturbed \subseteq Phases
  /\ MaxCommits \in Nat /\ MaxFaults \in Nat /\ MaxCheckpoints \in Nat
  /\ Ops = Devices \X (0 .. MaxCommits)
  /\ BatchIds = Devices \X (1 .. MaxCommits + MaxFaults + 1)  \* a commit or an open

VARIABLES
  client,           \* device -> handle and session
  doc,              \* device -> live document ({} without a handle)
  disk,             \* device -> stored snapshot and cursor
  saving,           \* device -> snapshot of a save that is not written yet, in a set
  job,              \* device -> checkpoint worker of the open handle
  adrift,           \* device -> checkpoint POSTs of handles that are gone
  commits,          \* device -> local commits made
  minted,           \* device -> batch ids minted
  faults, checkpoints

engineVars == <<adrift, commits, minted, faults, checkpoints>>
vars == <<logVars, roomVars, client, doc, disk, saving, job, engineVars>>

NoClient == [phase |-> "closed", cursor |-> 0, base |-> 0, joined |-> FALSE,
             after |-> 0, pending |-> <<>>, nudged |-> FALSE]

NoJob == [stage |-> "none", seq |-> 0, ops |-> {}, frontier |-> {}]

Greater(a, b) == IF a > b THEN a ELSE b

Init ==
  /\ LogInit
  /\ RoomInit
  /\ client = [d \in Devices |-> NoClient]
  /\ doc = [d \in Devices |-> {}]
  /\ disk = [d \in Devices |-> [doc |-> {}, cursor |-> 0]]
  /\ saving = [d \in Devices |-> {}]
  /\ job = [d \in Devices |-> NoJob]
  /\ adrift = [d \in Devices |-> {}]
  /\ commits = [d \in Devices |-> 0]
  /\ minted = [d \in Devices |-> 0]
  /\ faults = 0
  /\ checkpoints = 0

Phase(d) == client[d].phase
IsOpen(d) == Phase(d) # "closed"

-----------------------------------------------------------------------------
(* The handle: open, local commits, snapshots *)

\* enqueue_update: an update over the cap is refused, not queued.
Enqueue(d, queue, ops) ==
  IF Cardinality(ops) <= MaxPushOps
  THEN Append(queue, [id |-> <<d, minted[d] + 1>>, ops |-> ops])
  ELSE queue

\* A handle without a stored snapshot starts from SessionDoc::init, the device's
\* operation 0.
StoredOrInit(d) == IF disk[d].doc = {} THEN {<<d, 0>>} ELSE disk[d].doc

\* What the handle starts from is stored before it is used.  With cursor 0 the
\* whole document is queued: nothing of it was ever acknowledged by the room.
Open(d) ==
  LET stored == StoredOrInit(d)
      first == disk[d].cursor = 0
  IN  /\ Phase(d) = "closed"
      /\ doc' = [doc EXCEPT ![d] = stored]
      /\ disk' = [disk EXCEPT ![d].doc = stored]
      /\ client' = [client EXCEPT
                      ![d] = [NoClient EXCEPT
                                !.phase = "idle",
                                !.cursor = disk[d].cursor,
                                !.base = disk[d].cursor,
                                !.pending = IF first THEN Enqueue(d, <<>>, stored) ELSE <<>>]]
      /\ minted' = [minted EXCEPT ![d] = IF first THEN @ + 1 ELSE @]
      /\ UNCHANGED <<logVars, roomVars, saving, job, adrift, commits, faults, checkpoints>>

Commit(d) ==
  LET op == <<d, commits[d] + 1>>
  IN  /\ IsOpen(d)
      /\ d \in Committers /\ commits[d] < MaxCommits
      /\ commits' = [commits EXCEPT ![d] = @ + 1]
      /\ minted' = [minted EXCEPT ![d] = @ + 1]
      /\ doc' = [doc EXCEPT ![d] = @ \cup {op}]
      /\ client' = [client EXCEPT ![d].pending = Enqueue(d, @, {op}),
                                  ![d].nudged = @ \/ client[d].joined]
      /\ UNCHANGED <<logVars, roomVars, disk, saving, job, adrift, faults, checkpoints>>

\* The debounced save exports the document, then stores it; the stored cursor stays.
SaveSnapshot(d) ==
  /\ IsOpen(d)
  /\ disk[d].doc # doc[d]
  /\ disk' = [disk EXCEPT ![d].doc = doc[d]]
  /\ UNCHANGED <<logVars, roomVars, client, doc, saving, job, engineVars>>

\* Nothing holds the session back between the two halves, and the debounce runs
\* after every change, those a row has already stored included.
BeginSave(d) ==
  /\ "overlap" \in FaultKinds
  /\ IsOpen(d)
  /\ saving[d] = {}
  /\ saving' = [saving EXCEPT ![d] = {doc[d]}]
  /\ UNCHANGED <<logVars, roomVars, client, doc, disk, job, engineVars>>

FinishSave(d) ==
  /\ \E snapshot \in saving[d] : disk' = [disk EXCEPT ![d].doc = snapshot]
  /\ saving' = [saving EXCEPT ![d] = {}]
  /\ UNCHANGED <<logVars, roomVars, client, doc, job, engineVars>>

-----------------------------------------------------------------------------
(* The session: dial, hello, catch-up plan *)

Dial(d) ==
  /\ Phase(d) = "idle"
  /\ client' = [client EXCEPT ![d].phase = "hello"]
  /\ sock' = [sock EXCEPT ![d] = [NoSocket EXCEPT !.open = TRUE, !.up = <<Hello>>]]
  /\ UNCHANGED <<stale, logVars, doc, disk, saving, job, engineVars>>

\* The next frame of the connection, and the socket once it is read and `sent' is
\* written (a socket the hub has closed takes no more frames).
Inbound(d, kind) == sock[d].down # <<>> /\ Head(sock[d].down).kind = kind
Frame(d) == Head(sock[d].down)
Consume(d, sent) ==
  sock' = [sock EXCEPT ![d].down = Tail(@), ![d].up = IF sock[d].open THEN @ \o sent ELSE @]

\* plan_catch_up.  A cursor beyond the head counts as none.
HonestCursor(d, state) == IF client[d].cursor > state.stats.head THEN 0 ELSE client[d].cursor
\* Mutant: the frontier is not consulted.
TrustCursor(d, state) == TRUE

Contained(d, state) == ~ state.stats.stored \/ state.frontier \subseteq doc[d]
RowsOnlyAfter(d, state) ==
  IF state.stats.stored THEN Greater(HonestCursor(d, state), state.stats.ckptSeq)
                        ELSE HonestCursor(d, state)

ReceiveState(d) ==
  /\ Phase(d) = "hello"
  /\ Inbound(d, "state")
  /\ \/ /\ Contained(d, Frame(d))
        /\ LET after == RowsOnlyAfter(d, Frame(d))
           IN  /\ client' = [client EXCEPT
                               ![d].phase = "backfill",
                               ![d].cursor = IF after < @ THEN after ELSE @]
               /\ Consume(d, <<RowsReq(after, client[d].joined)>>)
     \/ /\ ~ Contained(d, Frame(d))
        /\ client' = [client EXCEPT ![d].phase = "fetch", ![d].after = Frame(d).stats.ckptSeq]
        /\ Consume(d, <<>>)
  /\ UNCHANGED <<stale, logVars, doc, disk, saving, job, engineVars>>

\* GET checkpoint serves the blob of now, which may be newer than the hello's;
\* it is merged and stored under the hello's checkpointSeq.
FetchCheckpoint(d) ==
  LET after == client[d].after
      merged == doc[d] \cup checkpoint.ops
  IN  /\ Phase(d) = "fetch"
      /\ doc' = [doc EXCEPT ![d] = merged]
      /\ disk' = [disk EXCEPT ![d] = [doc |-> merged, cursor |-> after]]
      /\ client' = [client EXCEPT ![d].phase = "backfill", ![d].cursor = after]
      /\ sock' = [sock EXCEPT ![d].up = IF sock[d].open
                                        THEN Append(@, RowsReq(after, client[d].joined))
                                        ELSE @]
      /\ UNCHANGED <<stale, logVars, saving, job, engineVars>>

-----------------------------------------------------------------------------
(* Frames of the backfill and of the steady state *)

Streaming(d) == Phase(d) \in {"backfill", "steady"}

\* Mutant: the cursor is stored before the row is imported.
ReceiveRowStoringFirst(d) ==
  /\ Streaming(d)
  /\ Inbound(d, "row")
  /\ doc' = [doc EXCEPT ![d] = @ \cup Frame(d).ops]
  /\ disk' = [disk EXCEPT ![d] = [doc |-> doc[d], cursor |-> Frame(d).seq]]
  /\ client' = [client EXCEPT ![d].cursor = Greater(@, Frame(d).seq)]
  /\ Consume(d, <<>>)
  /\ UNCHANGED <<stale, logVars, saving, job, engineVars>>

\* apply_row imports, then stores document and row.seq in one statement.
ReceiveRow(d) ==
  /\ Streaming(d)
  /\ Inbound(d, "row")
  /\ LET merged == doc[d] \cup Frame(d).ops
         seq == Frame(d).seq
     IN  /\ doc' = [doc EXCEPT ![d] = merged]
         /\ disk' = [disk EXCEPT ![d] = [doc |-> merged, cursor |-> seq]]
         /\ client' = [client EXCEPT ![d].cursor = Greater(@, seq)]
  /\ Consume(d, <<>>)
  /\ UNCHANGED <<stale, logVars, saving, job, engineVars>>

Retire(queue, id) == KeepAt(queue, {n \in DOMAIN queue : queue[n].id # id})

\* Mutant: the cursor names the next row instead of the last one.
ReceiveAckPastRow(d) ==
  /\ Streaming(d)
  /\ Inbound(d, "ack")
  /\ LET cursor == Greater(client[d].cursor, Frame(d).seq + 1)
     IN  /\ client' = [client EXCEPT ![d].cursor = cursor,
                                     ![d].pending = Retire(@, Frame(d).id)]
         /\ disk' = [disk EXCEPT ![d] = [doc |-> doc[d], cursor |-> cursor]]
  /\ Consume(d, <<>>)
  /\ UNCHANGED <<stale, logVars, doc, saving, job, engineVars>>

ReceiveAck(d) ==
  /\ Streaming(d)
  /\ Inbound(d, "ack")
  /\ LET cursor == Greater(client[d].cursor, Frame(d).seq)
     IN  /\ client' = [client EXCEPT ![d].cursor = cursor,
                                     ![d].pending = Retire(@, Frame(d).id)]
         /\ disk' = [disk EXCEPT ![d] = [doc |-> doc[d], cursor |-> cursor]]
  /\ Consume(d, <<>>)
  /\ UNCHANGED <<stale, logVars, doc, saving, job, engineVars>>

PushAll(d) == [i \in 1 .. Len(client[d].pending) |-> Push(client[d].pending[i])]

\* Mutant: a rejoin waits for the next local commit to push again.
ReceiveRowsDoneWithoutReplay(d) ==
  /\ Phase(d) = "backfill"
  /\ Inbound(d, "rowsDone")
  /\ client' = [client EXCEPT
                  ![d].phase = "steady",
                  ![d].joined = TRUE,
                  ![d].nudged = @ \/ (~ client[d].joined /\ client[d].pending # <<>>)]
  /\ Consume(d, <<>>)
  /\ UNCHANGED <<stale, logVars, doc, disk, saving, job, engineVars>>

\* A rejoin replays its queue at once; the first join hands the buffered updates
\* to the new client, which wakes its push loop.
ReceiveRowsDone(d) ==
  /\ Phase(d) = "backfill"
  /\ Inbound(d, "rowsDone")
  /\ client' = [client EXCEPT
                  ![d].phase = "steady",
                  ![d].joined = TRUE,
                  ![d].nudged = @ \/ (~ client[d].joined /\ client[d].pending # <<>>)]
  /\ Consume(d, IF client[d].joined THEN PushAll(d) ELSE <<>>)
  /\ UNCHANGED <<stale, logVars, doc, disk, saving, job, engineVars>>

\* Mutant: the queue is drained by the push instead of by the acks.
PushAndForget(d) ==
  /\ Phase(d) = "steady"
  /\ client[d].nudged
  /\ client' = [client EXCEPT ![d].nudged = FALSE, ![d].pending = <<>>]
  /\ sock' = [sock EXCEPT ![d].up = IF sock[d].open THEN @ \o PushAll(d) ELSE @]
  /\ UNCHANGED <<stale, logVars, doc, disk, saving, job, engineVars>>

\* A nudge pushes the whole queue, batches already in flight included.
PushPending(d) ==
  /\ Phase(d) = "steady"
  /\ client[d].nudged
  /\ client' = [client EXCEPT ![d].nudged = FALSE]
  /\ sock' = [sock EXCEPT ![d].up = IF sock[d].open THEN @ \o PushAll(d) ELSE @]
  /\ UNCHANGED <<stale, logVars, doc, disk, saving, job, engineVars>>

-----------------------------------------------------------------------------
(* The end of a session, of a handle, of a process *)

InFlightPushes(d) == KeepAt(sock[d].up, {n \in DOMAIN sock[d].up : IsPush(sock[d].up[n])})

DropSocket(d) ==
  /\ sock' = [sock EXCEPT ![d] = NoSocket]
  /\ stale' = [stale EXCEPT ![d] = @ \o InFlightPushes(d)]

\* Mutant: the retry of a first join starts with an empty buffer.
EndSessionForgetting(d) ==
  /\ DropSocket(d)
  /\ client' = [client EXCEPT ![d].phase = "idle",
                              ![d].cursor = IF client[d].joined THEN @ ELSE client[d].base,
                              ![d].pending = IF client[d].joined THEN @ ELSE <<>>]
  /\ UNCHANGED <<logVars, doc, disk, saving, job, adrift, commits, minted, checkpoints>>

\* A failed first join is retried by the engine with a new client, which starts
\* from the cursor the handle was opened with.
EndSession(d) ==
  /\ DropSocket(d)
  /\ client' = [client EXCEPT ![d].phase = "idle",
                              ![d].cursor = IF client[d].joined THEN @ ELSE client[d].base]
  /\ UNCHANGED <<logVars, doc, disk, saving, job, adrift, commits, minted, checkpoints>>

\* The hub closed the socket and everything it had sent is read.
SeeClose(d) ==
  /\ Phase(d) \notin {"closed", "idle", "fetch"}
  /\ ~ sock[d].open
  /\ sock[d].down = <<>>
  /\ EndSession(d)
  /\ UNCHANGED faults

MayFault(d, kind) ==
  /\ kind \in FaultKinds
  /\ faults < MaxFaults
  /\ Phase(d) \in Disturbed
  /\ faults' = faults + 1

\* Connection lost, deadline missed, or redial requested.
Cut(d) ==
  /\ Phase(d) \notin {"closed", "idle"}
  /\ MayFault(d, "cut")
  /\ EndSession(d)

\* The flag that allows one checkpoint POST at a time is the handle's: a POST already
\* sent goes on without it.
CloseHandle(d) ==
  /\ DropSocket(d)
  /\ client' = [client EXCEPT ![d] = NoClient]
  /\ doc' = [doc EXCEPT ![d] = {}]
  /\ job' = [job EXCEPT ![d] = NoJob]
  /\ adrift' = [adrift EXCEPT ![d] = @ \cup {post \in {job[d]} : post.stage = "sent"}]
  /\ UNCHANGED <<logVars, commits, minted, checkpoints>>

\* The engine process dies.
Crash(d) ==
  /\ IsOpen(d)
  /\ MayFault(d, "crash")
  /\ CloseHandle(d)
  /\ saving' = [saving EXCEPT ![d] = {}]
  /\ UNCHANGED disk

\* LRU eviction: the handle is removed, its queue with it, and then a last snapshot
\* is stored, outside the lock: with "overlap", after other steps, a reopening among
\* them (a crash between the two is a Crash instead).
Evict(d) ==
  /\ IsOpen(d)
  /\ job[d].stage \in {"none", "sent"}
  /\ MayFault(d, "evict")
  /\ CloseHandle(d)
  /\ \/ /\ disk' = [disk EXCEPT ![d].doc = doc[d]]
        /\ UNCHANGED saving
     \/ /\ "overlap" \in FaultKinds
        /\ saving[d] = {}
        /\ saving' = [saving EXCEPT ![d] = {doc[d]}]
        /\ UNCHANGED disk

-----------------------------------------------------------------------------
(* spawn_chat2_checkpoint: cursor, then snapshot, then frontier, then POST *)

BeginCheckpoint(d) ==
  /\ d \in Checkpointers
  /\ client[d].joined
  /\ Phase(d) \in Disturbed
  /\ job[d].stage = "none"
  /\ checkpoints < MaxCheckpoints
  /\ checkpoints' = checkpoints + 1
  /\ job' = [job EXCEPT ![d] = [NoJob EXCEPT !.stage = "cursor", !.seq = client[d].cursor]]
  /\ UNCHANGED <<logVars, roomVars, client, doc, disk, saving, adrift, commits, minted, faults>>

ExportSnapshot(d) ==
  /\ job[d].stage = "cursor"
  /\ job' = [job EXCEPT ![d].stage = "snapshot", ![d].ops = doc[d]]
  /\ UNCHANGED <<logVars, roomVars, client, doc, disk, saving, engineVars>>

\* Mutant: the covered sequence number is read when the snapshot already exists.
PostCheckpointLateCursor(d) ==
  /\ job[d].stage = "snapshot"
  /\ job' = [job EXCEPT ![d].stage = "sent", ![d].seq = client[d].cursor, ![d].frontier = doc[d]]
  /\ UNCHANGED <<logVars, roomVars, client, doc, disk, saving, engineVars>>

PostCheckpoint(d) ==
  /\ job[d].stage = "snapshot"
  /\ job' = [job EXCEPT ![d].stage = "sent", ![d].frontier = doc[d]]
  /\ UNCHANGED <<logVars, roomVars, client, doc, disk, saving, engineVars>>

\* checkpoint_post: committed, or refused by the log with 409.
StoreCheckpoint(d) ==
  /\ job[d].stage = "sent"
  /\ \/ CommitCheckpoint(job[d].seq, job[d].ops, job[d].frontier)
     \/ /\ FloorRegression(job[d].seq) \/ AheadOfHead(job[d].seq)
        /\ UNCHANGED logVars
  /\ job' = [job EXCEPT ![d] = NoJob]
  /\ UNCHANGED <<roomVars, client, doc, disk, saving, engineVars>>

LoseCheckpoint(d) ==
  /\ job[d].stage = "sent"
  /\ FaultKinds # {}
  /\ job' = [job EXCEPT ![d] = NoJob]
  /\ UNCHANGED <<logVars, roomVars, client, doc, disk, saving, engineVars>>

\* A POST whose handle is gone is committed, or refused, or lost.
LateCheckpoint(d) ==
  \E post \in adrift[d] :
    /\ CommitCheckpoint(post.seq, post.ops, post.frontier) \/ UNCHANGED logVars
    /\ adrift' = [adrift EXCEPT ![d] = @ \ {post}]
    /\ UNCHANGED <<roomVars, client, doc, disk, saving, job, commits, minted, faults, checkpoints>>

-----------------------------------------------------------------------------

Hub(d) ==
  /\ HubStep(d)
  /\ UNCHANGED <<client, doc, disk, saving, job, engineVars>>

Environment(d) ==
  /\ HandleStalePush(d) \/ LoseStale(d)
  /\ UNCHANGED <<client, doc, disk, saving, job, engineVars>>

Session(d) ==
  \/ ReceiveState(d) \/ FetchCheckpoint(d)
  \/ ReceiveRow(d) \/ ReceiveAck(d) \/ ReceiveRowsDone(d)
  \/ PushPending(d) \/ SeeClose(d)

CheckpointWorker(d) ==
  \/ BeginCheckpoint(d) \/ ExportSnapshot(d) \/ PostCheckpoint(d)
  \/ StoreCheckpoint(d) \/ LoseCheckpoint(d) \/ LateCheckpoint(d)

Next ==
  \E d \in Devices :
    \/ Open(d) \/ Commit(d) \/ Dial(d)
    \/ SaveSnapshot(d) \/ BeginSave(d) \/ FinishSave(d)
    \/ Hub(d) \/ Environment(d) \/ Session(d) \/ CheckpointWorker(d)
    \/ Cut(d) \/ Crash(d) \/ Evict(d)

Spec == Init /\ [][Next]_vars

\* What keeps running while a handle is open: the hub's loop for its socket, the
\* session's loop, and the dial loop with its backoff.  Users, saves, checkpoints
\* and the pushes of dead sockets owe nothing.
Fairness ==
  \A d \in Devices : WF_vars(Hub(d)) /\ WF_vars(Session(d)) /\ WF_vars(Dial(d))

FairSpec == Spec /\ Fairness
-----------------------------------------------------------------------------
(* Properties *)

TypeOK ==
  /\ LogTypeOK
  /\ \A d \in Devices :
       /\ Phase(d) \in Phases
       /\ client[d].cursor \in 0 .. headSeq
       /\ client[d].base \in 0 .. headSeq
       /\ disk[d].cursor \in 0 .. headSeq
       /\ doc[d] \subseteq Ops /\ disk[d].doc \subseteq Ops
       /\ \A i \in DOMAIN client[d].pending : client[d].pending[i].id \in BatchIds
       /\ job[d].stage \in {"none", "cursor", "snapshot", "sent"}
       /\ sock[d].ready => sock[d].open \/ sock[d].bcast = <<>>

\* Operations of the rows the room accepted.
RoomOps == UNION {accepted[s].ops : s \in 1 .. headSeq}

\* The stored checkpoint holds every row it claims to cover.  The hub prunes
\* those rows on the word of the client that posted it, so this is what stands
\* between a checkpoint and the loss of updates for every later reader.
CheckpointComplete ==
  checkpoint.stored =>
    \A s \in 1 .. checkpoint.seq : accepted[s].ops \subseteq checkpoint.ops

\* Row s is in the document, or the next hello will find the checkpoint frontier
\* missing from it and fetch the checkpoint that covers s.
HeldOrHealed(s, document) ==
  \/ accepted[s].ops \subseteq document
  \/ s <= checkpoint.seq /\ ~ checkpoint.frontier \subseteq document

\* Between backfills the cursor of a session never names a row the document
\* neither holds nor will be made to fetch: a redial "rows after cursor" skips
\* nothing for good.
NoSilentGap ==
  \A d \in Devices :
    Phase(d) \notin {"closed", "backfill"} =>
      \A s \in 1 .. client[d].cursor : HeldOrHealed(s, doc[d])

\* No backfill begins before every row covered by the checkpoint the room announced
\* in its STATE is in the document: those rows will never be sent.
CheckpointedUpTo(d) == IF Phase(d) = "hello" THEN Frame(d).stats.ckptSeq ELSE client[d].after
CatchUpIsWhole ==
  [][\A d \in Devices :
       Phase(d) \in {"hello", "fetch"} /\ Phase(d)' = "backfill" =>
         \A s \in 1 .. CheckpointedUpTo(d) : accepted[s].ops \subseteq doc'[d]]_vars

\* The same of what a restart finds: snapshot and cursor are written together,
\* by rows, acks, checkpoints and debounced saves in any order.
DiskAgreesWithCursor ==
  \A d \in Devices :
    Phase(d) # "backfill" =>
      \A s \in 1 .. disk[d].cursor : HeldOrHealed(s, disk[d].doc)

\* A caught-up socket misses nothing live: every row above the cursor is held,
\* queued in the room's broadcast for this socket, or on its way down - or was
\* pruned while the session was catching up.
OnItsWay(d) ==
  (UNION {sock[d].down[i].ops : i \in {j \in DOMAIN sock[d].down : sock[d].down[j].kind = "row"}})
  \cup (UNION {sock[d].bcast[i].frame.ops :
                  i \in {j \in DOMAIN sock[d].bcast : sock[d].bcast[j].frame.kind = "row"}})
RelayIsComplete ==
  \A d \in Devices :
    Phase(d) = "steady" /\ sock[d].open =>
      \A s \in client[d].cursor + 1 .. headSeq :
        accepted[s].ops \subseteq doc[d] \cup OnItsWay(d) \/ s <= seqFloor

\* A queued batch leaves the queue of a live handle only when the room has it.
AckedIsDurable ==
  [][\A d \in Devices : IsOpen(d) /\ IsOpen(d)' =>
       \A i \in DOMAIN client[d].pending :
         \/ \E j \in DOMAIN client'[d].pending : client'[d].pending[j] = client[d].pending[i]
         \/ client[d].pending[i].ops \subseteq RoomOps']_vars

\* Whatever a device committed and its document still holds is in the room or
\* queued for it, once the device is caught up.
OutboxKept ==
  \A d \in Devices :
    Phase(d) = "steady" =>
      \A op \in doc[d] :
        op[1] = d => \/ op \in RoomOps \cup checkpoint.ops
                     \/ \E i \in DOMAIN client[d].pending : op \in client[d].pending[i].ops

\* No batch is stored twice, however often it is pushed.
ReplayIsNoOp ==
  \A s, t \in 1 .. headSeq : accepted[s].batch = accepted[t].batch => s = t

\* Open handles of the chat end up with the same document, in which nothing any
\* of them ever committed is missing, once commits and faults are over.
Converges ==
  <>[](\A d, e \in Devices :
         IsOpen(d) /\ IsOpen(e) =>
           doc[d] = doc[e] /\ (\A n \in 0 .. commits[d] : <<d, n>> \in doc[e]))

=============================================================================
