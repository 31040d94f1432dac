# komet: a verification project

komet keeps a chat as a CRDT document on every device of its user. The devices
exchange updates through a *room* on the sync server; one of them, the chat's
host, also executes the commands ("run this", "steer", "stop") that any device
writes into the document, by driving a coding agent's process. Which chats there
are, and who hosts them, is a *registry* of last-writer-wins rows with a room of
its own, and a device calls another through a *relay*. Chats that still live in a
room of the older protocol, s2, are moved to a chat2 room by their host, the
*cutover*. The modules here model these parts, check them with TLC, and prove the
cores of seven of them for every size with TLAPS.

Paths below are relative to the repository; `sync`, `sync-server`, `engine`, `doc`
and `rpc` stand for `src/crates/<name>/src` of this checkout.

## 1. Inventory

| Part | State it keeps | Operations | Talks to |
|---|---|---|---|
| chat2 room log, `sync-server/chat_log.rs` | rows by sequence number with a UNIQUE batch index, `headSeq`, `seqFloor`, one checkpoint (two blobs) | `append`, `rows_after`, `stats`, `commit_checkpoint` | the hub |
| chat2 hub, `sync-server/chat_room.rs` | per room a broadcast channel, per socket a `serve` loop (ready, own receiver) | HELLO/STATE, ROWS_REQ/ROWS/ROWS_DONE, PUSH/ACK, checkpoint GET and POST, quota, presence, probe, sidecars | log, sockets |
| chat2 client, `sync/chat_client.rs` | cursor, push queue, join state, quota drain | dial, hello, catch-up plan, checkpoint fetch, backfill, push, ack, reconnect | hub, sink |
| engine wiring, `engine/chat2_host.rs`, `engine/doc_host.rs`, `sync/store.rs` | open handles, live documents, snapshot and cursor in sqlite, jobs | open, commit, save, evict, first-join retry, checkpoint worker | client, store, executor |
| seeding and cutover, `engine/doc_host.rs`, `doc/rebuild.rs` | epoch and rollback copy of a stored document, quiet waits, seeds in flight, retired handles, `roomGen` in the registry | sweep, quiet wait, rebuild, seed checkpoint, seal, flip, retirement; adopt, birth, watcher, salvage | both rooms, registry, executor |
| command ledger and executor, `doc/commands.rs`, `engine/doc_host.rs`, `sync/store.rs` | commands with a status in the document; the processed ledger in sqlite | `queue_command`, `evaluate_command`, `drain_commands`, `resolve_command` | session runs, document |
| session runs, `engine/sessions.rs` | a map of live runs; per run a mailbox, a ledger of routed steers, a cancel flag, a parked question; the chat's status | dispatch, steer, interrupt, answers, `drive_run`, watchdog, reaper, `recover_stale` | executor, harness, document |
| registry, `doc/registry.rs`, `sync/registry.rs`, `sync-server/registry.rs`, `sync-server/lib.rs` | rows with a clock per field; on a replica a cursor and pending batches; on the server a table in sqlite and a sequence | local writes, compaction, push, ack, state, broadcast, merge, persist | workspace host |
| workspace host, `engine/workspace_host.rs` | the registry document, its snapshot, presence | open, mutate, debounced save, boot rows, claims | registry client |
| device relay, `sync-server/device_relay.rs`, `rpc/device_room.rs`, `rpc/{client,server}.rs` | the room's host and clients, queued nudges; the host's virtual connections; cached links, dial locks, cooldowns | join, route, bounce, leave, nudge; serve; dial, probe, evict, invalidate | every device-addressed call |
| run journal, `engine/run_journal.rs` | event log per run | append, recover | runs |
| s2 room client, `sync/room.rs` | the older protocol's version vectors | join, update, backfill | documents not yet seeded |
| harness adapters, terminals, files, diffs, updates, UI | outside processes and views | | |

What is hard here, and what makes each part correct:

* **Room log.** Replays after a lost ack, pruning, checkpoint posts out of order.
  The table is always the exact suffix above its floor; a row is never rewritten;
  a pruned row is covered by the stored checkpoint.
* **Hub.** One loop per socket, a biased select, a bounded broadcast channel, and
  handlers that read the log twice while other sockets append. A caught-up socket
  misses nothing.
* **Client and engine.** A cursor in memory, one on disk, and a document that must
  agree with each; rows relayed live during a backfill; connections lost in every
  phase; saves, evictions and checkpoints by other tasks. Nothing is skipped for
  good, nothing committed is lost, all documents converge.
* **Cutover.** A device rewrites the whole history of a chat while others still write to the
  old room, in five steps that cannot be one transaction; the others discard their
  documents when they hear of it. Nothing said is forked away, nothing is shown
  twice, no device is left in the dead room, and a command on its way arrives.
* **Executor.** A crash between ledger and side effect, eviction while a command
  runs, clocks of several devices. Commands take effect at most once, in order,
  what is reported is what happened, and none is forgotten.
* **Session runs.** A message is in a mailbox before it is in the ledger that makes
  it safe; an ending run claims its ledger while senders still look at it; several
  callers dispatch at once. A message that was taken is run, refused, or held by
  somebody; a live agent can be reached; a stop ends its run; the status is true.
* **Registry.** Clocks per field, tombstones, batches pushed twice, a queue that is
  compacted, broadcasts outside the lock, a server that loses its last transactions
  or its whole table. No write is lost, rows only move forward, replicas converge.
* **Relay.** Sockets that die without a word at either end, a host replaced by its
  successor before the relay saw it leave, calls without a timeout. Calls end,
  nudges arrive, the host does not go on working for clients that left.

The hazards, each at its line and with the properties aimed at it, are in
`PROJECT.json`.

## 2. Modules

| Module | Models | Built on |
|---|---|---|
| `TrimmedLog` | what a room promises its readers: a write-once log, forgotten by prefixes only | |
| `ChatLog` | `chat_log.rs`: table, counters, checkpoint; implements `TrimmedLog` | `TrimmedLog` (INSTANCE) |
| `ChatRoom` | `chat_room.rs`: sockets and their loops | `ChatLog`, `SequenceParts` |
| `ChatSync` | client, engine wiring, store, checkpoint worker on each device | `ChatRoom` |
| `ChatSyncProofs` | theorems about `ChatLog`, `ChatRoom` and `ChatSync` | `ChatSync`, `SequenceLemmas`, TLAPS |
| `ChatGapProofs` | theorems about cursors and checkpoints of `ChatSync` | `ChatSyncProofs` |
| `MCChatSync` | constant values for TLC | `ChatSync` |
| `ChatCutover` | the move of a chat from its s2 room to a chat2 room | |
| `ChatCutoverProofs` | theorems about `ChatCutover` | `ChatCutover`, TLAPS |
| `MCChatCutover` | constant values for TLC | `ChatCutover` |
| `CommandLedger` | the executor on the host and what it does to the run | |
| `CommandLedgerProofs` | theorems about `CommandLedger` | `CommandLedger`, TLAPS |
| `SequenceParts` | the entries of a sequence at some positions, as a recursive function | |
| `SequenceLemmas` | what the sequence operators of the models return | `SequenceParts`, TLAPS |
| `RegistryRow` | one row and what an operation does to it: `apply_op`, clocks, tombstones | `SequenceParts` |
| `RegistryRoom` | the server's table and its sockets | `RegistryRow` |
| `RegistrySync` | replica, client session and snapshot on each device | `RegistryRoom` |
| `RegistrySyncProofs` | theorems about `RegistryRow` and `RegistrySync` | `RegistrySync`, `SequenceLemmas`, TLAPS |
| `MCRegistrySync` | constant values for TLC | `RegistrySync` |
| `SessionRuns` | the runs of one chat and everybody who sends, stops and answers | |
| `SessionRunsProofs` | theorems about `SessionRuns` | `SessionRuns`, `SequenceLemmas` |
| `DeviceRelay` | the room of a device, its host, the links and calls of a controlling device | |
| `DeviceRelayProofs` | theorems about `DeviceRelay` | `DeviceRelay`, `SequenceLemmas` |

Operators whose comment begins with "Mutant" are plausible bugs; they are used
by no specification, only substituted, one at a time, to see that a property
notices.

### Correspondence

**ChatLog.** `rows`, `headSeq`, `seqFloor` and `checkpoint` are the sqlite table and
its meta rows; each transaction is one action (`AppendRow`, `CommitCheckpoint`).
`accepted` is a history variable: every row ever appended. A payload is the set
of CRDT operations in it, so size limits count operations, and a frontier (an
encoded version vector) is the set of operations it claims. The replay branch of
`append` changes nothing and is a guard here; `ChatRoom` acts on it.

**ChatRoom.** `sock[d]` is a connection: frames up, frames down, waiting broadcast
events, `ready`, and what the loop still owes the frame it is handling. HELLO reads
statistics and then the frontier (`HandleHello`, `SendState`); ROWS_REQ reads the
rows and then the head (`HandleRowsReq`, `FinishRows`); other sockets append in
between. PUSH is one action because append and fan-out hold the publish lock.
Frames wait while events wait: the select is biased. A channel longer than
`BroadcastDepth` closes the socket (`CloseLagged`). In the code each receiver gets every
event and drops those not meant for it; the model queues only the ones addressed
to it, so a socket lags a little later than in the code, and `BroadcastDepth = 1`
makes up for it. Pushes of a connection the client gave up may still arrive
(`HandleStalePush`) or not (`LoseStale`).

**ChatSync.** `client[d]` is an open handle with its session, `doc[d]` the live document,
`disk[d]` snapshot and cursor in sqlite. `Open`, `Commit`, `SaveSnapshot`, `Evict` are
`doc_host.rs`; `Dial` to `PushPending` are the session in `chat_client.rs`;
`EndSession` covers both kinds of redial: a joined client keeps its queue and
cursor, a failed first join starts a new client from the cursor the handle was
opened with. The checkpoint worker's reads (cursor, snapshot, frontier, POST) are
separate steps; the POST is on its way until the room has answered, and since the flag that allows one at a
time belongs to the handle, the POST of a handle that is gone is still on its way (`adrift`, `LateCheckpoint`)
while the reopened one may begin another. A row and its cursor are stored by one statement, hence one step;
a debounced save, and the last save of an eviction, which `evict_over_budget` makes after it has removed the
handle and let go of the lock, are one step unless the run lists the fault "overlap", which
splits each into export and store, as the code does: a reopening may come in between.

**ChatCutover.** `handle[d]` is the entry in `DocHost`'s map, `disk[d]` the stored snapshot with its
epoch, `rollback[d]` the copy kept as `<chat>.pre-chat2`, `view[d]` the `roomGen` the device's registry
shows, `signal` the watchers with a change to look at. `StartSeed`, `PostCheckpoint`, `Seal`, `StoreThin`,
`Flip` and `Retire` are `seed_chat2` and what calls it, cut where the code awaits or where
another task can look; from `Seal` to `Retire` the code does not await, and unless the run lists
"overlap" nothing else of that device runs in between (`Undisturbed`). `OpensOn`, `Adopt`, `Born`
and `Load` are the branches of `open`, `CutoverWatch` the registry watcher, `Sweep` the migration,
`Salvage` the repair at boot. A rebuild's messages carry a tag no document uses, because CRDT objects
of two rebuilds do not merge: two tags on one message are a message shown twice. The
rooms are reduced to merging (`ChatSync` has the protocol), a run to its message
(`SessionRuns`), and a drain to one step (`CommandLedger`).

**CommandLedger.** A command is its position in the document's list; `processed` is the
ledger. A drain is the loop `scan -> found -> marking -> executing -> resolving`, one
action per step of `drain_commands`, so that a crash or an eviction can come between
any two. Statuses are kept in the open document, in the document of an evicted
handle whose drain goes on, and in what a later open will find. The run is
reduced to what commands and supersession see: is it live, how long is the
transcript, which message is being streamed. Whether a steer or a run reaches the
live run or begins a fresh one depends on the harness and its mailbox, and is a
choice of the model (`SessionRuns` models how it is made); so is a refusal by the
engine, before or after it stopped the run it was to replace. Issuing devices stamp
commands with arbitrary clocks.

**RegistryRow.** A row is `missing`, `live` or `deleted`, with a value and a clock per
field and a deletion clock; `ApplyOp` is `apply_op` branch by branch. A clock is a
hybrid logical clock, encoded (`EncodeHlc`) so that order on numbers is the order on
the code's strings: milliseconds, counter, device.

**RegistryRoom.** `server` is the table in memory, `disk` the one in sqlite: `Merge` is
`push` with its `persist`, which may fail and is acknowledged all the same.
`publishing` holds batches that were merged and whose rows are not broadcast yet:
the lock is released before (`FinishPush`), so another batch may be broadcast first. A socket
has the frames sent to it directly and the broadcast receiver's, both of which its
loop writes out; one that lags is sent a whole state instead (`SendLaggedState`).

**RegistrySync.** `doc[d]` is `RegistryDoc`: the server's rows, cursor, pending batches,
clock. What the device shows is `View`, the rows with the pending operations on top.
`LocalWrite` is one `mutate` of the workspace host: which operations it is made of
depends on what it sees (`WriteOps`), and it nudges the session only if `slot[d]`, the host's slot for its
client, is filled. The first join makes it "joined" when the session becomes ready; the host fills it (`FillSlot`)
when it comes back from `connect_via_tuned` and from its look at the token, which may be after the session has pushed.
A slot once filled stays so until the process ends. `SaveSnapshot` and `Crash` compact the queue as
`compact_pending` does; `ApplyState` has the code's three cases: a full table ahead
of the cursor, one behind it (a server that lost its table: keep and re-seed), and
the rows since the cursor. History variables mark what a property must except:
`torn` (a connection ended with rows on their way that the cursor had passed),
`overtaken` (rows were broadcast after a later batch's), `epoch` and `mistaken`
(below, section 4), and `unheard` (a device wrote on a ready session while the slot was empty, and has not pushed since).

**SessionRuns.** `current` is the map `runs` restricted to one chat; `run[r]` a run's
handle and task; `caller[c]` whoever is inside `dispatch_inner`, `steer` or `interrupt`: the
executor, the pass after a boot, and for each ended run the task that dispatches
what it left. The steps follow the awaits and locks: `Route` (try_send into the mailbox),
`PushLedger`, `Confirm` (is the run still live), `Reclaim` or `ShowWorking`, `Replace` and
`StopWaited` (interrupt the run in the way, wait a bounded time), `Refuse` (the request cannot be served: an ended
run's task then shows Errored, a model that is not offered shows Idle, any other error returns with the status as it is), `Launch`
(insert into the map, whatever it holds). `drive_run` goes `starting -> turn <-> parked ->
ended -> claimed -> leaving -> gone`, where the last three are the exit: it claims the
ledger, removes the handle, then writes the status and dispatches the orphans.
`fate[m]` is a history variable.

**DeviceRelay.** `room` is a `DeviceRoom`; `session[s]` are the host's sockets, one after the
other, `link[l]` those of the controlling device, each with the frames on their way up and
down. A socket is *closed* (the other end reads it, behind what was sent before) or
*cut* (nobody is told; the device's end gives up after its silence lease, the
server's may notice or not). `GetLink`, `Dial`, `Connected`, `DialFails` are `LinkCache::client`; `Put`
and `Fail` what `forward` does with the link it got, without a timeout, dropping
whatever link is cached when its call failed. `nudge` and `stranded` are history variables.

Where the code filters a queue the models say `KeepAt` (the entries at some positions), and `RemoveFirst` where an
entry occurs once (a chat in the nudge queue, a message in a ledger, both proved): about these the
prover can reason, about `SelectSeq`'s recursion it cannot. An operation of the registry may carry
the clock 0: one that re-seeds a row all of whose fields were removed.

### Abstractions

Left out everywhere: wording, logs, encodings.

* *Room:* push quota, presence, probe, sidecars, and the error replies that only a
  client that breaks the protocol can cause (no hello, empty or oversized push).
* *Client:* quota drain and wake hints, which only move the time of a redial.
* *Engine:* wiped rooms, sign-out, watchers (a watched document is not evicted: then
  `Evict` just does not happen). When a handle is removed its session ends with it, while in the code a task that
  still holds the handle keeps it for as long; a checkpoint worker's reads are one stretch without an await, so an eviction
  comes before or after them.
* *Cutover:* `open` is one step, though it reads the registry before it inserts the handle; the
  processed ledger of a device that took the chat for its own; the sidecar; the engine without an
  edge. A seed's checkpoint has cursor 0, and later checkpoints are `ChatSync`'s.
* *Executor:* respondInput, permit and edit commands, claiming a chat, a second host,
  the pass started when the executor is wired (before any handle is open), storage
  errors of the document after a message was handed to the run.
* *Registry:* presence, probe, the tombstones' garbage collection (gcFloor), the
  split of a push at 400 operations. A socket's direct queue is merged into `down`.
* *Runs:* the agent's events reach the run's task as they are made (only the
  engine's own channel of questions and answers is a queue); inserting the handle,
  the status and spawning the task are one step of `Launch`; the loop that waits for a
  session to come up is the stage "starting". What a run writes into the document,
  titles, the mirror of a session in the registry, attachments and MCP servers are
  left out. `StopWaited` may give up at any time: the code waits 5 s for a task whose
  own grace is 3 s.
* *Relay:* connecting and joining are one step; a link's number is used again once
  nothing refers to it; cooldowns and the probe's timeout may end at any time;
  streams, sign-out and bounded queues are left out.

## 3. Runs

| Run | Question | Bounds | Result |
|---|---|---|---|
| `chat_log` | Is the table always the exact, faithful suffix, and does it implement `TrimmedLog`? | 2 devices, 2 batch ids, 2 operations, sequence numbers to 3, rows of 1 operation; any checkpoint | holds, 17 525 states |
| `sync_safe` | Can a cursor name a row the document lacks? Can a checkpoint claim a row it lacks? Can a backfill begin while rows under the announced checkpoint are missing? | 2 devices, one posts checkpoints (2), one fault of any kind | holds, 545 951 states |
| `sync_rough` | Is a batch stored twice, or dropped from a queue before it is stored, whatever fault strikes in whatever phase? | 2 devices, 1 fault, broadcast depth 1 | holds, 465 533 states |
| `sync_live` | Do documents converge, does a caught-up socket miss nothing live, is a commit kept until the room has it? | 2 devices, 1 commit, 1 disconnect, broadcast depth 1 | holds, 344 695 states |
| `command_ledger` | At most once, in order, honestly reported, never forgotten? | 2 commands of 3 kinds, 1 crash or eviction, clock of 2 values, time to live 1 | holds, 390 603 states |
| `registry` | Is a write ever lost, a row missed, a row shown that the server does not know? | 2 devices writing and deleting 1 row, 1 disconnect or crash, broadcast depth 1 | holds, 872 201 states |
| `registry_live` | Do replicas converge when the server restarts, lost its last transaction or lost its table? | 2 devices, 1 writer with 2 writes, 2 faults (a lost table counts as 2) | holds, 279 311 states |
| `session_runs` | Is a message dropped, an agent out of reach, a status untrue? | 3 messages (one perhaps left by a crash), 2 runs, 1 stop, mailbox of 1, agents that fail, retry, refuse, err, go on by themselves | holds, 1 768 092 states |
| `session_live` | Does every stop end its run, is every message settled, can what is awaited be answered? | 2 messages, 2 runs, 1 question, 1 stop | holds, 105 097 states |
| `device_relay` | Do calls end and nudges arrive, and does the host stop working for those who left? | 2 calls, 1 nudge, 1 fault of 4 kinds, 3 links, 1 dial per call | holds, 284 885 states |
| `cutover` | Does a chat move whole, once, on every device, and do commands arrive on either side? | host, 1 reader with 1 command, 1 fault: a crash, an eviction or a failed POST; 2 copies at a time | holds, 251 798 states |
| `find_lost_steer` | `NothingEvaporates` with an agent that does not come up | 2 messages | violated |

Why the bounds are enough.

* *Chat rooms.* Two devices make every relation the protocol has: pusher and reader,
  checkpoint poster and late joiner, live row and backfill. Each device's document
  starts with an operation of its own, so even a run with `MaxCommits = 0` has two pushes,
  two acks and two relays; 12 sequence numbers (`MaxSeq`) are never reached. One fault
  suffices for every counterexample found, and every phase in `Disturbed` is struck. A
  broadcast depth of 1 makes lag closes happen with two rows.
* *Commands.* Two are enough for order, supersession and overlap (each relates two).
  `MaxMessages` bounds only the replies a run begins.
* *Cutover.* One command meets the seed before it, during it (and aborts it), and after it, on
  the old side and the new. One fault at any step leaves every partial state of the flip: with a
  checkpoint and no thin document, with a thin document and an old row, with a row the
  host forgot. Two copies exist at once when a seed was aborted and begun again. A second reader
  would only repeat the first: readers meet only in the rooms, which merge.
* *Registry.* One row suffices because nothing relates rows except the cursor, and what
  goes wrong with two rows is a finding below. Two writers with a delete meet every
  branch of `apply_op`; depth 1 makes sockets lag. The slot is followed on the devices that write (`Writers`), since nothing else reads
  it. Clock counters (`Counters = 16`) never run out.
* *Runs.* Two runs let one replace, overwrite or outlive another, and a mailbox of one is
  full with one message. A third run would only repeat this: a caller that needs one
  beyond the bound waits, and `MessagesSettle` excepts it (`OutOfRuns`).
* *Relay.* Two calls share and compete for a link, and three links let one die, one be
  dialed and one be cached. The relay was also checked, outside the runs, with two
  chats, three nudges and two faults without calls (2 751 states), and with two
  dials per call, two chats and two nudges for one call (564 488 states); both hold.

The run `sync_safe` strikes no fault and reads no checkpoint cursor inside a
backfill, lists one checkpoint poster, and does not split saves: each of
these three restrictions is one of the findings below, and with each one lifted the
same properties fail. `sync_rough` lifts all fault restrictions, without checkpoints, and states what
still holds. `sync_live` has no crash and no eviction: what it says of queues and live rows is not
so with them (findings 5 and 26). Elsewhere a property carries its condition inside, as a history variable: `overlapped`
in `CommandLedger`, `crossed` and `misled` and the fates in `SessionRuns`, `torn`, `overtaken`,
`epoch`, `mistaken` and `unheard` in `RegistrySync`, `stranded` in `DeviceRelay`. Each marks one
thing the code does, named in section 4, and none is set by anything else.

In `cutover` three kinds of fault are left out, and one is narrowed: "late" (a seed before the s2 room's
backfill has come), "away" (evictions during a seed), "overlap" (saves inside the flip), and
"unsent" (faults that strike a device whose cursor hides what it has not sent); nor is there a
device without the chat's row (`Newcomers`). With each of them the run fails, section 4 says how.

Deadlock is not checked: bounds make every behaviour stop, and a chat nobody
writes to is at rest.

### Fairness

All of it is weak fairness of single loops, each a tokio task that waits on nothing
but what enables the step.

* `ChatSync`: the hub's loop, the session's loop and the dial loop of an open handle; the dial
  loop retries with backoff for ever. Users, saves, evictions, checkpoints and dead
  sockets owe nothing.
* `CommandLedger`: an opened chat stays served (`Open`: the UI or the next command reopens
  it), the chat task takes up a change, a drain goes on, that is, the calls of the
  sessions engine it awaits return; an interrupt's wait is bounded in the code, a dispatch waits for the
  harness's model catalogue.
* `RegistrySync`: socket loops, session loops, dialing, a publication that was begun, and the host's return from its
  first join, that is, that its look at the token comes to an answer.
* `SessionRuns`: callers and run tasks go on, the grace period of a stop runs out, an agent
  comes up or its handshake times out, and it takes its mail. *Not* assumed: that an agent ends a turn,
  that anybody answers, that a parked session is reaped.
* `ChatCutover`: opens, saves, joins, pushes and the registry's sync are retried for ever, timers go off, the sweep
  comes round, the executor runs what it owes; the watcher acts only on a change of the
  registry (`d \in signal`). That runs end is assumed. Users issue what they like, faults owe nothing.
* `DeviceRelay`: the relay's loops, the host's session and redial, the link's pump, the calls;
  leases and probes run out. *Not* assumed: that the server notices a socket that was cut
  (it has no lease of its own).

## 4. Findings

One is a run that TLC must find violated:

1. **A start that fails drops what was steered into it** (`find_lost_steer`). A run is in the map
   from before its agent is up, so messages are routed into it; when the start fails, the
   handle is removed without its ledger being drained, which `sessions.rs:435` says cannot happen.

The others were met while modelling. Each is a state the models reach, marked or
excluded by constants as said, and can be seen by checking the named property:

2. *A disconnect inside a backfill leaves a gap.* A live row sets the cursor to its own number before
   the backfilled rows below it arrive; the next join asks only for later ones.
   `DiskAgreesWithCursor` with `Disturbed` including "backfill", the host as the only committer,
   1 commit, fault "cut", no checkpoint.
3. *A second checkpoint poster breaks late joiners.* Join-time posts ask `is_host`; threshold
   posts in `chat2_maintenance` do not. A checkpoint stored between a reader's STATE and
   ROWS_REQ prunes rows the reader was promised, and its own next checkpoint then claims
   them. `CheckpointComplete` with both devices in `Checkpointers` and 2 checkpoints.
4. *A save can store an older document under a newer cursor,* a debounced one, or the last one of an eviction
   when the chat is opened again in the meantime. `DiskAgreesWithCursor` with the fault "overlap".
5. *An eviction forgets the push queue:* a document is only queued whole when its cursor is 0.
   `OutboxKept` with the fault "evict".
6. *A replayed batch may be appended twice* once a checkpoint deleted its row. `ReplayIsNoOp`
   with one disconnect and one checkpoint.
7. *An eviction during a command lets two drains run* (`overlapped`). `ExecutesInOrder` with 2
   runs and 1 eviction.
8. *A stop may be dropped while its reply is streaming,* because any message that is not the
   last one counts as a past turn. `StopReachesItsTurn` with 3 commands.
9. *Dispatches cross* (`crossed`). Between its look at the map and its insert a dispatch awaits; a
   second one that gets past its look as well overwrites the first one's entry, whose
   agent then runs where no stop, steer or answer finds it.
10. *A late status* (`misled`). An ending run writes its final status after it left the map, and
    a confirmed send writes Working after its turn may have ended.
11. *Compaction is not lossless,* as `doc/registry.rs:381` says: "the server converges on the same values". The merged operation
    is an upsert of the row as the replica sees it, so
    - a cleared field is not among its fields, and an older value the server holds survives;
    - a queued `update` becomes an upsert (`registry.rs:268-283`, `408-409`): it creates or revives a row that another device deleted,
      where `registry.rs:130` says of an update "Never creates or revives";
    - an upsert of one field carries the row's other fields with their old clocks, and brings them back when it revives a row that was
      deleted in the meantime, where the queued one would have revived the row with its own field only;
    - a delete queued behind a write, or in front of one, takes the place of what came before it: the merged upsert does not
      say that the other fields are gone, and the merged delete does not bring the write it followed.

    To see it, add to `RegistrySync`, and check as a PROPERTY without faults, with 2 writes per device:

        Visible(row) == IF row.state = "live" THEN row.value ELSE Unset
        CompactionIsLossless ==
          [][\A d \in Devices, i \in Ids :
               saved'[d] # saved[d] /\ faults' = faults =>
                  Visible(ApplyOps(server.rows[i], PendingOps(doc'[d], i)))
                    = Visible(ApplyOps(server.rows[i], PendingOps(doc[d], i)))]_vars

    It fails with `Kinds = {"set","update","remove"}` (a queue of a write and an update, and another device that wrote and deleted
    with a clock between them: compacted, the row is revived), with `{"set","remove"}` and two fields (a write and a delete
    queued behind it that loses to a newer write), and with `{"set","clear"}`, one writer and broadcast depth 2.
    What does hold is `WriteIsKept`, which therefore excepts a write that the device's own later delete has overruled.
12. *The registry's cursor is ahead of its rows* while rows are on their way, against the
    comment on `RegistryDoc::cursor`. A connection lost there leaves the replica `torn`
    until the row is written again. `CursorIsApplied` with 2 rows, one write each, one disconnect.
13. *Broadcasts leave in another order than the batches were merged* (`overtaken`): the lock is released
    before (`lib.rs:579`), so a cursor may pass rows that come later.
14. *A table lost and regrown past a replica's cursor* (`mistaken`) is not recognised as lost; and a
    batch that could not be stored is served from memory until the restart.
15. *A clock can be issued twice:* after a crash the clock restarts from the snapshot, and a
    wall clock that was set back (fault "regress") does not protect it, against `doc/registry.rs:54`.
16. *Re-applying an operation is not always a no-op,* as `docs/registry-sync.md:87` says: an upsert
    replayed onto a row that was deleted and revived since may bring a field back. The theorem `ReplayIsNoOp` of
    `RegistrySyncProofs` is therefore about rows never deleted; `AbsorbedIsFinal` is what holds for all.
17. *A superseded host's calls hang* (`stranded`). A host whose socket died silently joins again before the
    relay saw the old socket close; clients are told nothing, the new host knows nothing of
    the calls, and `forward` has no timeout, while `docs/security.md:163` says "Disconnects fail fast
    instead of hanging". `CallsEnd` without its last disjunct, one call, one fault "close".
18. *A nudge to a half-open host is reported as delivered* and lost with its socket
    (`nudge[k] = "lost"`); the command itself stays in the document.
19. *A failed call drops another's link.* `invalidate` (`rpc.rs:807`) removes whatever is cached by then;
    calls on the newer link fail with it. They end, so no property is broken.
20. *A seed may start before the s2 room's history has come,* because the quiet wait watches the document's
    frontier and a slow backfill does not move it; what it misses is forked away, while
    `doc_host.rs:1294` says "the rebuild must include every row the room holds". `HistoryIsKept` with "late".
21. *The seal is skipped when the chat was evicted during the POST:* what was written between rebuild and
    eviction is lost with the old document. `HistoryIsKept` with "away" and "evict".
22. *A save inside the flip stores the old document under epoch 2.* Between the thin document's
    store and the retirement another thread's flush writes the old handle's document, keeping the new epoch;
    the device then takes it for a thin one and merges the seed into it. `NoDuplicates` with "overlap".
23. *An orphan checkpoint is not always harmless,* as `doc_host.rs:1435` says: a device that has no
    row for the chat yet opens it on chat2 and adopts it; the next seed is another copy of the
    same history. `NoDuplicates` with one of `Newcomers` and no fault.
24. *A command queued again by an adoption can be left behind:* fetching moves the cursor before the command
    is pushed, and a crash or eviction in between is finding 5 again. `CommandsArrive` with "unsent".
25. *The watcher and a stale reopen drop a handle without saving it:* a command less than a debounce
    old is lost. `CommandsArrive` is therefore about stored commands.
26. *A push that outlives its process is kept from the process that follows.* HELLO of a joined client asks for
    the rows after its cursor without its own (`exclude_own`), because `chat_client.rs:558` says "Same-process reconnects have
    queue continuity and skip them". A push of the device's previous process may still be on its way, though; when it is
    stored while the new process, joined already, is between two connections, no backfill and no
    relay brings it to that device. `RelayIsComplete` with faults "cut" and "crash", the host
    committing once, 2 faults; or with one "crash" and a lag close, at broadcast depth 1.
27. *A write may nudge nobody* (`unheard`). `mutate` (`workspace_host.rs:493-500`) is documented to "push the write to the room", but it
    nudges only a client it finds in the slot. On the first join the session is ready, and has pushed what was queued
    (`sync/registry.rs:597-610`), before the host has looked at the token and filled the slot (`workspace_host.rs:366-375`); what is
    written in between stays queued until the device writes again or reconnects. `Converges` without the guard
    `d \notin unheard` in `InSync`, on the run `registry_live`.

## 5. Proofs

**The room's log.** The first part of `ChatSyncProofs` proves, for every set of devices, batch ids and
operations and every bound, that `ChatLog`'s types (`TypeCorrect`) and its invariants
hold (`LogIsAlwaysSuffix`, `LogIsAlwaysHonest`), that head and floor never move back (`ForwardOnly`), and that the log implements
`TrimmedLog` (`LogImplementsPromise`). The inductive invariant is `LogInv`, the conjunction of
the type invariant, `LogIsSuffix`, `RowsAreHistory`, `BatchIsUnique` and `PrunedIsCovered`. None but
the type invariant is inductive alone: that an append writes a number no live row has, and so
rewrites nothing, needs `LogIsSuffix`; that pruning leaves nothing uncovered needs that the
rows end at the head and the checkpoint sits at the floor. One lemma per transaction shows
that it preserves `LogInv`; for the refinement, an append is a `Write` and a committed
checkpoint a `Forget` of the abstract log.

**The executor.** `CommandLedgerProofs` proves, for any commands, device clocks, crashes, evictions
and bounds, and from nothing but `CommandLedgerAssumption` (the constants are naturals and sets
of known kinds), the types (`TypeCorrect`), `SoleDrainExecutesInOrder` (`OrderIsKept`),
`SoleDrainIsHonest` (`OutcomesAreHonest`) and `SupersededHasHeir` (`SupersededIsReplaced`).

* `LedgerSafe` is the inductive invariant `SoleInv`, three parts. `Types`. `Backed`: each stage
  of a drain keeps its promise (what it executes is in the ledger, what it skips is too), and
  every status that is not pending and every effect is of a command in the ledger; this holds
  however drains overlap. `InOrder`, while no two drains overlapped: at most one drain is at
  work, the ledger is a prefix of the command list, and the working drain stands at its end with
  every effect below it. Order alone is not inductive: that the next command comes after all that
  took effect needs that the drain takes the least command outside the ledger *and* that
  everything that took effect is inside it; and after a crash the next drain may rely on it only
  because the ledger was written first. Honesty needs that a command being executed is still
  pending in every copy of the document, which follows from its not having been in the ledger
  when it was found (`BackedEffects`, `EffectsBelow`).
* `HeirInv` says that a steer that is superseded, or is about to be, has a newer one, whatever
  overlaps: the newer one may have been dropped itself since, which is why the invariant asks
  no more. That one of the newer ones was not dropped follows in `SupersededIsReplaced`: the newest
  steer of all (`NewestSteer`, from the well-foundedness of `<`) cannot be superseded, since nothing is newer.

**Registry rows.** The first part of `RegistrySyncProofs` is about `ApplyOp` for any row, operation, fields, values and
clocks, from the assumption that counters and ranks are positive numbers. It keeps
a row's shape (`ApplyKeepsShape`); it lowers no clock (`ApplyMovesForward`);
what was applied is *absorbed*, whether it won or lost, if a clock names one
write (`AppliedIsAbsorbed`), and stays absorbed (`AbsorbedIsFinal`), the two steps behind `WriteIsKept`;
an operation repeated on a live row that was never deleted changes nothing (`ReplayIsNoOp`);
and two writes of fields with distinct clocks commute on a live row (`WritesCommute`), the step
behind `Converges`. They are lemmas about the operator: how many batches there are,
and in which order they come, plays no part.

**Registry sync.** `RegistrySyncProofs` proves, for any finite sets of devices, rows and fields, any number of
writes and any faults, the types (`TypeCorrect`), `RowsAreTheServers` (`RowsAreAlwaysTheServers`) and
`CursorIsCovered` (`CursorIsAlwaysCovered`). None of the three is inductive. `WriteIsKept`
follows below.

* *Shapes.* `Shapes(L)` says what tables, sockets, frames in flight, batches in hand, replicas and snapshots are
  made of, down to the operations in a push; `L` is the set of writes there are, pairs of a clock and a value. Every
  step but a local write keeps `Shapes(L)`, a local write adds a pair. The types need it with all pairs for `L`; with
  a set in which a clock names one value it is what the merge function assumes, for which
  the parameter is there. For each action a lemma says what it does (`HandlePushEffect`, `ReceiveStateEffect`,
  `CrashEffect`...) and a second one that it keeps the shapes.
* *Copies.* `CopiesAreOlder`: every copy of a row, on the wire, in a replica or a snapshot, is a row the server has
  or had: its stamp is no greater, with the same stamp it is the same row, and its tombstone is no newer; no
  cursor and no frame is ahead of the table. `RowsAreTheServers` speaks of replicas alone and is not inductive: what a replica is
  about to take is in a frame. A step is described by what comes with it (`FramesCome`, `RowsCome`, `TableMoves`).
* *Streams.* A socket is seen as what it will still bring: the frames sent, then the broadcasts not taken yet, then
  the batches merged and not broadcast. `InOrder`: whatever brings another row than the server's is followed by what
  brings the server's, `Later`. `Flow` adds, for every replica and row, that a joined one holds the row or will be brought it
  (`Reached`; one that waits for its answer, by the answer or after it), and that one without a session, and every snapshot
  not marked as owing, holds what its cursor has passed (`Claims`, `SavedClaims`). `Asking` says that a hello on its way
  carries the replica's cursor, which is why the answer to it has no hole. `Covered`, the invariant, is `Flow` for
  every row that exists, while the table was kept and no broadcast overtook another; the lemmas take
  one action each, for a row the step leaves alone (`StandingRowKeepsFlowing`) and for one it writes (`ServedRowFlows`).
  TLC checked `Covered` on the instance of the run `registry` before it was proved.

`WriteIsKept` (`WritesAreKept`) is a theorem where no field is cleared (finding 11: a compacted queue cannot say it) and no
process starts on a wall clock set back, as on the run `registry`. Any number of writes, cuts, crashes, snapshots and compactions is free.
The property asks what the whole queue makes of the server's row and is not inductive: that row, the queue and the batches
in flight each change alone. The invariant is `WritesHold`.

* *Deliveries.* `Safe`: a write the replica remembers is overruled by its own delete, taken in by the server's row (`Absorbed`), or carried (`Covers`)
  by one operation of a queued batch that no acknowledgement, sent or about to be sent (`Acked`), will remove. `Delivery(d)` says it of the
  replica and of its snapshot, which starts with no acknowledgement under way, and adds that a push in flight holds the operations of the batch of its name, and that a name
  is used once (`NamesOf`): so an acknowledgement removes what the row has taken in.
* *Steps.* Most steps write nothing: the table goes forward and each queue goes on (`Steady`), one lemma per action, and `DeliveryGoes`
  takes them all. A snapshot compacts the queue (`CompactionIsSafe`): what a batch carried the merged one carries or overrules, which needs
  that a queued delete is one the replica issued or repeats a tombstone of the table (`Deletion`). Rows re-seeded after the server's answer
  queue only writes and tombstones that exist, under new names.
* *Clocks.* What was applied is absorbed only if a clock names one write. `Sound(L)`: each clock in use belongs to a device whose wall clock has passed the
  reading it was made of, or whose replica's clock is not behind it (`Used`). A write is therefore stamped with a clock nobody has used (`StampIsUnused`), a replica read back
  from an old snapshot included: its process starts at a later reading. That is where a wall clock set back would break it.

**Session runs.** `SessionRunsProofs` proves, for any number of messages, runs, stops and questions and any agents:

* `TypeOK` (`TypeCorrect`) and `SoleRunIsRegistered` (`SoleRunIsAlwaysRegistered`), from the invariant `RunsInv`
  (`RunsSafe`): the types, and, while no dispatches crossed, `Alone`. That an agent nobody stopped is the map's is not
  inductive: a `Launch` overwrites the map's entry. `Alone` says why that is safe: at most one dispatch is past its look at the map;
  while it waits for the run it stopped, that run is cancelled and the map holds it or nothing; and when it is
  about to insert, no agent is at large. It needs that an exit removes only its own entry, which is what `Unregister` compares for.
* `AcceptedIsKept` (`AcceptedIsAlwaysKept`), from `Filed` and `EveryoneKept` (`MessagesSafe`), whether dispatches cross or not.
  `Files`: what a run's mailbox, ledger and orphans may hold in each stage, no message twice; `Desks`: what a caller may
  have in its hands and its queue. `EveryoneKept`: a message that has not come to its end is in a caller's hands or queue, or
  with a run that answers for it. `Held`, which the property uses, is weaker and not inductive: it counts a
  message that a caller pushed without saying that the caller will look whether the run is still there.
* `StatusIsTrue` and `AwaitingIsAnswerable` (`StatusIsAlwaysTrue`, `AwaitingIsAlwaysAnswerable`), from `TrueStatus` and `QuestionInv`
  (`ShownSafe`): while the session says working, the map's run is busy, a run is on its way out, or, the map being empty, an ended
  run's caller is about to start another; and a question is with the run or on the engine's channel before it is shown.

**The relay.** `DeviceRelayProofs` proves `TypeOK` (`TypeCorrect`) and `ConnsAreReaped` (`ConnsAreAlwaysReaped`) for any links, sessions,
calls and chats, with or without the code's faults, from `RelayInv` (`RelaySafe`): the host's sockets come one after the other and only the
live one has connections (`Hosting`), the queue of nudges is for an absent host (`Queueing`), one call dials and whoever waits
on a link waits on one that is up and proved (`Dialing`), and `Told`: a client the host knows, or will know from a frame on its way, is in the room, or the
word that it left comes behind all its frames. `ConnsAreReaped` alone is not inductive, since a client's frame may reach the host after it left.

**Chat sync.** `ChatSyncProofs` proves, for any devices, commits, checkpoints and bounds, and for faults of every kind in
every phase, `TypeOK` (`SyncTypeCorrect`) and `AckedIsDurable` (`AckedIsSafe`), and under the conditions named below
`ReplayIsNoOp` (`ReplayIsSafe`), `OutboxKept` (`OutboxIsKept`) and `RelayIsComplete` (`RelayIsAlwaysComplete`). The invariant is `SyncInv /\ Truth` (`SyncInvariant`).

* *Shapes.* `Shapes(M)` says what documents, queues, frames, events, snapshots and jobs are made of, `M` being the
  operations there are. Every step but a commit keeps it, a commit adds its own operation. With `M` all operations it
  is the type; with `M` those committed so far it is `OnlyMade`, a result of its own: nobody knows of an operation before its
  device has made it (`OnlyMadeIsKnown`). Queues, frames and the pushes of dead sockets are looked at as
  sets, the order in them plays no part here.
* *Names.* A batch is in its device's queue, in pushes on live and dead sockets and in the room's table, and
  any of these may be the copy that is stored or acknowledged. `NamesInv`: a batch id names one batch of one device wherever a copy of
  it is, and a row of that id holds that batch; new ids are above all there are (`Counted`), because a device's counter is not
  set back by a crash (in the code ids are random). Without `NamesInv` an
  acknowledgement of one copy would say nothing about another.
* *Truth.* What is on its way was true of the room when it was sent and still is: a row frame or relay is a row of the
  history, an acknowledgement names the row of its batch, and a STATE announces no more than there is. Every cursor is then at most
  the head, also where `RowsOnlyAfter` or a checkpoint moves one, since the point they move it to was announced. `TypeOK`
  and `AckedIsDurable` follow; neither is inductive, as the frame in flight is what decides.
* *Replays.* `ReplaysEndAtTheFloor`: a batch is in the history twice only when the first copy lies under the floor,
  since the table in which a replay is looked up is the suffix above it (`LogInv`). Finding 6 is the exception;
  where no checkpoint is posted (`MaxCheckpoints = 0`) the floor stays 0 and `ReplayIsNoOp` follows.
* *Queues.* `OutboxInv`: whatever a device with an open document has made, its first operation included, is in the room
  or in its queue (`Outbox`), and a chat that is closed was never opened (`Unopened`); `OnlyMade` then says that the
  document holds nothing of the device beyond that. It assumes that no fault is a "crash" or an "evict": with either
  it is false (finding 5).
* *Live rows.* `RelayIsComplete` is not inductive, for it speaks of a caught-up client only, and what it needs is decided
  earlier, when the hub answers the session's one request. `RelayInv` says it from then on. `Owned`: the document of an open
  handle, or the snapshot the next one opens with, holds every batch the device made, so the rows the room leaves out
  as the device's own are no loss. `Talking`: a socket carries its hello, then one request, then pushes; nothing is
  broadcast to a socket that has not been greeted, and `rowsDone` comes behind its rows. `Whole`: once the request is
  answered (`Answered`), each row above the cursor is in the document, on its way (`Coming`), or pruned. `Owned`
  assumes no "crash" (finding 26 is the counterexample), and not "evict" and "overlap" together: a save that
  outlives its handle can put an older snapshot back (finding 4).

**Cursors and checkpoints.** `ChatGapProofs` proves `CheckpointComplete` (`CheckpointIsAlwaysComplete`), `NoSilentGap` (`NoGapIsSilent`),
`DiskAgreesWithCursor` (`DiskAlwaysAgrees`) and `CatchUpIsWhole` (`CatchUpsAreWhole`), for any devices, commits, checkpoints and
bounds, under conditions each of which a finding shows to be needed: saves do not overlap (4); a backfill once begun comes to its end
(`BackfillsEnd`; 2); the worker does not read the cursor in the middle of one (2), and one device posts checkpoints (3); a handle ends with its
document stored (`StoredAtTheEnd`; 26). Disconnects, lag closes, evictions and crashes are otherwise free. The last condition follows from the
constants where no process dies or nobody commits (`HandlesEndStored`), which is so in the run `sync_safe`; `BackfillsEnd` follows there from `Disturbed` and from
`BroadcastDepth`, at which no socket lags.

* *No gap.* `GapInv` is about the rows the room still has. The cursor is moved by whatever row or acknowledgement comes, so what counts is
  the order of frames on a socket. A row is *live* if the session is steady when it comes, or will be because `rowsDone` comes before it; a
  live row is above every row and acknowledgement in front of it (`InOrder`, `EventsInOrder`), and `Covered` says that a live row finds the document
  complete below it once what comes before it is taken (`Brings`). Rows relayed in the middle of a backfill come in any
  order and do leave the cursor above rows that have not come; `Fed` says that the rest is on its way or is owed. `Resting` and `Asking` say
  what a snapshot and a request hold, `StoredWell` what the snapshot of an open handle does: a save stores the document and leaves
  the cursor. `CursorsSkipNoRow` is what follows for rows above the floor; it needs no condition on checkpoints.
* *Checkpoints.* `WorkInv`: the stored checkpoint, the one being made and those whose POST outlives its handle hold every row up to their
  number (`CheckpointWhole`, `JobWhole`, `AdriftWhole`), and the device that posts them has them too (`Keeps`). The worker reads a cursor below which, by `GapInv`, the document lacks no row the room still
  has; the rows under the floor are what `Keeps` is for, and why a second poster breaks it: it may have caught up from a
  checkpoint older than the floor it then names. With `GapInv` the three invariants follow: a row below
  a cursor is above the floor and held, or below it and in the blob, whose frontier the document then lacks if it lacks the row.
* *STATE.* The statistics are read in one step, the frontier in another, the blob in a third, and a checkpoint may be stored between any two.
  `StatesInv`: the frontier of a STATE holds all the rows up to the number in the same frame. It is inductive because the numbers of a STATE are never
  above the floor (`Truth`) and what a checkpoint holds only grows with it.

TLC checked each of these invariants on the instance of `sync_safe`, and with a commit added to it, before it was proved.

**The cutover.** `ChatCutoverProofs` proves, for any readers, commands, and bounds on faults and copies, the types of `ChatCutover` whatever
happens (`CutoverIsTyped`), `NoDuplicates` (`NothingIsShownTwice`) and `HistoryIsKept` (`NothingIsLeftBehind`). Both assume `Ordinary`: every device has the
chat's row (finding 23 is what a newcomer does) and nothing runs in between the steps of the flip ("overlap", finding 22). `HistoryIsKept` also assumes
`Attended`: a seed waits for the backfill ("late", finding 20) and its document is not evicted meanwhile ("away", finding 21). Crashes, evictions, failed posts
and unsent changes are free.

* The invariant `MoveInv` (`MoveIsOrderly`) divides a behaviour at one step, `StoreThin`; `Moved` says that it has been taken. Before it no row holds a message and no registry names the new
  room (`BeforeTheMove`), though checkpoints of aborted seeds come and go. After it there is one checkpoint for good (`AfterTheMove`): a host that restarts finds a thin
  document, completes the flip and does not seed again.
* Every document is on one side. The old side, `Old`, holds what authors wrote, of commands in the ledger: one tag. The new side, `NewSide`, holds the checkpoint's
  messages, which have one tag, and messages with an author's tag of commands the checkpoint does *not* show. That these never are about the same command is the point: a command whose run
  begins after the move is not in the ledger yet, the checkpoint shows only commands of the ledger, and the seal lets no run cross the move (`SealedFacts`). That rebuilds choose unused tags is not needed.
* `SeedHolds` says why the seal is enough: what is rebuilt is of the old side, and an open handle has the same document until it is retired, while `s2` has no more than that if
  the seed was `Attended`. A push of the old handle between the steps of the flip then adds nothing that the checkpoint lacks (`HostPushesS2`).
* `ReadersFollow`: a reader is on the new side only with a row that says so, and a stored document of epoch 2 with a handle that is not on s2. What a reader has of the old side it had from the s2 room.
* No property alone is inductive; the conjuncts are proved together, one lemma per kind of step (`ReaderGrows`, `HostGrowsOld`, `HostGrowsNew`, `HostRests`) and one per step of the seed.
  TLC checked `MoveInv` with two faults, host-issued commands, and "late" and "away", before it was proved.

**Sequences.** `SequenceLemmas` says what `RemoveFirst`, `KeepAt`, `FlattenSeq` and `SetToSeq` return. `KeepAt` and `FlattenSeq` are recursive
functions; a fact about one is an induction over a set of numbers (`InductionOnNat`), from the library's theorem that `<` is
well founded, since the induction theorems with an operator parameter are out of the provers' reach.

Every invariant of the passing runs is thus a theorem, under the conditions named. Only model-checked is what holds
under fairness (`Converges`, `CommandsSettle`, `CutoverEnds`, `CommandsArrive`, `StopEnds`, `MessagesSettle`,
`NudgesArrive`, `CallsEnd`), which the prover cannot reach.

## 6. Plan

1. The conditions of `ChatGapProofs` on a behaviour from the constants: that no socket lags, hence `BackfillsEnd`, needs a bound on the
   acknowledgements of replayed pushes.
2. Wiped rooms (`ServerReset`) in `ChatRoom` and `ChatSync`.
3. Two hosts of one chat: the executor composed with the registry's chat rows.
4. The quota drain of the chat2 client; the garbage collection of tombstones.

## 7. Not modelled

* *Run journal.* Read once at boot; what matters of it here, whether a crash left a message to
  dispatch again, is a choice of `SessionRuns!Init`.
* *s2 room client.* The protocol that chat2 replaces: `ChatCutover` has its join, push and backfill as
  steps that merge; its fragments, probes and rejoins are not modelled.
* *Document schema and protocol types.* Data and its encoding; the models keep what the
  protocols tell apart of it.
* *Harness adapters.* What an agent may do is `Agents` of `SessionRuns`; how each program's output is
  read is parsing of formats decided outside the repository.
* *Terminals, files, diffs, updates, accounts.* Process, file and network I/O around this core.
* *User interface.* Views of the state modelled here.
