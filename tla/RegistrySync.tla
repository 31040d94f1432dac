----------------------------- MODULE RegistrySync ----------------------------
(***************************************************************************)
(* Registry sync end to end: the room (RegistryRoom) and, on every device, *)
(* the replica (RegistryDoc in crates/doc/src/registry.rs), its client     *)
(* session (crates/sync/src/registry.rs) and the snapshot the workspace    *)
(* host keeps of it (crates/engine/src/workspace_host.rs).                 *)
(*                                                                         *)
(*   doc[d]    rows (as the server last sent them), cursor, pending        *)
(*             batches, the clock, `touched' (generation # 0); history:    *)
(*             `written', the operations issued, and `epoch', the table    *)
(*             it last had a state of                                      *)
(*   saved[d]  the snapshot                                                *)
(*   link[d]   closed (dialing or backing off), hello (waiting for the     *)
(*             state), ready                                               *)
(*   slot[d]   the host's slot for its client: none (no join yet),         *)
(*             joined (the client is, the host has not got it yet), filled *)
(*   nudged    devices whose actor was told of local writes                *)
(***************************************************************************)
EXTENDS RegistryRoom, SequencesExt

CONSTANTS
  Rank,             \* order of the device ids, the last part of a clock
  Kinds,            \* local writes of this run: "set", "clear", "update", "remove"
  Writers,          \* devices with a user at work (bound)
  Savers,           \* devices whose snapshots are followed (bound)
  MaxMs,            \* bound: wall clock values
  MaxWrites,        \* bound: local writes per device
  FaultKinds,       \* faults of this run: "cut", "crash" (with "regress": onto a wall
                    \* clock that may have been set back), "restart", "unsaved", "wipe"
  MaxFaults         \* bound: faults in a behaviour

ASSUME RegistrySyncAssumption ==
  /\ Rank \in [Devices -> 0 .. Ranks - 1]
  /\ \A d, e \in Devices : Rank[d] = Rank[e] => d = e
  /\ Kinds \subseteq {"set", "clear", "update", "remove"}
  /\ Writers \subseteq Devices /\ Savers \subseteq Devices
  /\ FaultKinds \subseteq {"cut", "crash", "regress", "restart", "unsaved", "wipe"}
  /\ MaxMs \in Nat \ {0} /\ MaxWrites \in Nat /\ MaxFaults \in Nat

VARIABLES
  doc, saved, link, slot, nudged,
  wall,             \* device -> wall clock at its process's start, at least
  writes, faults,   \* counters of the bounds
  torn,             \* history: devices that lost rows their cursor had passed
  overtaken,        \* history: rows were broadcast after rows of a later batch
  epoch,            \* history: number of times the server lost part of its table
  mistaken,         \* history: devices that were sent only what is newer than a
                    \* cursor they had from a table since lost
  unheard           \* history: devices that wrote on a joined session before the slot
                    \* was filled, and have not pushed since

docVars == <<doc, saved, link, slot, nudged>>
historyVars == <<wall, writes, faults, torn, overtaken, epoch, mistaken, unheard>>
vars == <<roomVars, docVars, historyVars>>

NewDoc == [rows |-> [i \in Ids |-> Missing], cursor |-> 0, pending |-> <<>>,
           clock |-> [ms |-> 0, counter |-> 0], touched |-> FALSE, written |-> {}, epoch |-> 0]

Init ==
  /\ RoomInit
  /\ doc = [d \in Devices |-> NewDoc]
  /\ saved = [d \in Devices |-> [doc |-> NewDoc, owing |-> FALSE]]
  /\ link = [d \in Devices |-> "closed"]
  /\ slot = [d \in Devices |-> "none"]
  /\ nudged = {}
  /\ wall = [d \in Devices |-> 1]
  /\ writes = [d \in Devices |-> 0]
  /\ faults = 0
  /\ torn = {}
  /\ overtaken = FALSE
  /\ epoch = 0
  /\ mistaken = {}
  /\ unheard = {}

\* A wiped table counts as two faults.
Fault(kind) ==
  /\ kind \in FaultKinds
  /\ faults' = faults + IF kind = "wipe" THEN 2 ELSE 1
  /\ faults' <= MaxFaults

-----------------------------------------------------------------------------
(* RegistryDoc: local writes and the queue of batches *)

PendingOps(dc, id) == OpsOn(FlattenSeq([n \in DOMAIN dc.pending |-> dc.pending[n].ops]), id)

\* What the device shows: the server's row under the operations not acknowledged yet.
View(dc, id) == ApplyOps(dc.rows[id], PendingOps(dc, id))

\* What a device's wall clock may read.
Readings(d) == wall[d] .. Greater(wall[d], MaxMs)

Tick(dc, now) == [dc EXCEPT !.clock = NextHlc(@, now)]

Now(d, dc) == EncodeHlc(dc.clock.ms, dc.clock.counter, Rank[d])

\* A batch takes its name from a tick of its own.
EnqueueOps(d, dc, ops, now) ==
  LET ticked == Tick(dc, now)
  IN  IF ops = <<>> THEN dc
      ELSE [ticked EXCEPT
              !.touched = TRUE,
              !.pending = Append(@, [batch |-> Now(d, ticked), ops |-> ops, flight |-> FALSE])]

\* The typed writers look their row up first, except the creating ones.
Allowed(dc, id, kind) == kind \in {"update", "remove"} => View(dc, id).state = "live"

WriteOps(kind, ids, F, hlc, name) ==
  [n \in 1 .. Cardinality(ids) |->
     [id |-> SetToSeq(ids)[n],
      op |-> CASE kind \in {"set", "clear"} -> "upsert" [] kind = "update" -> "update"
               [] kind = "remove" -> "delete",
      hlc |-> hlc,
      set |-> CASE kind = "remove" -> << >>
                [] OTHER -> [f \in F |-> [clock |-> hlc, value |-> IF kind = "clear" THEN 0 ELSE name]]]]

\* One user action: a write to one row, or the removal of several (delete_space,
\* delete_chat) in one batch.  The actor is told of it if the slot is filled: a write
\* between the first push of a first join and the filling of the slot waits for whatever
\* pushes next.
LocalWrite(d, now, kind, ids, F) ==
  LET ticked == Tick(doc[d], now)
      ops == WriteOps(kind, ids, F, Now(d, ticked), writes[d] * Ranks + Rank[d] + 1)
  IN  /\ d \in Writers /\ writes[d] < MaxWrites
      /\ kind = "remove" \/ Cardinality(ids) = 1
      /\ \A i \in ids : Allowed(doc[d], i, kind)
      /\ doc' = [doc EXCEPT ![d] =
                   [EnqueueOps(d, ticked, ops, now) EXCEPT
                      !.written = @ \cup {op \in ToSet(ops) : op.op # "update"}]]
      /\ nudged' = IF slot[d] = "filled" THEN nudged \cup {d} ELSE nudged
      /\ unheard' = IF slot[d] # "filled" /\ link[d] = "ready" THEN unheard \cup {d} ELSE unheard
      /\ writes' = [writes EXCEPT ![d] = @ + 1]
      /\ UNCHANGED <<roomVars, saved, link, slot, wall, faults, torn, overtaken, epoch, mistaken>>

\* compact_pending: one operation per row that any pending operation names.
Compacted(d, dc, now) ==
  LET named == {i \in Ids : PendingOps(dc, i) # <<>>}
      net(i) == View(dc, i)
      one(i) == IF net(i).state = "missing" THEN PendingOps(dc, i) ELSE <<SeedOp(i, net(i))>>
      ops == FlattenSeq([n \in 1 .. Cardinality(named) |-> one(SetToSeq(named)[n])])
  IN  IF dc.pending = <<>> \/ \E n \in DOMAIN dc.pending : dc.pending[n].flight THEN dc
      ELSE EnqueueOps(d, [dc EXCEPT !.pending = <<>>], ops, now)

\* Mutant: the flights outlive their connection.
LandedInFlight(dc) == dc

\* Mutant: what was in flight counts as delivered.
LandedForgetting(dc) == [dc EXCEPT !.pending = KeepAt(@, {n \in DOMAIN @ : ~ @[n].flight})]

\* A restart implies a fresh connection: flights are not stored.
Landed(dc) == [dc EXCEPT !.pending = [n \in DOMAIN @ |-> [@[n] EXCEPT !.flight = FALSE]]]

\* What to_bytes stores.
Kept(dc) == [Landed(dc) EXCEPT !.touched = FALSE]

-----------------------------------------------------------------------------
(* RegistryDoc: server frames *)

\* An operation per row the replica holds and the frame does not.
Seeds(dc, ids) ==
  LET held == {i \in ids : dc.rows[i].state # "missing"}
  IN  [n \in 1 .. Cardinality(held) |-> SeedOp(SetToSeq(held)[n], dc.rows[SetToSeq(held)[n]])]

\* Mutant: a table behind the cursor replaces the replica's rows like any other.
ApplyStateTrusting(d, dc, f, now) ==
  [dc EXCEPT !.touched = TRUE, !.cursor = f.seq,
             !.rows = IF f.full THEN WithRows(NewDoc.rows, f.rows) ELSE WithRows(@, f.rows)]

\* A full table behind the cursor is one that was lost: the replica keeps its rows and
\* re-seeds it.  Any other full table replaces the replica's rows, and re-seeds the
\* rows it lacks.
ApplyState(d, dc, f, now) ==
  LET lost == f.full /\ f.seq < dc.cursor
      base == [dc EXCEPT !.touched = TRUE, !.cursor = f.seq,
                         !.rows = IF f.full /\ ~ lost THEN WithRows(NewDoc.rows, f.rows)
                                  ELSE WithRows(@, f.rows)]
  IN  CASE ~ f.full -> base
        [] lost     -> EnqueueOps(d, base, Seeds(dc, Ids), now)
        [] OTHER    -> EnqueueOps(d, base, Seeds(dc, Ids \ DOMAIN f.rows), now)

ApplyRows(dc, f) ==
  [dc EXCEPT !.touched = TRUE, !.rows = WithRows(@, f.rows),
             !.cursor = IF f.seq > @ THEN f.seq ELSE @]

AckBatch(dc, f) ==
  [dc EXCEPT !.pending = KeepAt(@, {n \in DOMAIN @ : @[n].batch # f.batch}),
             !.touched = @ \/ \E n \in DOMAIN dc.pending : dc.pending[n].batch = f.batch,
             !.cursor = IF f.seq > @ THEN f.seq ELSE @]

-----------------------------------------------------------------------------
(* The client session *)

Brings(f, cursor) == f.t # "ack" /\ \E i \in DOMAIN f.rows : f.rows[i].seq <= cursor

\* Some rows the cursor has passed are still on their way.
Owing(d) ==
  \/ sock[d].lagged
  \/ \E n \in DOMAIN sock[d].down : Brings(sock[d].down[n], doc[d].cursor)
  \/ \E n \in DOMAIN sock[d].bcast : Brings(sock[d].bcast[n], doc[d].cursor)
  \/ \E p \in publishing : Brings(p.frame, doc[d].cursor)

Dial(d) ==
  /\ link[d] = "closed"
  /\ link' = [link EXCEPT ![d] = "hello"]
  /\ Connect(d, Hello(doc[d].cursor = 0 /\ doc[d].pending = <<>> /\ ~ doc[d].touched, doc[d].cursor))
  /\ UNCHANGED <<doc, saved, slot, nudged, historyVars>>

Received(d, t) == link[d] # "closed" /\ sock[d].down # <<>> /\ Head(sock[d].down).t = t

\* take_pushable: every batch that is not in flight on this connection.
PushAll(d, dc, s) ==
  LET queue == KeepAt(dc.pending, {n \in DOMAIN dc.pending : ~ dc.pending[n].flight})
  IN  /\ doc' = [doc EXCEPT ![d] = [dc EXCEPT !.pending = [n \in DOMAIN @ |-> [@[n] EXCEPT !.flight = TRUE]]]]
      /\ sock' = [sock EXCEPT ![d] = [s EXCEPT !.up = @ \o [n \in DOMAIN queue |-> Push(queue[n])]]]

Rest(d) == [sock[d] EXCEPT !.down = Tail(@)]

\* The answer to the hello: applied, the caller of a first join is told, and everything
\* pending is pushed.
ReceiveState(d, now) ==
  /\ link[d] = "hello" /\ Received(d, "state")
  /\ link' = [link EXCEPT ![d] = "ready"]
  /\ PushAll(d, [ApplyState(d, doc[d], Head(sock[d].down), now) EXCEPT !.epoch = epoch], Rest(d))
  /\ mistaken' = IF Head(sock[d].down).full \/ doc[d].epoch = epoch THEN mistaken
                 ELSE mistaken \cup {d}
  /\ slot' = [slot EXCEPT ![d] = IF @ = "none" THEN "joined" ELSE @]
  /\ unheard' = unheard \ {d}
  /\ UNCHANGED <<server, disk, stale, publishing, saved, nudged,
                 wall, writes, faults, torn, overtaken, epoch>>

\* The host, back from its first join and the look at its token, puts the client where
\* `mutate' finds it (followed on the devices that write: nothing else reads the slot).
FillSlot(d) ==
  /\ d \in Writers /\ slot[d] = "joined"
  /\ slot' = [slot EXCEPT ![d] = "filled"]
  /\ UNCHANGED <<roomVars, doc, saved, link, nudged, historyVars>>

\* Broadcasts ahead of the answer are skipped.
SkipFrame(d) ==
  /\ link[d] = "hello" /\ sock[d].down # <<>> /\ Head(sock[d].down).t # "state"
  /\ sock' = [sock EXCEPT ![d] = Rest(d)]
  /\ UNCHANGED <<server, disk, stale, publishing, docVars, historyVars>>

\* The frames of a joined session.  A state that answers a lag is applied, and what it
\* makes the replica queue waits for the next push.
ReceiveFrame(d, now) ==
  /\ link[d] = "ready" /\ sock[d].down # <<>>
  /\ LET f == Head(sock[d].down)
     IN  doc' = [doc EXCEPT ![d] = CASE f.t = "rows"  -> ApplyRows(@, f)
                                     [] f.t = "ack"   -> AckBatch(@, f)
                                     [] f.t = "state" -> ApplyState(d, @, f, now)]
  /\ sock' = [sock EXCEPT ![d] = Rest(d)]
  /\ UNCHANGED <<server, disk, stale, publishing, saved, link, slot, nudged, historyVars>>

PushPending(d) ==
  /\ link[d] = "ready" /\ d \in nudged
  /\ nudged' = nudged \ {d}
  /\ PushAll(d, doc[d], sock[d])
  /\ unheard' = unheard \ {d}
  /\ UNCHANGED <<server, disk, stale, publishing, saved, link, slot,
                 wall, writes, faults, torn, overtaken, epoch, mistaken>>

EndSession(d) ==
  /\ link' = [link EXCEPT ![d] = "closed"]
  /\ doc' = [doc EXCEPT ![d] = Landed(@)]

\* The connection is lost, or the client gives it up (probe, hello deadline, redial).
Cut(d) ==
  /\ link[d] # "closed"
  /\ Fault("cut")
  /\ torn' = IF Owing(d) THEN torn \cup {d} ELSE torn
  /\ EndSession(d)
  /\ Disconnect(d)
  /\ unheard' = unheard \ {d}
  /\ UNCHANGED <<saved, slot, nudged, wall, writes, overtaken, epoch, mistaken>>

-----------------------------------------------------------------------------
(* Snapshots, process death *)

\* The debounced save, which compacts the queue first.
SaveSnapshot(d, now) ==
  LET dc == Compacted(d, doc[d], now)
  IN  /\ d \in Savers
      /\ Kept(doc[d]) # saved[d].doc
      /\ doc' = [doc EXCEPT ![d] = dc]
      /\ saved' = [saved EXCEPT ![d] = [doc |-> Kept(dc),
                                        owing |-> Owing(d) \/ d \in torn]]
      /\ UNCHANGED <<roomVars, link, slot, nudged, historyVars>>

\* The process dies and starts again from the snapshot, which it compacts and saves.
Crash(d, now) ==
  LET dc == Compacted(d, saved[d].doc, now)
  IN  /\ d \in Savers
      /\ Fault("crash")
      /\ doc' = [doc EXCEPT ![d] = dc]
      /\ saved' = [saved EXCEPT ![d].doc = Kept(dc)]
      /\ link' = [link EXCEPT ![d] = "closed"]
      /\ slot' = [slot EXCEPT ![d] = "none"]
      /\ nudged' = nudged \ {d}
      /\ unheard' = unheard \ {d}
      /\ torn' = IF saved[d].owing THEN torn \cup {d} ELSE torn
      /\ wall' = [wall EXCEPT ![d] = IF "regress" \in FaultKinds THEN @ ELSE Greater(@, doc[d].clock.ms + 1)]
      /\ Disconnect(d)
      /\ UNCHANGED <<writes, overtaken, epoch, mistaken>>

\* The server process ends, with the table stored or (wipe) lost.
Restart(kind) ==
  /\ Fault(kind)
  /\ kind \in {"restart", "wipe"}
  /\ Reload(IF kind = "wipe" THEN EmptyTable ELSE disk)
  /\ epoch' = IF server' = server THEN epoch ELSE epoch + 1
  /\ torn' = torn \cup {d \in Devices : Owing(d)}
  /\ link' = [d \in Devices |-> "closed"]
  /\ doc' = [d \in Devices |-> Landed(doc[d])]
  /\ unheard' = {}
  /\ UNCHANGED <<saved, slot, nudged, wall, writes, overtaken, mistaken>>

-----------------------------------------------------------------------------

\* Whether the transaction of a batch commits.
Stored(stored) ==
  IF stored THEN faults' = faults ELSE Fault("unsaved")

Serve(d) ==
  \/ /\ SendBroadcast(d) \/ SendLaggedState(d) \/ HandleHello(d) \/ LoseStale(d)
     /\ UNCHANGED <<docVars, historyVars>>
  \/ \E stored \in BOOLEAN :
       /\ HandlePush(d, stored) \/ HandleStalePush(d, stored)
       /\ Stored(stored)
       /\ UNCHANGED <<docVars, wall, writes, torn, overtaken, epoch, mistaken, unheard>>

Publish(p) ==
  /\ FinishPush(p)
  /\ overtaken' = (overtaken \/ \E q \in publishing : q.frame.seq < p.frame.seq)
  /\ UNCHANGED <<docVars, wall, writes, faults, torn, epoch, mistaken, unheard>>

Next ==
  \/ \E d \in Devices : Serve(d) \/ Dial(d) \/ SkipFrame(d) \/ FillSlot(d) \/ PushPending(d) \/ Cut(d)
  \/ \E p \in publishing : Publish(p)
  \/ \E d \in Devices : \E now \in Readings(d) :
       \/ ReceiveState(d, now) \/ ReceiveFrame(d, now)
       \/ SaveSnapshot(d, now) \/ Crash(d, now)
       \/ \E kind \in Kinds, ids \in (SUBSET Ids) \ {{}}, F \in (SUBSET Fields) \ {{}} :
            LocalWrite(d, now, kind, ids, F)
  \/ \E kind \in {"restart", "wipe"} : Restart(kind)

Spec == Init /\ [][Next]_vars

Fairness ==
  /\ \A d \in Devices :
       /\ WF_vars(Serve(d)) /\ WF_vars(Dial(d)) /\ WF_vars(SkipFrame(d))
       /\ WF_vars(FillSlot(d)) /\ WF_vars(PushPending(d))
       /\ WF_vars(\E now \in Readings(d) : ReceiveState(d, now))
       /\ WF_vars(\E now \in Readings(d) : ReceiveFrame(d, now))
  /\ WF_vars(\E p \in publishing : Publish(p))

FairSpec == Spec /\ Fairness

-----------------------------------------------------------------------------
(* Properties *)

Table(t) == t.rows \in [Ids -> Row] /\ t.seq \in Nat /\ \A i \in Ids : t.rows[i].seq <= t.seq

\* Types, and what the parts of a replica must agree on: batch names are the replica's
\* own, rows are no newer than the cursor, a batch is in flight only on a connection.
TypeOK ==
  /\ Table(server) /\ Table(disk)
  /\ \A d \in Devices :
       /\ doc[d].rows \in [Ids -> Row]
       /\ doc[d].cursor \in Nat
       /\ \A m, n \in DOMAIN doc[d].pending :
            doc[d].pending[m].batch = doc[d].pending[n].batch => m = n
       /\ (\E n \in DOMAIN doc[d].pending : doc[d].pending[n].flight) => link[d] = "ready"
       /\ link[d] # "closed" <=> sock[d].open
       /\ Len(sock[d].bcast) <= BroadcastDepth

\* The device deleted the row no earlier than it wrote to it.
Overruled(dc, op) ==
  op.op = "upsert" /\ \E x \in dc.written : x.op = "delete" /\ x.id = op.id /\ x.hlc >= op.hlc

\* No write is lost on its way: as long as the server kept its table, an operation a
\* device issued and still remembers issuing is taken in by the server's row, or will
\* be once the device's queue is pushed - or its own delete has overruled it.
WriteIsKept ==
  epoch = 0 =>
    \A d \in Devices : \A op \in doc[d].written :
      \/ Overruled(doc[d], op)
      \/ Absorbed(ApplyOps(server.rows[op.id], PendingOps(doc[d], op.id)), op)

Carries(f, i) == f.t # "ack" /\ i \in DOMAIN f.rows /\ f.rows[i] = server.rows[i]

Coming(d, i) ==
  /\ link[d] = "ready"
  /\ \/ sock[d].lagged
     \/ \E n \in DOMAIN sock[d].down : Carries(sock[d].down[n], i)
     \/ \E n \in DOMAIN sock[d].bcast : Carries(sock[d].bcast[n], i)
     \/ \E p \in publishing : Carries(p.frame, i)

\* What the cursor claims: a row the server stamped at or under a replica's cursor is
\* the replica's, or is on its way on this connection.
CursorIsCovered ==
  \A d \in Devices, i \in Ids :
    /\ server.rows[i].seq <= doc[d].cursor
    /\ epoch = 0 /\ ~ overtaken /\ d \notin torn
    => doc[d].rows[i] = server.rows[i] \/ Coming(d, i)

\* The cursor is the last sequence the replica has fully applied (the comment on
\* `RegistryDoc::cursor'), said of a replica that is not connected.
CursorIsApplied ==
  \A d \in Devices, i \in Ids :
    epoch = 0 /\ link[d] = "closed" /\ server.rows[i].seq <= doc[d].cursor
      => doc[d].rows[i].seq = server.rows[i].seq

\* A replica's rows are server rows: none is stamped past the server's, and one with
\* the server's stamp is the server's.
RowsAreTheServers ==
  epoch = 0 =>
    \A d \in Devices, i \in Ids :
      /\ doc[d].rows[i].seq <= server.rows[i].seq
      /\ doc[d].rows[i].seq = server.rows[i].seq => doc[d].rows[i] = server.rows[i]

InSync ==
  \A d \in Devices :
    /\ doc[d].rows = server.rows
    /\ d \notin unheard => doc[d].pending = <<>>
    /\ \A op \in doc[d].written :
         Absorbed(ApplyOps(server.rows[op.id], PendingOps(doc[d], op.id)), op)

\* Once users and faults are done, every replica holds the server's rows, no write is
\* missing from them and nothing is pending, in spite of a server that lost its table:
\* the replicas gave back what they held.  It takes that no replica was torn or mistaken,
\* and no broadcast overtaken; and a device whose write found the slot still empty on a
\* session that had pushed already (workspace_host.rs:496) keeps it queued until it
\* writes again or reconnects.
Converges == <>[](overtaken \/ torn # {} \/ mistaken # {} \/ InSync)

=============================================================================
