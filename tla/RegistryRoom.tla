----------------------------- MODULE RegistryRoom ----------------------------
(***************************************************************************)
(* The registry room of the sync server: the table of rows with its        *)
(* sequence (crates/sync-server/src/registry.rs) and one loop per socket   *)
(* (handle_registry_socket in crates/sync-server/src/lib.rs).              *)
(*                                                                         *)
(*   server      the table in memory: rows and sequence                    *)
(*   disk        the table in the room database                            *)
(*   sock        device -> its socket: open, frames sent by the client     *)
(*               (`up'), broadcast frames its loop has not taken yet       *)
(*               (`bcast', `lagged' once some were lost), frames on their  *)
(*               way to the client (`down')                                *)
(*   stale       pushes of sockets their client has given up, which the    *)
(*               server may still read                                     *)
(*   publishing  batches that are merged, and whose rows are not broadcast *)
(*               yet: the table's lock is released in between              *)
(***************************************************************************)
EXTENDS RegistryRow, FiniteSets

CONSTANTS
  Devices,
  NoDevice,         \* in `publishing', a socket no client holds any more
  BroadcastDepth    \* frames the broadcast channel keeps for a slow socket (1024)

ASSUME RegistryRoomAssumption == BroadcastDepth \in Nat \ {0} /\ NoDevice \notin Devices

VARIABLES server, disk, sock, stale, publishing

roomVars == <<server, disk, sock, stale, publishing>>

EmptyTable == [rows |-> [i \in Ids |-> Missing], seq |-> 0]

NoSocket == [open |-> FALSE, lagged |-> FALSE, up |-> <<>>, bcast |-> <<>>, down |-> <<>>]

\* A hello may carry no cursor: a replica that never held anything.
Hello(fresh, cursor) == [t |-> "hello", fresh |-> fresh, cursor |-> cursor]
Push(b) == [t |-> "push", batch |-> b.batch, ops |-> b.ops]
RowsFrame(seq, rows) == [t |-> "rows", seq |-> seq, rows |-> rows]
Ack(batch, seq) == [t |-> "ack", batch |-> batch, seq |-> seq]

RoomInit ==
  /\ server = EmptyTable
  /\ disk = EmptyTable
  /\ sock = [d \in Devices |-> NoSocket]
  /\ stale = [d \in Devices |-> <<>>]
  /\ publishing = {}

-----------------------------------------------------------------------------
(* RegistryRoom *)

\* Mutant: the delta starts one row late.
StateFrameShort(fresh, cursor) ==
  LET full == fresh \/ cursor > server.seq
      ids == {i \in Ids : /\ server.rows[i].state # "missing"
                          /\ full \/ server.rows[i].seq > cursor + 1}
  IN  [t |-> "state", seq |-> server.seq, full |-> full,
       rows |-> [i \in ids |-> server.rows[i]]]

\* The whole table, or what is newer than the cursor.  A cursor ahead of the table
\* is one of a table that was lost.
StateFrame(fresh, cursor) ==
  LET full == fresh \/ cursor > server.seq
      ids == {i \in Ids : /\ server.rows[i].state # "missing"
                          /\ full \/ server.rows[i].seq > cursor}
  IN  [t |-> "state", seq |-> server.seq, full |-> full,
       rows |-> [i \in ids |-> server.rows[i]]]

OpsOn(ops, id) == KeepAt(ops, {n \in DOMAIN ops : ops[n].id = id})

\* Mutant: the rows keep the stamp they had.
TouchedUnstamped(ops) ==
  LET after == [i \in Ids |-> ApplyOps(server.rows[i], OpsOn(ops, i))]
  IN  [i \in {j \in Ids : after[j] # server.rows[j]} |-> after[i]]

\* The rows a batch changes, stamped with the sequence it gets.
Touched(ops) ==
  LET after == [i \in Ids |-> ApplyOps(server.rows[i], OpsOn(ops, i))]
  IN  [i \in {j \in Ids : after[j] # server.rows[j]} |->
         [after[i] EXCEPT !.seq = server.seq + 1]]

WithRows(rows, changed) == [i \in Ids |-> IF i \in DOMAIN changed THEN changed[i] ELSE rows[i]]

WithBatch(table, changed) == [rows |-> WithRows(table.rows, changed), seq |-> server.seq + 1]

\* One transaction stores rows and sequence.  When it fails the batch is served from
\* memory all the same.
Merge(changed, stored) ==
  IF DOMAIN changed = {} THEN UNCHANGED <<server, disk>>
  ELSE /\ server' = WithBatch(server, changed)
       /\ disk' = IF stored THEN WithBatch(disk, changed) ELSE disk

-----------------------------------------------------------------------------
(* The loop of one socket.  The select is biased: what is to be sent goes  *)
(* first, and a reply before any broadcast, so that a reply is the next    *)
(* frame on the wire.                                                      *)

\* The channel keeps the last BroadcastDepth frames for each socket.
Queue(s, frame) ==
  IF ~ s.open THEN s
  ELSE IF Len(s.bcast) < BroadcastDepth THEN [s EXCEPT !.bcast = Append(@, frame)]
  ELSE [s EXCEPT !.bcast = Append(Tail(@), frame), !.lagged = TRUE]

Busy(d) == \E p \in publishing : p.to = d

SendBroadcast(d) ==
  /\ sock[d].open /\ ~ Busy(d)
  /\ ~ sock[d].lagged
  /\ sock[d].bcast # <<>>
  /\ sock' = [sock EXCEPT ![d].bcast = Tail(@), ![d].down = Append(@, Head(sock[d].bcast))]
  /\ UNCHANGED <<server, disk, stale, publishing>>

\* A socket that lost frames gets the whole table, then what the channel still holds.
SendLaggedState(d) ==
  /\ sock[d].open /\ ~ Busy(d)
  /\ sock[d].lagged
  /\ sock' = [sock EXCEPT ![d].lagged = FALSE, ![d].down = Append(@, StateFrame(TRUE, 0))]
  /\ UNCHANGED <<server, disk, stale, publishing>>

NextFrame(d, t) ==
  /\ sock[d].open /\ ~ Busy(d)
  /\ ~ sock[d].lagged /\ sock[d].bcast = <<>>
  /\ sock[d].up # <<>>
  /\ Head(sock[d].up).t = t

HandleHello(d) ==
  /\ NextFrame(d, "hello")
  /\ sock' = [sock EXCEPT ![d].up = Tail(@),
                          ![d].down = Append(@, StateFrame(Head(sock[d].up).fresh, Head(sock[d].up).cursor))]
  /\ UNCHANGED <<server, disk, stale, publishing>>

\* A batch that changes nothing is acknowledged at once; the rows of any other are in
\* hand until they are broadcast.
HandlePush(d, stored) ==
  /\ NextFrame(d, "push")
  /\ LET push == Head(sock[d].up)
         changed == Touched(push.ops)
     IN  /\ DOMAIN changed = {} => stored
         /\ Merge(changed, stored)
         /\ IF DOMAIN changed = {}
            THEN /\ sock' = [sock EXCEPT ![d].up = Tail(@),
                                         ![d].down = Append(@, Ack(push.batch, server.seq))]
                 /\ UNCHANGED publishing
            ELSE /\ sock' = [sock EXCEPT ![d].up = Tail(@)]
                 /\ publishing' = publishing \cup
                      {[to |-> d, batch |-> push.batch, frame |-> RowsFrame(server.seq + 1, changed)]}
  /\ UNCHANGED stale

\* The rows go to every socket, the pusher's too, whose own ack is sent before them.
FinishPush(p) ==
  /\ p \in publishing
  /\ publishing' = publishing \ {p}
  /\ sock' = [d \in Devices |->
                LET s == Queue(sock[d], p.frame)
                IN  IF d = p.to THEN [s EXCEPT !.down = Append(@, Ack(p.batch, p.frame.seq))] ELSE s]
  /\ UNCHANGED <<server, disk, stale>>

HandleStalePush(d, stored) ==
  /\ stale[d] # <<>>
  /\ LET changed == Touched(Head(stale[d]).ops)
     IN  /\ DOMAIN changed = {} => stored
         /\ Merge(changed, stored)
         /\ publishing' = IF DOMAIN changed = {} THEN publishing
                          ELSE publishing \cup
                            {[to |-> NoDevice, batch |-> Head(stale[d]).batch,
                              frame |-> RowsFrame(server.seq + 1, changed)]}
  /\ stale' = [stale EXCEPT ![d] = Tail(@)]
  /\ UNCHANGED sock

LoseStale(d) ==
  /\ stale[d] # <<>>
  /\ stale' = [stale EXCEPT ![d] = <<>>]
  /\ UNCHANGED <<server, disk, sock, publishing>>

-----------------------------------------------------------------------------
(* Connections *)

Connect(d, hello) ==
  /\ sock' = [sock EXCEPT ![d] = [NoSocket EXCEPT !.open = TRUE, !.up = <<hello>>]]
  /\ UNCHANGED <<server, disk, stale, publishing>>

\* The client's end is gone; what it had sent may still be read.
Disconnect(d) ==
  /\ sock' = [sock EXCEPT ![d] = NoSocket]
  /\ stale' = [stale EXCEPT ![d] = @ \o KeepAt(sock[d].up, {n \in DOMAIN sock[d].up : sock[d].up[n].t = "push"})]
  /\ publishing' = {IF p.to = d THEN [p EXCEPT !.to = NoDevice] ELSE p : p \in publishing}
  /\ UNCHANGED <<server, disk>>

\* The server process ends: it comes back with the table that its database holds.
Reload(table) ==
  /\ server' = table
  /\ disk' = table
  /\ sock' = [d \in Devices |-> NoSocket]
  /\ stale' = [d \in Devices |-> <<>>]
  /\ publishing' = {}

=============================================================================
