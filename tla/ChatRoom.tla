------------------------------- MODULE ChatRoom ------------------------------
(***************************************************************************)
(* The chat2 hub of the sync server (crates/sync-server/src/chat_room.rs): *)
(* one socket per connected device, each served by its own loop, around    *)
(* one ChatLog.                                                            *)
(*                                                                         *)
(* A socket is a record: the frames the client has sent (`up'), the room's *)
(* broadcast events its loop has not taken yet (`bcast'), the frames sent  *)
(* to the client (`down'), whether it said hello (`ready'), and what its   *)
(* loop still owes the frame it is handling (`owes', `stats'): the         *)
(* handlers of HELLO and ROWS_REQ read the log twice, and other sockets    *)
(* append in between.                                                      *)
(*                                                                         *)
(* A connection the client has given up on may still be read by the hub:   *)
(* `stale' holds the pushes of such dead sockets that can still arrive.    *)
(***************************************************************************)
EXTENDS ChatLog, Sequences, SequenceParts, SequencesExt

CONSTANTS
  BroadcastDepth,   \* BROADCAST_DEPTH: events a slow socket may fall behind
  DeadSocket        \* origin of an event whose socket no client holds any more

ASSUME ChatRoomAssumption == BroadcastDepth \in Nat \ {0} /\ DeadSocket \notin Devices

VARIABLES sock, stale

roomVars == <<sock, stale>>

NoStats == [head |-> 0, stored |-> FALSE, ckptSeq |-> 0]

NoSocket == [open |-> FALSE, ready |-> FALSE, owes |-> "nothing", stats |-> NoStats,
             up |-> <<>>, bcast |-> <<>>, down |-> <<>>]

\* The frames of crates/sync/src/chat_frames.rs, reduced to what the receiver reads.
Hello == [kind |-> "hello"]
RowsReq(after, excludeOwn) == [kind |-> "rowsReq", after |-> after, excludeOwn |-> excludeOwn]
Push(batch) == [kind |-> "push", batch |-> batch]
State(stats, frontier) == [kind |-> "state", stats |-> stats, frontier |-> frontier]
RowFrame(seq, ops) == [kind |-> "row", seq |-> seq, ops |-> ops]
AckFrame(id, seq) == [kind |-> "ack", id |-> id, seq |-> seq]
RowsDone(head) == [kind |-> "rowsDone", head |-> head]

\* Room events: a row goes to every socket but its origin, an ack to its origin.
RowEvent(origin, seq, ops) == [origin |-> origin, frame |-> RowFrame(seq, ops)]
AckEvent(origin, id, seq) == [origin |-> origin, frame |-> AckFrame(id, seq)]

\* No event is echoed to its origin and an ack goes nowhere else.
Addressed(d, event) == (event.frame.kind = "ack") <=> (event.origin = d)

\* A socket that has not said hello yet gets no relayed traffic.
Delivered(d, event) == event.frame.kind = "ack" \/ sock[d].ready

\* Every subscribed socket queues the events addressed to it.  (In the channel of
\* the code it queues the others too and drops them when it takes them.)
FanOut(sockets, events) ==
  [d \in Devices |->
     IF sockets[d].open
     THEN [sockets[d] EXCEPT
             !.bcast = @ \o KeepAt(events, {n \in DOMAIN events : Addressed(d, events[n])})]
     ELSE sockets[d]]

IsPush(frame) == frame.kind = "push"

RoomInit ==
  /\ sock = [d \in Devices |-> NoSocket]
  /\ stale = [d \in Devices |-> <<>>]

-----------------------------------------------------------------------------
(* The serve loop of one socket.  The select is biased: a frame is read    *)
(* only when no event is waiting.                                          *)

CanServe(d) == sock[d].open /\ sock[d].owes = "nothing"

\* ChatLog::stats, what catching up reads of it.
Stats == [head |-> headSeq, stored |-> checkpoint.stored, ckptSeq |-> checkpoint.seq]

ServeEvent(d) ==
  /\ CanServe(d)
  /\ sock[d].bcast # <<>>
  /\ Len(sock[d].bcast) <= BroadcastDepth
  /\ LET event == Head(sock[d].bcast)
     IN  sock' = [sock EXCEPT
                    ![d].bcast = Tail(@),
                    ![d].down = IF Delivered(d, event) THEN Append(@, event.frame) ELSE @]
  /\ UNCHANGED <<stale, logVars>>

\* Mutant: the loop shrugs off what it missed and goes on.
SkipLagged(d) ==
  /\ CanServe(d)
  /\ Len(sock[d].bcast) > BroadcastDepth
  /\ sock' = [sock EXCEPT ![d].bcast = Tail(@)]
  /\ UNCHANGED <<stale, logVars>>

\* The socket fell behind the channel: missed events cannot be replayed, so
\* the loop ends and the client will see the connection close.
CloseLagged(d) ==
  /\ CanServe(d)
  /\ Len(sock[d].bcast) > BroadcastDepth
  /\ sock' = [sock EXCEPT ![d].open = FALSE, ![d].bcast = <<>>, ![d].up = <<>>]
  /\ UNCHANGED <<stale, logVars>>

NextFrame(d, kind) ==
  /\ CanServe(d)
  /\ sock[d].bcast = <<>>
  /\ sock[d].up # <<>>
  /\ Head(sock[d].up).kind = kind

\* Mutant: the hello does not subscribe the socket.
HandleHelloUnready(d) ==
  /\ NextFrame(d, "hello")
  /\ sock' = [sock EXCEPT ![d].up = Tail(@), ![d].owes = "state", ![d].stats = Stats]
  /\ UNCHANGED <<stale, logVars>>

\* First half of HELLO: the statistics.
HandleHello(d) ==
  /\ NextFrame(d, "hello")
  /\ sock' = [sock EXCEPT ![d].up = Tail(@), ![d].ready = TRUE, ![d].owes = "state", ![d].stats = Stats]
  /\ UNCHANGED <<stale, logVars>>

\* Second half: the frontier blob, of now.
SendState(d) ==
  /\ sock[d].open /\ sock[d].owes = "state"
  /\ sock' = [sock EXCEPT ![d].owes = "nothing", ![d].stats = NoStats,
                          ![d].down = Append(@, State(sock[d].stats, checkpoint.frontier))]
  /\ UNCHANGED <<stale, logVars>>

\* First half of ROWS_REQ: the rows are read in one query and written out.
HandleRowsReq(d) ==
  /\ NextFrame(d, "rowsReq")
  /\ LET req == Head(sock[d].up)
         seqs == KeepAt([s \in 1 .. headSeq |-> s],
                        RowsAfter(req.after, IF req.excludeOwn THEN {d} ELSE {}))
         frames == [i \in DOMAIN seqs |-> RowFrame(seqs[i], rows[seqs[i]].ops)]
     IN  sock' = [sock EXCEPT ![d].up = Tail(@), ![d].owes = "rowsDone",
                              ![d].down = @ \o frames]
  /\ UNCHANGED <<stale, logVars>>

\* Second half: the head is read after the rows went out, so pushes handled by
\* other sockets in between are counted by it.
FinishRows(d) ==
  /\ sock[d].open /\ sock[d].owes = "rowsDone"
  /\ sock' = [sock EXCEPT ![d].owes = "nothing", ![d].down = Append(@, RowsDone(headSeq))]
  /\ UNCHANGED <<stale, logVars>>

-----------------------------------------------------------------------------
(* PUSH: append and fan-out happen under the publish lock, one step. *)

AppendAndPublish(sockets, origin, device, batch) ==
  \/ /\ AppendRow(device, batch.id, batch.ops)
     /\ sock' = FanOut(sockets, <<RowEvent(origin, headSeq + 1, batch.ops),
                                  AckEvent(origin, batch.id, headSeq + 1)>>)
  \/ /\ Admissible(batch.ops)
     /\ IsReplay(batch.id)
     /\ sock' = FanOut(sockets, <<AckEvent(origin, batch.id, OriginalSeq(batch.id))>>)
     /\ UNCHANGED logVars

HandlePush(d) ==
  /\ NextFrame(d, "push")
  /\ AppendAndPublish([sock EXCEPT ![d].up = Tail(@)], d, d, Head(sock[d].up).batch)
  /\ UNCHANGED stale

\* A push that was already on its way when the client dropped the connection.
HandleStalePush(d) ==
  /\ stale[d] # <<>>
  /\ AppendAndPublish(sock, DeadSocket, d, Head(stale[d]).batch)
  /\ stale' = [stale EXCEPT ![d] = Tail(@)]

\* ... or that died with it.
LoseStale(d) ==
  /\ stale[d] # <<>>
  /\ stale' = [stale EXCEPT ![d] = <<>>]
  /\ UNCHANGED <<sock, logVars>>

HubStep(d) ==
  \/ ServeEvent(d)
  \/ CloseLagged(d)
  \/ HandleHello(d)
  \/ SendState(d)
  \/ HandleRowsReq(d)
  \/ FinishRows(d)
  \/ HandlePush(d)

=============================================================================
