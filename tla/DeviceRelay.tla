----------------------------- MODULE DeviceRelay -----------------------------
(***************************************************************************)
(* Calls and nudges to another device, through its room on the sync server *)
(* (crates/sync-server/src/device_relay.rs).  The device holds the room's  *)
(* one host socket and serves a virtual connection per client (HostRelay   *)
(* in crates/rpc/src/device_room.rs); a controlling device keeps one       *)
(* cached link, dialed on demand and proved by a probe call (LinkCache,    *)
(* DeviceLink); `forward' (crates/engine/src/rpc.rs) puts calls on it.     *)
(*                                                                         *)
(* A socket has two ends.  It is closed, which the other end reads behind  *)
(* what was sent before, or cut, which tells nobody: the device's end      *)
(* notices after its silence lease, the server's end perhaps never.        *)
(***************************************************************************)
EXTENDS Naturals, FiniteSets, Sequences, SequencesExt

CONSTANTS
  Calls,          \* calls of the controlling device's users
  Chats,          \* chats that may be nudged
  Attempts,       \* dials in one call's attempt to get a link (3)
  NudgeCapacity,  \* nudges kept for an absent host (256)
  FaultKinds,     \* faults of this run: "cut" and "close" of a socket, "wake", "restart"
  MaxFaults,      \* bound: faults in a behaviour
  MaxLinks,       \* bound: links at a time; a number is used again when it is forgotten
  MaxNudges       \* bound: nudges

Probe == "probe"
NoCall == "nobody"

ASSUME DeviceRelayAssumption ==
  /\ Probe \notin Calls /\ NoCall \notin Calls
  /\ Attempts \in Nat \ {0} /\ NudgeCapacity \in Nat \ {0} /\ MaxLinks \in Nat \ {0}
  /\ FaultKinds \subseteq {"cut", "close", "wake", "restart"}
  /\ MaxFaults \in Nat /\ MaxNudges \in Nat

VARIABLES
  room,           \* the host's session (0 if none), the clients' links, queued nudges
  session,        \* the host's sockets, one after the other
  link,           \* the controlling device's sockets
  cache,          \* the cached link, 0 if none
  dialer,         \* the call that holds the dial lock
  cooling,        \* dials are refused after a failed one
  call,           \* call -> where it is in forward
  nudge,          \* history: chat -> what became of its last nudge
  stranded,       \* history: calls with the old host when a new one superseded it
  nudges, faults  \* counters of the bounds

Links == 1 .. MaxLinks
Sessions == 1 .. MaxFaults + 1

NoLink == [stage |-> "none", cut |-> FALSE, probed |-> FALSE, up |-> <<>>, down |-> <<>>]
NoSession == [stage |-> "none", cut |-> FALSE, up |-> <<>>, down |-> <<>>, conns |-> {}, serving |-> {}]
EmptyRoom == [host |-> 0, clients |-> {}, nudges |-> <<>>]

Rpc(l, c) == [t |-> "rpc", link |-> l, call |-> c]
ClientGone(l) == [t |-> "gone", link |-> l]     \* client_closed and client_gone
HostGone == [t |-> "relay"]                     \* host_closed and host_offline
NudgeFrame(k) == [t |-> "nudge", chat |-> k]
Closed == [t |-> "close"]

Init ==
  /\ room = EmptyRoom
  /\ session = [s \in Sessions |-> NoSession]
  /\ link = [l \in Links |-> NoLink]
  /\ cache = 0 /\ dialer = NoCall /\ cooling = FALSE
  /\ call = [c \in Calls |-> [stage |-> "idle", link |-> 0, attempt |-> 0]]
  /\ nudge = [k \in Chats |-> "none"]
  /\ stranded = {}
  /\ nudges = 0 /\ faults = 0

cacheVars == <<cache, dialer, cooling>>
vars == <<room, session, link, cacheVars, call, nudge, stranded, nudges, faults>>

\* Can a frame still get from the server to the far end?
Reaches(end) == end.stage \in {"open", "joined"} /\ ~ end.cut

Send(ends, n, f) ==
  IF n # 0 /\ Reaches(ends[n]) THEN [ends EXCEPT ![n].down = Append(@, f)] ELSE ends

SendAll(ends, ns, f) ==
  [n \in DOMAIN ends |->
     IF n \in ns /\ Reaches(ends[n]) THEN [ends[n] EXCEPT !.down = Append(@, f)] ELSE ends[n]]

Heard(end, t) == ~ end.cut /\ end.up # <<>> /\ Head(end.up).t = t

-----------------------------------------------------------------------------
(* The relay *)

\* Mutant: a client that leaves is not announced.
ClientLeavesQuietly(l) ==
  /\ room' = [room EXCEPT !.clients = @ \ {l}]
  /\ session' = session
  /\ link' = [link EXCEPT ![l].up = <<>>]

ClientLeaves(l) ==
  /\ room' = [room EXCEPT !.clients = @ \ {l}]
  /\ session' = Send(session, room.host, ClientGone(l))
  /\ link' = [link EXCEPT ![l].up = <<>>]

\* Mutant: the clients are not told that the host left.
HostLeavesQuietly(s) ==
  /\ room' = IF room.host = s THEN [room EXCEPT !.host = 0] ELSE room
  /\ session' = [session EXCEPT ![s].up = <<>>]
  /\ link' = link

\* Every client is told - unless a newer host has superseded this one already.
HostLeaves(s) ==
  /\ room' = IF room.host = s THEN [room EXCEPT !.host = 0] ELSE room
  /\ session' = [session EXCEPT ![s].up = <<>>]
  /\ link' = IF room.host = s THEN SendAll(link, room.clients, HostGone) ELSE link

relayOnly == <<cacheVars, call, nudge, stranded, nudges, faults>>

\* A client's frame goes to the host, or bounces.
RouteUp(l) ==
  /\ l \in room.clients /\ Heard(link[l], "rpc")
  /\ link' = LET taken == [link EXCEPT ![l].up = Tail(@)]
             IN  IF room.host = 0 THEN Send(taken, l, HostGone) ELSE taken
  /\ session' = Send(session, room.host, Head(link[l].up))
  /\ UNCHANGED <<room, relayOnly>>

\* A frame of the registered host goes to its client, or bounces.
RouteDown(s) ==
  /\ room.host = s /\ Heard(session[s], "rpc")
  /\ LET f == Head(session[s].up)
         taken == [session EXCEPT ![s].up = Tail(@)]
     IN  /\ link' = IF f.link \in room.clients THEN Send(link, f.link, f) ELSE link
         /\ session' = IF f.link \in room.clients THEN taken
                       ELSE Send(taken, s, ClientGone(f.link))
  /\ UNCHANGED <<room, relayOnly>>

\* A socket is read to its end; of a superseded host nothing is routed.
ReadEnd ==
  \/ \E l \in room.clients : Heard(link[l], "close") /\ ClientLeaves(l) /\ UNCHANGED relayOnly
  \/ \E s \in Sessions :
       /\ Heard(session[s], "close") \/ (session[s].up # <<>> /\ room.host # s)
       /\ HostLeaves(s)
       /\ UNCHANGED relayOnly

\* The server finds out about a socket that was cut, if it ever does.
NoticeCut ==
  /\ \/ \E l \in room.clients : link[l].cut /\ ClientLeaves(l)
     \/ room.host # 0 /\ session[room.host].cut /\ HostLeaves(room.host)
  /\ UNCHANGED relayOnly

\* POST nudge: to the registered host, if the writer of its socket still runs; or into
\* the queue, behind whatever it holds of other chats (a chat is in it once), the oldest
\* making place.
Nudge(k) ==
  LET waiting == RemoveFirst(room.nudges, k)
      full == Len(waiting) >= NudgeCapacity
      kept == IF full THEN Tail(waiting) ELSE waiting
  IN
  /\ nudges < MaxNudges
  /\ nudges' = nudges + 1
  /\ \/ /\ room.host # 0
        /\ session' = Send(session, room.host, NudgeFrame(k))
        /\ nudge' = [nudge EXCEPT ![k] = IF Reaches(session[room.host]) THEN "owed" ELSE "lost"]
        /\ UNCHANGED room
     \/ /\ room.host # 0 => ~ Reaches(session[room.host])
        /\ room' = [room EXCEPT !.nudges = Append(kept, k)]
        /\ nudge' = [x \in Chats |-> IF x = k THEN "owed"
                                     ELSE IF full /\ x = Head(waiting) THEN "lost" ELSE nudge[x]]
        /\ UNCHANGED session
  /\ UNCHANGED <<link, cacheVars, call, stranded, faults>>

-----------------------------------------------------------------------------
(* The host *)

Joined(s) == session[s].stage = "joined"

\* Calls the host was given and has not answered: nobody but a host's leaving or its
\* answer ends them.
WithHost ==
  {c \in Calls : /\ call[c].stage = "sent" /\ call[c].link \in room.clients
                 /\ ~ Contains(link[call[c].link].up, Rpc(call[c].link, c))
                 /\ ~ Contains(link[call[c].link].down, Rpc(call[c].link, c))}

\* Mutant: the queue is cleared before it is replayed.
HostJoinsForgetting(s) ==
  /\ session[s].stage = "none"
  /\ \A x \in 1 .. s - 1 : session[x].stage = "ended"
  /\ room' = [room EXCEPT !.host = s, !.nudges = <<>>]
  /\ session' = [Send(session, room.host, Closed) EXCEPT ![s] = [NoSession EXCEPT !.stage = "joined"]]
  /\ stranded' = IF room.host = 0 THEN stranded ELSE stranded \cup WithHost
  /\ UNCHANGED <<link, cacheVars, call, nudge, nudges, faults>>

\* It dials again after every session, and takes the room from whichever socket holds
\* it; the nudges that waited come first.
HostJoins(s) ==
  /\ session[s].stage = "none"
  /\ \A x \in 1 .. s - 1 : session[x].stage = "ended"
  /\ room' = [room EXCEPT !.host = s, !.nudges = <<>>]
  /\ session' = [Send(session, room.host, Closed) EXCEPT
                   ![s] = [NoSession EXCEPT !.stage = "joined",
                             !.down = [n \in DOMAIN room.nudges |-> NudgeFrame(room.nudges[n])]]]
  /\ stranded' = IF room.host = 0 THEN stranded ELSE stranded \cup WithHost
  /\ UNCHANGED <<link, cacheVars, call, nudge, nudges, faults>>

hostOnly == <<room, link, cacheVars, call, stranded, nudges>>

\* Mutant: the virtual connections are kept.
EndedKeepingConns(s) ==
  [session[s] EXCEPT !.stage = "ended", !.down = <<>>, !.serving = {},
                     !.up = IF session[s].cut THEN <<>> ELSE Append(@, Closed)]

\* The host's end of a socket goes, and with it every virtual connection and what runs
\* for it.
Ended(s) ==
  [session[s] EXCEPT !.stage = "ended", !.down = <<>>, !.serving = {}, !.conns = {},
                     !.up = IF session[s].cut THEN <<>> ELSE Append(@, Closed)]

\* Nudges on a socket that dies.
LoseNudges(s) ==
  nudge' = [k \in Chats |->
              IF Contains(session[s].down, NudgeFrame(k)) /\ ~ Contains(room.nudges, k)
              THEN "lost" ELSE nudge[k]]

HostTakes(s) ==
  LET f == Head(session[s].down)
      rest == [session EXCEPT ![s].down = Tail(@)]
  IN
  /\ Joined(s) /\ session[s].down # <<>>
  /\ CASE f.t = "rpc"   -> session' = [rest EXCEPT ![s].conns = @ \cup {f.link},
                                                   ![s].serving = @ \cup {<<f.link, f.call>>}]
       [] f.t = "gone"  -> session' = [rest EXCEPT ![s].conns = @ \ {f.link},
                                                   ![s].serving = {x \in @ : x[1] # f.link}]
       [] f.t = "nudge" -> session' = rest
       [] f.t = "close" -> session' = [session EXCEPT ![s] = Ended(s)]
  /\ nudge' = IF f.t = "nudge" /\ ~ Contains(rest[s].down, f)
              THEN [nudge EXCEPT ![f.chat] = "opened"] ELSE nudge
  /\ UNCHANGED <<hostOnly, faults>>

\* The service answers, calls of one connection in any order.
Answer(s) ==
  /\ Joined(s)
  /\ \E x \in session[s].serving :
       session' = [session EXCEPT ![s].serving = @ \ {x},
                                  ![s].up = IF session[s].cut THEN @ ELSE Append(@, Rpc(x[1], x[2]))]
  /\ UNCHANGED <<hostOnly, nudge, faults>>

HostLease(s) ==
  /\ Joined(s) /\ session[s].cut
  /\ session' = [session EXCEPT ![s] = Ended(s)]
  /\ UNCHANGED <<hostOnly, nudge, faults>>

-----------------------------------------------------------------------------
(* The controlling device: links *)

Heeded(l) == l \in room.clients /\ ~ link[l].cut

\* A link goes down, or is dropped: its calls fail, the server reads the end.
DownLink(l) ==
  [link EXCEPT ![l].stage = "down", ![l].down = <<>>,
               ![l].up = IF Heeded(l) THEN Append(@, Closed) ELSE <<>>]

CallsFailedBy(l) ==
  [c \in Calls |-> IF call[c].stage = "sent" /\ call[c].link = l
                   THEN [call[c] EXCEPT !.stage = "failing"] ELSE call[c]]

Up(l) == l # 0 /\ link[l].stage = "open"

linkOnly == <<room, session, nudge, stranded, nudges>>

\* The pump: an answer ends its call, a relay frame or a close ends the link.
LinkTakes(l) ==
  LET f == Head(link[l].down)
      rest == [link EXCEPT ![l].down = Tail(@)]
  IN
  /\ Up(l) /\ link[l].down # <<>>
  /\ CASE f.t = "rpc" /\ f.call = Probe ->
            link' = [rest EXCEPT ![l].probed = TRUE] /\ UNCHANGED call
       [] f.t = "rpc" /\ f.call # Probe ->
            link' = rest /\ call' = [call EXCEPT ![f.call].stage = "done"]
       [] OTHER ->
            link' = DownLink(l) /\ call' = CallsFailedBy(l)
  /\ UNCHANGED <<linkOnly, cacheVars, faults>>

LinkLease(l) ==
  /\ Up(l) /\ link[l].cut
  /\ link' = DownLink(l) /\ call' = CallsFailedBy(l)
  /\ UNCHANGED <<linkOnly, cacheVars, faults>>

\* The cache's own watcher drops the link it was started for, no other.
Evict ==
  /\ cache # 0 /\ ~ Up(cache)
  /\ cache' = 0
  /\ UNCHANGED <<linkOnly, link, dialer, cooling, call, faults>>

-----------------------------------------------------------------------------
(* The controlling device: calls *)

At(c, stage) == call[c].stage = stage
Move(c, stage) == call' = [call EXCEPT ![c].stage = stage]

Ask(c) ==
  /\ At(c, "idle") /\ Move(c, "asked")
  /\ UNCHANGED <<linkOnly, link, cacheVars, faults>>

\* A cached link serves at once; without one, one call at a time may dial, unless the
\* last sequence of dials failed a moment ago.
GetLink(c) ==
  /\ At(c, "asked")
  /\ \/ /\ Up(cache)
        /\ call' = [call EXCEPT ![c].stage = "holding", ![c].link = cache]
        /\ UNCHANGED cacheVars
     \/ /\ ~ Up(cache) /\ dialer = NoCall
        /\ cache' = 0
        /\ Move(c, IF cooling THEN "failed" ELSE "dialing")
        /\ dialer' = IF cooling THEN NoCall ELSE c
        /\ UNCHANGED cooling
  /\ UNCHANGED <<linkOnly, link, faults>>

\* Nothing refers to the link any more.
Forgotten(l) ==
  /\ link[l].stage # "open" /\ link[l].up = <<>>
  /\ l \notin room.clients /\ cache # l
  /\ \A c \in Calls : call[c].link = l => call[c].stage \in {"done", "failed"}
  /\ \A s \in Sessions :
       /\ l \notin session[s].conns
       /\ \A f \in ToSet(session[s].up) \cup ToSet(session[s].down) : "link" \in DOMAIN f => f.link # l

\* The server accepts a client whether or not there is a host; the probe follows.
Dial(c) ==
  /\ At(c, "dialing") /\ call[c].link = 0
  /\ \E l \in Links :
       /\ Forgotten(l) /\ \A x \in 1 .. l - 1 : ~ Forgotten(x)
       /\ link' = [link EXCEPT ![l] = [NoLink EXCEPT !.stage = "open", !.up = <<Rpc(l, Probe)>>]]
       /\ room' = [room EXCEPT !.clients = @ \cup {l}]
       /\ call' = [call EXCEPT ![c].link = l, ![c].attempt = @ + 1]
  /\ UNCHANGED <<session, nudge, stranded, nudges, cacheVars, faults>>

\* Proved: the link is cached, whatever happened to it since the answer.
Connected(c) ==
  /\ At(c, "dialing") /\ call[c].link # 0 /\ link[call[c].link].probed
  /\ cache' = call[c].link /\ dialer' = NoCall /\ cooling' = FALSE
  /\ Move(c, "holding")
  /\ UNCHANGED <<linkOnly, link, faults>>

\* No answer: the link went down, or the probe's time is up and the link is dropped.
\* The last attempt's failure starts the cooldown.
DialFails(c) ==
  LET l == call[c].link  last == call[c].attempt >= Attempts IN
  /\ At(c, "dialing") /\ l # 0 /\ ~ link[l].probed
  /\ link' = IF Up(l) THEN DownLink(l) ELSE link
  /\ call' = [call EXCEPT ![c].link = 0, ![c].stage = IF last THEN "failed" ELSE @]
  /\ dialer' = IF last THEN NoCall ELSE dialer
  /\ cooling' = (cooling \/ last)
  /\ UNCHANGED <<linkOnly, cache, faults>>

CooldownOver ==
  /\ cooling /\ cooling' = FALSE
  /\ UNCHANGED <<linkOnly, link, cache, dialer, call, faults>>

\* The call goes out, or finds its link closed by now.
Put(c) ==
  LET l == call[c].link IN
  /\ At(c, "holding")
  /\ IF Up(l) THEN /\ Move(c, "sent")
                   /\ link' = IF Heeded(l) THEN [link EXCEPT ![l].up = Append(@, Rpc(l, c))]
                              ELSE link
     ELSE Move(c, "failing") /\ UNCHANGED link
  /\ UNCHANGED <<linkOnly, cacheVars, faults>>

\* invalidate: whatever link is cached by now is dropped.
DropCached(called) ==
  /\ cache' = 0
  /\ link' = IF Up(cache) THEN DownLink(cache) ELSE link
  /\ call' = called

Fail(c) ==
  /\ At(c, "failing")
  /\ DropCached([(IF Up(cache) THEN CallsFailedBy(cache) ELSE call) EXCEPT ![c].stage = "failed"])
  /\ UNCHANGED <<linkOnly, dialer, cooling, faults>>

-----------------------------------------------------------------------------
(* Faults *)

Fault(kind) == kind \in FaultKinds /\ faults < MaxFaults /\ faults' = faults + 1

\* What is under way on the socket is lost, and nobody is told.
CutSession(s) ==
  /\ Joined(s) /\ ~ session[s].cut /\ Fault("cut")
  /\ session' = [session EXCEPT ![s].cut = TRUE, ![s].up = <<>>, ![s].down = <<>>]
  /\ LoseNudges(s)
  /\ UNCHANGED hostOnly

CutLink(l) ==
  /\ Up(l) /\ ~ link[l].cut /\ Fault("cut")
  /\ link' = [link EXCEPT ![l].cut = TRUE, ![l].up = <<>>, ![l].down = <<>>]
  /\ UNCHANGED <<linkOnly, cacheVars, call>>

\* The socket dies at the device's end, or is given up there.
CloseSession(s) ==
  /\ Joined(s) /\ Fault("close")
  /\ session' = [session EXCEPT ![s] = Ended(s)]
  /\ LoseNudges(s)
  /\ UNCHANGED hostOnly

CloseLink(l) ==
  /\ Up(l) /\ Fault("close")
  /\ link' = DownLink(l) /\ call' = CallsFailedBy(l)
  /\ UNCHANGED <<linkOnly, cacheVars>>

\* The controlling device wakes: links and cooldowns are dropped.
Wake ==
  /\ Fault("wake")
  /\ DropCached(IF Up(cache) THEN CallsFailedBy(cache) ELSE call)
  /\ cooling' = FALSE
  /\ UNCHANGED <<linkOnly, dialer>>

\* The server's process ends: the room is gone, and every socket closes.
Restart ==
  /\ Fault("restart")
  /\ room' = EmptyRoom
  /\ session' = [s \in Sessions |-> IF Reaches(session[s])
                                    THEN [session[s] EXCEPT !.up = <<>>, !.down = <<Closed>>]
                                    ELSE [session[s] EXCEPT !.up = <<>>]]
  /\ link' = [l \in Links |-> IF Reaches(link[l])
                              THEN [link[l] EXCEPT !.up = <<>>, !.down = <<Closed>>]
                              ELSE [link[l] EXCEPT !.up = <<>>]]
  /\ nudge' = [k \in Chats |-> IF nudge[k] = "owed" THEN "lost" ELSE nudge[k]]
  /\ UNCHANGED <<cacheVars, call, stranded, nudges>>

-----------------------------------------------------------------------------

ClientCall(c) == GetLink(c) \/ Dial(c) \/ Connected(c) \/ DialFails(c) \/ Put(c) \/ Fail(c)

Next ==
  \/ \E l \in Links : RouteUp(l) \/ LinkTakes(l) \/ LinkLease(l) \/ CutLink(l) \/ CloseLink(l)
  \/ \E s \in Sessions :
       \/ RouteDown(s) \/ HostJoins(s) \/ HostTakes(s) \/ Answer(s) \/ HostLease(s)
       \/ CutSession(s) \/ CloseSession(s)
  \/ \E c \in Calls : Ask(c) \/ ClientCall(c)
  \/ \E k \in Chats : Nudge(k)
  \/ ReadEnd \/ NoticeCut \/ Evict \/ CooldownOver \/ Wake \/ Restart

Spec == Init /\ [][Next]_vars

(* The relay's loops, the host's redial, its session and its service, the link's    *)
(* pump and the calls go on; leases and probes run out.  The server need not notice  *)
(* a socket that was cut.                                                            *)
Fairness ==
  /\ WF_vars(ReadEnd)
  /\ \A l \in Links : WF_vars(RouteUp(l)) /\ WF_vars(LinkTakes(l) \/ LinkLease(l))
  /\ \A s \in Sessions :
       /\ WF_vars(RouteDown(s)) /\ WF_vars(Answer(s))
       /\ WF_vars(HostJoins(s) \/ HostTakes(s) \/ HostLease(s))
  /\ \A c \in Calls : WF_vars(ClientCall(c))

FairSpec == Spec /\ Fairness

-----------------------------------------------------------------------------
(* Properties *)

\* Types, and what the parts must agree on: the host has one live socket at a time and
\* virtual connections only on it; the dial lock is held by a call that dials; a call
\* waits on a link that is up.
TypeOK ==
  /\ room.host \in {0} \cup Sessions /\ room.clients \subseteq Links
  /\ Len(room.nudges) <= NudgeCapacity
  /\ room.host # 0 => /\ session[room.host].stage # "none"
                      /\ room.nudges = <<>> \/ ~ Reaches(session[room.host])
  /\ Cardinality({s \in Sessions : Joined(s)}) <= 1
  /\ \A s \in Sessions :
       /\ session[s].conns # {} => Joined(s)
       /\ \A x \in session[s].serving : x[1] \in session[s].conns
  /\ cache \in {0} \cup Links
  /\ dialer # NoCall => At(dialer, "dialing")
  /\ \A c \in Calls :
       /\ At(c, "dialing") => dialer = c /\ call[c].attempt <= Attempts
       /\ At(c, "sent") => Up(call[c].link)

\* The host does not go on working for clients that left: a virtual connection's client
\* is in the room, or the word that it left is on its way.
ConnsAreReaped ==
  \A s \in Sessions : \A l \in session[s].conns :
    room.host = s /\ ~ session[s].cut => l \in room.clients \/ Contains(session[s].down, ClientGone(l))

\* A nudge the relay took reaches the device in the end, however often its socket is
\* replaced, unless it was on a socket that died, was pushed out of the queue, or the
\* relay restarted.
NudgesArrive == \A k \in Chats : nudge[k] = "owed" ~> nudge[k] # "owed"

\* Disconnects fail fast instead of hanging (docs/security.md:163): every call ends, in
\* spite of there being no timeout on it, unless the host that had it was superseded
\* before the relay saw it leave.
CallsEnd == \A c \in Calls : At(c, "asked") ~> At(c, "done") \/ At(c, "failed") \/ c \in stranded

=============================================================================
