-------------------------- MODULE DeviceRelayProofs --------------------------
(***************************************************************************)
(* Proofs about DeviceRelay for any calls, chats, links, dials, nudges and *)
(* faults: its types, with what the relay, the host and the controlling    *)
(* device must agree on, and that the host's virtual connections are those *)
(* of clients in the room, or the word that they left is on its way.       *)
(***************************************************************************)
EXTENDS DeviceRelay, SequenceLemmas, FiniteSetTheorems, TLAPS

-----------------------------------------------------------------------------
(* The inductive invariant *)

\* Calls that were put on a link; none goes back.
Late == {c \in Calls : call[c].stage \in {"sent", "failing", "failed", "done"}}

\* What may be on a socket when the calls of L were put on a link.
Frames(L) ==
  {Rpc(l, c) : l \in Links, c \in L \cup {Probe}} \cup {ClientGone(l) : l \in Links}
    \cup {NudgeFrame(k) : k \in Chats} \cup {HostGone, Closed}

ToRelay(L) == {f \in Frames(L) : f.t \in {"rpc", "close"}}
ToClient(L) == {f \in Frames(L) : f.t \in {"rpc", "relay", "close"}}
ToHost(L) == {f \in Frames(L) : f.t \in {"rpc", "gone", "nudge", "close"}}

LinkShape(L) ==
  [stage : {"none", "open", "down"}, cut : BOOLEAN, probed : BOOLEAN,
   up : Seq(ToRelay(L)), down : Seq(ToClient(L))]

SessionShape(L) ==
  [stage : {"none", "joined", "ended"}, cut : BOOLEAN,
   up : Seq(ToRelay(L)), down : Seq(ToHost(L)),
   conns : SUBSET Links, serving : SUBSET (Links \X (L \cup {Probe}))]

\* A client's calls name its own link.
LinkEnds(L) ==
  {e \in [Links -> LinkShape(L)] :
     \A l \in Links : \A i \in 1 .. Len(e[l].up) : e[l].up[i].t = "rpc" => e[l].up[i].link = l}

Sockets(L) == link \in LinkEnds(L) /\ session \in [Sessions -> SessionShape(L)]

CallStages == {"idle", "asked", "dialing", "holding", "sent", "failing", "failed", "done"}

RoomShape == [host : {0} \cup Sessions, clients : SUBSET Links, nudges : Seq(Chats)]
CallShape == [stage : CallStages, link : {0} \cup Links, attempt : Nat]

Parts ==
  /\ room \in RoomShape /\ call \in [Calls -> CallShape]
  /\ cache \in {0} \cup Links /\ dialer \in {NoCall} \cup Calls

\* The host's sockets come one after the other, and only the live one has anything.
Hosting ==
  /\ \A s \in Sessions : \A x \in 1 .. s - 1 :
       session[s].stage # "none" => session[x].stage = "ended"
  /\ \A s \in Sessions :
       /\ session[s].stage # "joined" =>
            session[s].conns = {} /\ session[s].serving = {} /\ session[s].down = <<>>
       /\ \A x \in session[s].serving : x[1] \in session[s].conns

\* The queue is for an absent host.
Queueing ==
  /\ Len(room.nudges) <= NudgeCapacity
  /\ room.host # 0 => /\ session[room.host].stage # "none"
                      /\ room.nudges = <<>> \/ ~ Reaches(session[room.host])

\* One call dials; whoever uses a link uses a proved one, and waits on one that is up.
Dialing ==
  /\ cache # 0 => link[cache].probed
  /\ dialer # NoCall => call[dialer].stage = "dialing"
  /\ \A c \in Calls :
       /\ call[c].stage = "dialing" =>
            /\ dialer = c /\ call[c].attempt <= Attempts
            /\ call[c].link = 0 => call[c].attempt < Attempts
       /\ call[c].stage \in {"idle", "asked"} => call[c].link = 0 /\ call[c].attempt = 0
       /\ call[c].stage \in {"holding", "sent"} => call[c].link # 0 /\ link[call[c].link].probed
       /\ call[c].stage = "sent" => link[call[c].link].stage = "open"

GoneBehind(down, i, l) == \E j \in 1 .. Len(down) : j > i /\ down[j] = ClientGone(l)

\* Where the word that a client left will come last: behind every frame of it.
ToldAbout(clients, conns, down) ==
  /\ \A l \in conns : l \in clients \/ GoneBehind(down, 0, l)
  /\ \A i \in 1 .. Len(down) :
       down[i].t = "rpc" => down[i].link \in clients \/ GoneBehind(down, i, down[i].link)

ToldOf(s) == ToldAbout(room.clients, session[s].conns, session[s].down)

Told == room.host # 0 /\ ~ session[room.host].cut => ToldOf(room.host)

RelayInv == Sockets(Late) /\ Parts /\ Hosting /\ Queueing /\ Dialing /\ Told

-----------------------------------------------------------------------------
(* Frames and sockets *)

LEMMA FrameFacts ==
  ASSUME NEW L
  PROVE  /\ \A l \in Links, c \in L \cup {Probe} :
              /\ Rpc(l, c) \in ToRelay(L) /\ Rpc(l, c) \in ToClient(L) /\ Rpc(l, c) \in ToHost(L)
              /\ Rpc(l, c).t = "rpc" /\ Rpc(l, c).link = l
         /\ \A l \in Links : ClientGone(l) \in ToHost(L) /\ ClientGone(l).t = "gone" /\ ClientGone(l).link = l
         /\ \A k \in Chats : NudgeFrame(k) \in ToHost(L) /\ NudgeFrame(k).t = "nudge"
         /\ HostGone \in ToClient(L)
         /\ Closed \in ToRelay(L) /\ Closed \in ToClient(L) /\ Closed \in ToHost(L) /\ Closed.t = "close"
         /\ \A f \in Frames(L) :
              /\ f.t = "rpc" => f.link \in Links /\ f.call \in L \cup {Probe} /\ f = Rpc(f.link, f.call)
              /\ f.t = "gone" => f.link \in Links /\ f = ClientGone(f.link)
<1>1. \A l \in Links, c \in L \cup {Probe} :
        Rpc(l, c) \in Frames(L) /\ Rpc(l, c).t = "rpc" /\ Rpc(l, c).link = l
  BY DEF Frames, Rpc
<1>2. \A l \in Links : ClientGone(l) \in Frames(L) /\ ClientGone(l).t = "gone" /\ ClientGone(l).link = l
  BY DEF Frames, ClientGone
<1>3. \A k \in Chats : NudgeFrame(k) \in Frames(L) /\ NudgeFrame(k).t = "nudge"
  BY DEF Frames, NudgeFrame
<1>4. HostGone \in Frames(L) /\ HostGone.t = "relay" /\ Closed \in Frames(L) /\ Closed.t = "close"
  BY DEF Frames, HostGone, Closed
<1>5. ASSUME NEW f \in Frames(L), f.t = "rpc"
      PROVE  f.link \in Links /\ f.call \in L \cup {Probe} /\ f = Rpc(f.link, f.call)
  BY <1>5 DEF Frames, Rpc, ClientGone, NudgeFrame, HostGone, Closed
<1>6. ASSUME NEW f \in Frames(L), f.t = "gone"
      PROVE  f.link \in Links /\ f = ClientGone(f.link)
  BY <1>6 DEF Frames, Rpc, ClientGone, NudgeFrame, HostGone, Closed
<1> QED  BY <1>1, <1>2, <1>3, <1>4, <1>5, <1>6 DEF ToRelay, ToClient, ToHost

LEMMA ShapesGrow ==
  ASSUME NEW L, NEW M, L \subseteq M
  PROVE  LinkEnds(L) \subseteq LinkEnds(M) /\ SessionShape(L) \subseteq SessionShape(M)
<1>1. Frames(L) \subseteq Frames(M)  BY DEF Frames
<1>2. ToRelay(L) \subseteq ToRelay(M) /\ ToClient(L) \subseteq ToClient(M) /\ ToHost(L) \subseteq ToHost(M)
  BY <1>1 DEF ToRelay, ToClient, ToHost
<1>3. LinkShape(L) \subseteq LinkShape(M) /\ SessionShape(L) \subseteq SessionShape(M)
  BY <1>2 DEF LinkShape, SessionShape
<1> QED  BY <1>3 DEF LinkEnds

LEMMA Numbers == 0 \notin Links /\ 0 \notin Sessions /\ Links \subseteq Nat /\ Sessions \subseteq Nat
BY DEF Links, Sessions

\* One end of one socket sends, reads or loses frames.
LEMMA LinkEdits ==
  ASSUME NEW L, NEW e \in LinkEnds(L), NEW l \in Links
  PROVE  /\ e[l].up # <<>> => [e EXCEPT ![l].up = Tail(@)] \in LinkEnds(L)
         /\ e[l].down # <<>> => [e EXCEPT ![l].down = Tail(@)] \in LinkEnds(L)
         /\ [e EXCEPT ![l].up = <<>>] \in LinkEnds(L)
         /\ \A f \in ToRelay(L) :
              (f.t = "rpc" => f.link = l) => [e EXCEPT ![l].up = Append(@, f)] \in LinkEnds(L)
         /\ \A f \in ToClient(L) : [e EXCEPT ![l].down = Append(@, f)] \in LinkEnds(L)
<1> DEFINE Own(u) == \A i \in 1 .. Len(u) : u[i].t = "rpc" => u[i].link = l
<1>1. /\ \A u \in Seq(ToRelay(L)) : Own(u) => [e EXCEPT ![l].up = u] \in LinkEnds(L)
      /\ \A d \in Seq(ToClient(L)) : [e EXCEPT ![l].down = d] \in LinkEnds(L)
  <2>1. /\ \A u \in Seq(ToRelay(L)) : [e EXCEPT ![l].up = u] \in [Links -> LinkShape(L)]
        /\ \A d \in Seq(ToClient(L)) : [e EXCEPT ![l].down = d] \in [Links -> LinkShape(L)]
    BY DEF LinkEnds, LinkShape
  <2>2. \A u, x : x \in Links => [e EXCEPT ![l].up = u][x].up = IF x = l THEN u ELSE e[x].up
    BY DEF LinkEnds, LinkShape
  <2>3. \A d, x : x \in Links => [e EXCEPT ![l].down = d][x].up = e[x].up
    BY DEF LinkEnds, LinkShape
  <2>4. ASSUME NEW u \in Seq(ToRelay(L)), Own(u) PROVE [e EXCEPT ![l].up = u] \in LinkEnds(L)
    <3>1. PICK d : d = [e EXCEPT ![l].up = u]  OBVIOUS
    <3>2. d \in [Links -> LinkShape(L)]  BY <2>1, <3>1
    <3>3. \A x \in Links : d[x].up = IF x = l THEN u ELSE e[x].up  BY <2>2, <3>1
    <3>4. d \in LinkEnds(L)  BY <2>4, <3>2, <3>3 DEF LinkEnds
    <3> QED  BY <3>1, <3>4
  <2>5. ASSUME NEW v \in Seq(ToClient(L)) PROVE [e EXCEPT ![l].down = v] \in LinkEnds(L)
    <3>1. PICK d : d = [e EXCEPT ![l].down = v]  OBVIOUS
    <3>2. d \in [Links -> LinkShape(L)]  BY <2>1, <3>1
    <3>3. \A x \in Links : d[x].up = e[x].up  BY <2>3, <3>1
    <3>4. d \in LinkEnds(L)  BY <3>2, <3>3 DEF LinkEnds
    <3> QED  BY <3>1, <3>4
  <2> QED  BY <2>4, <2>5
<1>2. e[l].up \in Seq(ToRelay(L)) /\ e[l].down \in Seq(ToClient(L)) /\ Own(e[l].up)
  BY DEF LinkEnds, LinkShape
<1>3. e[l].up # <<>> => Tail(e[l].up) \in Seq(ToRelay(L)) /\ Own(Tail(e[l].up))  BY <1>2
<1>4. e[l].down # <<>> => Tail(e[l].down) \in Seq(ToClient(L))  BY <1>2
<1>5. \A f \in ToRelay(L) : (f.t = "rpc" => f.link = l) =>
        Append(e[l].up, f) \in Seq(ToRelay(L)) /\ Own(Append(e[l].up, f))
  BY <1>2
<1>6. \A f \in ToClient(L) : Append(e[l].down, f) \in Seq(ToClient(L))  BY <1>2
<1>7. <<>> \in Seq(ToRelay(L)) /\ Own(<<>>)  OBVIOUS
<1> HIDE DEF Own
<1> QED  BY <1>1, <1>3, <1>4, <1>5, <1>6, <1>7, Zenon

LEMMA SessionEdits ==
  ASSUME NEW L, NEW e \in [Sessions -> SessionShape(L)], NEW s \in Sessions
  PROVE  /\ e[s].up # <<>> => [e EXCEPT ![s].up = Tail(@)] \in [Sessions -> SessionShape(L)]
         /\ e[s].down # <<>> => [e EXCEPT ![s].down = Tail(@)] \in [Sessions -> SessionShape(L)]
         /\ [e EXCEPT ![s].up = <<>>] \in [Sessions -> SessionShape(L)]
         /\ \A f \in ToRelay(L) : [e EXCEPT ![s].up = Append(@, f)] \in [Sessions -> SessionShape(L)]
         /\ \A f \in ToHost(L) : [e EXCEPT ![s].down = Append(@, f)] \in [Sessions -> SessionShape(L)]
<1>1. /\ \A u \in Seq(ToRelay(L)) : [e EXCEPT ![s].up = u] \in [Sessions -> SessionShape(L)]
      /\ \A d \in Seq(ToHost(L)) : [e EXCEPT ![s].down = d] \in [Sessions -> SessionShape(L)]
  BY DEF SessionShape
<1>2. e[s].up \in Seq(ToRelay(L)) /\ e[s].down \in Seq(ToHost(L))  BY DEF SessionShape
<1>3. e[s].up # <<>> => Tail(e[s].up) \in Seq(ToRelay(L))  BY <1>2
<1>4. e[s].down # <<>> => Tail(e[s].down) \in Seq(ToHost(L))  BY <1>2
<1>5. \A f \in ToRelay(L) : Append(e[s].up, f) \in Seq(ToRelay(L))  BY <1>2
<1>6. \A f \in ToHost(L) : Append(e[s].down, f) \in Seq(ToHost(L))  BY <1>2
<1>7. <<>> \in Seq(ToRelay(L))  OBVIOUS
<1> QED  BY <1>1, <1>3, <1>4, <1>5, <1>6, <1>7, Zenon

\* What a frame under way does not touch.
LinksAlike(d, e) ==
  \A l \in Links : d[l].stage = e[l].stage /\ d[l].probed = e[l].probed /\ d[l].cut = e[l].cut

SessionsAlike(d, e) ==
  \A s \in Sessions : /\ d[s].stage = e[s].stage /\ d[s].cut = e[s].cut
                      /\ d[s].conns = e[s].conns /\ d[s].serving = e[s].serving

LEMMA LinkEditsAlike ==
  ASSUME NEW L, NEW e \in LinkEnds(L), NEW l \in Links, NEW u
  PROVE  LinksAlike([e EXCEPT ![l].up = u], e) /\ LinksAlike([e EXCEPT ![l].down = u], e)
BY DEF LinkEnds, LinkShape, LinksAlike

LEMMA SessionEditsAlike ==
  ASSUME NEW L, NEW e \in [Sessions -> SessionShape(L)], NEW s \in Sessions, NEW u
  PROVE  /\ SessionsAlike([e EXCEPT ![s].up = u], e) /\ SessionsAlike([e EXCEPT ![s].down = u], e)
         /\ \A x \in Sessions : [e EXCEPT ![s].up = u][x].down = e[x].down
         /\ \A x \in Sessions : [e EXCEPT ![s].down = u][x].down = IF x = s THEN u ELSE e[x].down
BY DEF SessionShape, SessionsAlike

LEMMA SendToLink ==
  ASSUME NEW L, NEW e \in LinkEnds(L), NEW n \in {0} \cup Links, NEW f \in ToClient(L)
  PROVE  Send(e, n, f) \in LinkEnds(L) /\ LinksAlike(Send(e, n, f), e)
<1>1. CASE n # 0 /\ Reaches(e[n])
  <2>1. Send(e, n, f) = [e EXCEPT ![n].down = Append(e[n].down, f)]  BY <1>1 DEF Send
  <2>2. n \in Links  BY <1>1
  <2>3. [e EXCEPT ![n].down = Append(e[n].down, f)] \in LinkEnds(L)  BY <2>2, LinkEdits
  <2>4. LinksAlike([e EXCEPT ![n].down = Append(e[n].down, f)], e)  BY <2>2, LinkEditsAlike, Zenon
  <2> QED  BY <2>1, <2>3, <2>4
<1>2. CASE ~ (n # 0 /\ Reaches(e[n]))
  BY <1>2 DEF Send, LinksAlike
<1> QED  BY <1>1, <1>2

LEMMA SendToSession ==
  ASSUME NEW L, NEW e \in [Sessions -> SessionShape(L)], NEW n \in {0} \cup Sessions, NEW f \in ToHost(L)
  PROVE  /\ Send(e, n, f) \in [Sessions -> SessionShape(L)] /\ SessionsAlike(Send(e, n, f), e)
         /\ \A s \in Sessions :
              Send(e, n, f)[s].down = IF s = n /\ Reaches(e[s]) THEN Append(e[s].down, f) ELSE e[s].down
<1>1. CASE n # 0 /\ Reaches(e[n])
  <2>1. Send(e, n, f) = [e EXCEPT ![n].down = Append(e[n].down, f)]  BY <1>1 DEF Send
  <2>2. n \in Sessions  BY <1>1
  <2>3. [e EXCEPT ![n].down = Append(e[n].down, f)] \in [Sessions -> SessionShape(L)]  BY <2>2, SessionEdits
  <2>4. SessionsAlike([e EXCEPT ![n].down = Append(e[n].down, f)], e)  BY <2>2, SessionEditsAlike, Zenon
  <2>5. \A s \in Sessions : [e EXCEPT ![n].down = Append(e[n].down, f)][s].down =
                             IF s = n THEN Append(e[n].down, f) ELSE e[s].down
    BY <2>2 DEF SessionShape
  <2> QED  BY <1>1, <2>1, <2>3, <2>4, <2>5
<1>2. CASE ~ (n # 0 /\ Reaches(e[n]))
  <2>1. Send(e, n, f) = e  BY <1>2 DEF Send
  <2> QED  BY <1>2, <2>1, Numbers DEF SessionsAlike
<1> QED  BY <1>1, <1>2

\* SendAll is a Send to each.
LEMMA SendAllToLinks ==
  ASSUME NEW L, NEW e \in LinkEnds(L), NEW S
  PROVE  SendAll(e, S, HostGone) \in LinkEnds(L) /\ LinksAlike(SendAll(e, S, HostGone), e)
<1>1. \A l \in Links : [e[l] EXCEPT !.down = Append(@, HostGone)] \in LinkShape(L)
  <2> TAKE l \in Links
  <2>1. Append(e[l].down, HostGone) \in Seq(ToClient(L))  BY FrameFacts DEF LinkEnds, LinkShape
  <2> QED  BY <2>1 DEF LinkEnds, LinkShape
<1>2. SendAll(e, S, HostGone) \in LinkEnds(L)
  <2>1. SendAll(e, S, HostGone) \in [Links -> LinkShape(L)]  BY <1>1 DEF SendAll, LinkEnds
  <2>2. \A l \in Links : SendAll(e, S, HostGone)[l].up = e[l].up
    BY DEF SendAll, LinkEnds, LinkShape
  <2> QED  BY <2>1, <2>2 DEF LinkEnds
<1>3. LinksAlike(SendAll(e, S, HostGone), e)
  BY DEF SendAll, LinksAlike, LinkEnds, LinkShape
<1> QED  BY <1>2, <1>3

LEMMA AlikeAndAlike ==
  /\ \A d, e, g : LinksAlike(d, e) /\ LinksAlike(e, g) => LinksAlike(d, g)
  /\ \A d, e, g : SessionsAlike(d, e) /\ SessionsAlike(e, g) => SessionsAlike(d, g)
  /\ \A e : LinksAlike(e, e) /\ SessionsAlike(e, e)
BY DEF LinksAlike, SessionsAlike

-----------------------------------------------------------------------------
(* The word that a client left *)

LEMMA ToldAppend ==
  ASSUME NEW L, NEW D \in Seq(ToHost(L)), NEW C, NEW R, ToldAbout(R, C, D), NEW f \in ToHost(L)
  PROVE  /\ f.t # "rpc" \/ f.link \in R => ToldAbout(R, C, Append(D, f))
         /\ \A l \in Links : f = ClientGone(l) => ToldAbout(R \ {l}, C, Append(D, f))
<1>1. /\ Len(Append(D, f)) = Len(D) + 1 /\ Append(D, f)[Len(D) + 1] = f /\ Len(D) \in Nat
      /\ \A i \in 1 .. Len(D) : Append(D, f)[i] = D[i]
  OBVIOUS
<1>2. \A i \in Nat : \A l : GoneBehind(D, i, l) => GoneBehind(Append(D, f), i, l)
  BY <1>1 DEF GoneBehind
<1>3. \A i \in 0 .. Len(D) : \A l : f = ClientGone(l) => GoneBehind(Append(D, f), i, l)
  BY <1>1 DEF GoneBehind
<1>4. \A l \in Links : ClientGone(l).t = "gone"  BY DEF ClientGone
<1>5. ASSUME f.t # "rpc" \/ f.link \in R PROVE ToldAbout(R, C, Append(D, f))
  <2>1. \A l \in C : l \in R \/ GoneBehind(Append(D, f), 0, l)  BY <1>2 DEF ToldAbout
  <2>2. ASSUME NEW i \in 1 .. Len(D) + 1, Append(D, f)[i].t = "rpc"
        PROVE  Append(D, f)[i].link \in R \/ GoneBehind(Append(D, f), i, Append(D, f)[i].link)
    <3>1. CASE i = Len(D) + 1  BY <1>1, <1>5, <2>2, <3>1
    <3>2. CASE i \in 1 .. Len(D)  BY <1>1, <1>2, <2>2, <3>2 DEF ToldAbout
    <3> QED  BY <1>1, <3>1, <3>2
  <2> QED  BY <1>1, <2>1, <2>2 DEF ToldAbout
<1>6. ASSUME NEW l \in Links, f = ClientGone(l) PROVE ToldAbout(R \ {l}, C, Append(D, f))
  <2>1. \A k \in C : k \in R \ {l} \/ GoneBehind(Append(D, f), 0, k)
    BY <1>1, <1>2, <1>3, <1>6 DEF ToldAbout
  <2>2. ASSUME NEW i \in 1 .. Len(D) + 1, Append(D, f)[i].t = "rpc"
        PROVE  Append(D, f)[i].link \in R \ {l} \/ GoneBehind(Append(D, f), i, Append(D, f)[i].link)
    <3>1. CASE i = Len(D) + 1  BY <1>1, <1>4, <1>6, <2>2, <3>1
    <3>2. CASE i \in 1 .. Len(D)  BY <1>1, <1>2, <1>3, <1>6, <2>2, <3>2 DEF ToldAbout
    <3> QED  BY <1>1, <3>1, <3>2
  <2> QED  BY <1>1, <2>1, <2>2 DEF ToldAbout
<1> QED  BY <1>5, <1>6

\* The host reads the next frame.
LEMMA ToldTail ==
  ASSUME NEW L, NEW D \in Seq(ToHost(L)), D # <<>>, NEW C, NEW R, ToldAbout(R, C, D)
  PROVE  /\ Head(D).t = "rpc" => ToldAbout(R, C \cup {Head(D).link}, Tail(D))
         /\ Head(D).t = "gone" => ToldAbout(R, C \ {Head(D).link}, Tail(D))
         /\ Head(D).t \notin {"rpc", "gone"} => ToldAbout(R, C, Tail(D))
<1>1. /\ Len(D) \in Nat \ {0} /\ Len(Tail(D)) = Len(D) - 1 /\ Head(D) = D[1]
      /\ \A i \in 1 .. Len(D) - 1 : Tail(D)[i] = D[i + 1]
      /\ D[1] \in ToHost(L)
  OBVIOUS
<1>2. \A i \in 1 .. Len(D) : \A l : GoneBehind(D, i, l) => GoneBehind(Tail(D), i - 1, l)
  <2> SUFFICES ASSUME NEW i \in 1 .. Len(D), NEW l, NEW j \in 1 .. Len(D), j > i, D[j] = ClientGone(l)
               PROVE  GoneBehind(Tail(D), i - 1, l)
    BY DEF GoneBehind
  <2>1. j - 1 \in 1 .. Len(D) - 1 /\ j - 1 > i - 1 /\ Tail(D)[j - 1] = ClientGone(l)  BY <1>1
  <2> QED  BY <1>1, <2>1 DEF GoneBehind
<1>3. ASSUME NEW l, GoneBehind(D, 0, l), Head(D) # ClientGone(l) PROVE GoneBehind(Tail(D), 0, l)
  <2>1. PICK j \in 1 .. Len(D) : D[j] = ClientGone(l)  BY <1>3 DEF GoneBehind
  <2>2. j # 1  BY <1>1, <1>3, <2>1
  <2>3. j - 1 \in 1 .. Len(D) - 1 /\ j - 1 > 0 /\ Tail(D)[j - 1] = ClientGone(l)  BY <1>1, <2>1, <2>2
  <2> QED  BY <1>1, <2>3 DEF GoneBehind
<1>4. \A i \in 1 .. Len(Tail(D)) : Tail(D)[i].t = "rpc" =>
        Tail(D)[i].link \in R \/ GoneBehind(Tail(D), i, Tail(D)[i].link)
  <2> SUFFICES ASSUME NEW i \in 1 .. Len(D) - 1, D[i + 1].t = "rpc"
               PROVE  D[i + 1].link \in R \/ GoneBehind(Tail(D), i, D[i + 1].link)
    BY <1>1
  <2>1. i + 1 \in 1 .. Len(D) /\ (i + 1) - 1 = i  BY <1>1
  <2> QED  BY <1>2, <2>1 DEF ToldAbout
<1>5. \A l : ClientGone(l).t = "gone" /\ ClientGone(l).link = l  BY DEF ClientGone
<1>6. ASSUME Head(D).t = "rpc" PROVE ToldAbout(R, C \cup {Head(D).link}, Tail(D))
  <2>1. 1 \in 1 .. Len(D) /\ 1 - 1 = 0  BY <1>1
  <2>2. Head(D).link \in R \/ GoneBehind(Tail(D), 0, Head(D).link)
    BY <1>1, <1>2, <1>6, <2>1 DEF ToldAbout
  <2>3. \A l \in C : l \in R \/ GoneBehind(Tail(D), 0, l)  BY <1>3, <1>5, <1>6 DEF ToldAbout
  <2> QED  BY <1>4, <2>2, <2>3 DEF ToldAbout
<1>7. ASSUME Head(D).t = "gone" PROVE ToldAbout(R, C \ {Head(D).link}, Tail(D))
  <2>1. \A l \in C \ {Head(D).link} : l \in R \/ GoneBehind(Tail(D), 0, l)
    BY <1>3, <1>5 DEF ToldAbout
  <2> QED  BY <1>4, <2>1 DEF ToldAbout
<1>8. ASSUME Head(D).t \notin {"rpc", "gone"} PROVE ToldAbout(R, C, Tail(D))
  <2>1. \A l \in C : l \in R \/ GoneBehind(Tail(D), 0, l)  BY <1>3, <1>5, <1>8 DEF ToldAbout
  <2> QED  BY <1>4, <2>1 DEF ToldAbout
<1> QED  BY <1>6, <1>7, <1>8

-----------------------------------------------------------------------------
(* What a step keeps *)

LEMMA SocketsAfter ==
  ASSUME NEW L, L = Late', Sockets(L)'
  PROVE  Sockets(Late)'
BY ShapesGrow DEF Sockets

LEMMA SocketsBefore ==
  ASSUME NEW L, Sockets(Late), Late \subseteq L
  PROVE  Sockets(L)
BY ShapesGrow DEF Sockets

\* A step of the relay or of the host leaves the calls where they are.
LEMMA CallsStay ==
  ASSUME UNCHANGED <<call, cache, dialer>>, LinksAlike(link', link), Parts, Dialing
  PROVE  Dialing' /\ Late' = Late
<1>1. Late' = Late  BY DEF Late
<1>2. \A l \in Links : link'[l].stage = link[l].stage /\ link'[l].probed = link[l].probed
  BY DEF LinksAlike
<1>3. \A c \in Calls : call[c].link \in {0} \cup Links  BY DEF Parts, CallShape
<1> QED  BY <1>1, <1>2, <1>3 DEF Dialing, Parts

\* Calls fail or end, and a link they leave goes down.
LEMMA CallsLeave ==
  ASSUME Parts, Dialing, Parts', cache' \in {0, cache}, dialer' = dialer,
         \A c \in Calls : /\ call'[c].link = call[c].link /\ call'[c].attempt = call[c].attempt
                          /\ \/ call'[c].stage = call[c].stage
                             \/ c \in Late /\ call'[c].stage \in {"failing", "failed", "done"},
         \A l \in Links : link[l].probed => link'[l].probed,
         \A c \in Calls : call'[c].stage = "sent" => link'[call[c].link].stage = link[call[c].link].stage
  PROVE  Dialing' /\ Late \subseteq Late'
<1>1. Late \subseteq Late'  BY DEF Late
<1>2. \A c \in Calls : call[c].link \in {0} \cup Links  BY DEF Parts, CallShape
<1>3. \A c \in Calls : call'[c].stage \in {"idle", "asked", "dialing", "holding", "sent"} => call'[c].stage = call[c].stage
  OBVIOUS
<1>4. dialer # NoCall => call'[dialer].stage = "dialing"
  BY DEF Late, Dialing, Parts
<1> QED  BY <1>1, <1>2, <1>3, <1>4 DEF Dialing, Parts

LEMMA RoomAndHostStay ==
  ASSUME UNCHANGED <<room, session>>, Hosting, Queueing, Told
  PROVE  Hosting' /\ Queueing' /\ Told'
BY DEF Hosting, Queueing, Told, ToldOf, Reaches

\* What is sent to the host tells it of a client that leaves.
LEMMA SendTold ==
  ASSUME NEW L, Sockets(L), Parts, Hosting, Told, NEW f \in ToHost(L),
         NEW e \in [Sessions -> SessionShape(L)], SessionsAlike(e, session),
         \A s \in Sessions : e[s].down = session[s].down,
         session' = Send(e, room.host, f), room'.host = room.host,
         \/ room'.clients = room.clients /\ (f.t # "rpc" \/ f.link \in room.clients)
         \/ \E l \in Links : f = ClientGone(l) /\ room'.clients = room.clients \ {l}
  PROVE  /\ session' \in [Sessions -> SessionShape(L)] /\ SessionsAlike(session', session) /\ Told'
         /\ \A s \in Sessions : session[s].stage # "joined" => session'[s].down = <<>>
<1>1. room.host \in {0} \cup Sessions  BY DEF Parts, RoomShape
<1>2. /\ session' \in [Sessions -> SessionShape(L)] /\ SessionsAlike(session', e)
      /\ \A s \in Sessions :
           session'[s].down = IF s = room.host /\ Reaches(e[s]) THEN Append(e[s].down, f) ELSE e[s].down
  <2>1. PICK h \in {0} \cup Sessions : h = room.host  BY <1>1
  <2>2. /\ Send(e, h, f) \in [Sessions -> SessionShape(L)] /\ SessionsAlike(Send(e, h, f), e)
        /\ \A s \in Sessions :
             Send(e, h, f)[s].down = IF s = h /\ Reaches(e[s]) THEN Append(e[s].down, f) ELSE e[s].down
    BY SendToSession
  <2> QED  BY <2>1, <2>2
<1>3. SessionsAlike(session', session)  BY <1>2, AlikeAndAlike
<1>4. \A s \in Sessions : e[s].stage = session[s].stage /\ e[s].cut = session[s].cut
  BY DEF SessionsAlike
<1>5. ASSUME NEW s \in Sessions, session[s].stage # "joined" PROVE session'[s].down = <<>>
  <2>1. session[s].stage \in {"none", "ended"}  BY <1>5 DEF Sockets, SessionShape
  <2>2. ~ Reaches(e[s])  BY <1>4, <2>1 DEF Reaches
  <2> QED  BY <1>2, <1>5, <2>2 DEF Hosting
<1>6. Told'
  <2> SUFFICES ASSUME room.host # 0, ~ session'[room.host].cut
               PROVE  ToldAbout(room'.clients, session'[room.host].conns, session'[room.host].down)
    BY DEF Told, ToldOf
  <2> DEFINE h == room.host
  <2>1. h \in Sessions  BY <1>1
  <2>2. ~ session[h].cut /\ session'[h].conns = session[h].conns  BY <1>3, <2>1 DEF SessionsAlike
  <2>3. ToldAbout(room.clients, session[h].conns, session[h].down)  BY <2>2 DEF Told, ToldOf
  <2>4. session[h].down \in Seq(ToHost(L))  BY <2>1 DEF Sockets, SessionShape
  <2>5. CASE Reaches(e[h])
    <3>1. session'[h].down = Append(session[h].down, f)  BY <1>2, <2>1, <2>5
    <3> QED  BY <2>2, <2>3, <2>4, <3>1, ToldAppend
  <2>6. CASE ~ Reaches(e[h])
    <3>1. session[h].stage # "joined"  BY <1>4, <2>1, <2>2, <2>6 DEF Reaches
    <3>2. session[h].conns = {} /\ session'[h].down = <<>>  BY <1>5, <2>1, <3>1 DEF Hosting
    <3> QED  BY <2>2, <3>2 DEF ToldAbout
  <2> QED  BY <2>5, <2>6
<1> QED  BY <1>2, <1>3, <1>5, <1>6

\* A step of the relay moves frames and makes a client or the host leave the room.
LEMMA RelayKeeps ==
  ASSUME NEW L, L = Late, RelayInv, UNCHANGED <<call, cache, dialer>>,
         link' \in LinkEnds(L), LinksAlike(link', link),
         session' \in [Sessions -> SessionShape(L)], SessionsAlike(session', session),
         \A s \in Sessions : session[s].stage # "joined" => session'[s].down = <<>>,
         room' \in RoomShape, room'.host \in {0, room.host}, room'.nudges = room.nudges, Told'
  PROVE  RelayInv'
<1>1. Dialing' /\ Late' = Late  BY CallsStay DEF RelayInv
<1>2. Sockets(Late)'  BY <1>1, SocketsAfter DEF Sockets
<1>3. Parts'  BY DEF RelayInv, Parts
<1>4. \A s \in Sessions : /\ session'[s].stage = session[s].stage /\ session'[s].cut = session[s].cut
                          /\ session'[s].conns = session[s].conns /\ session'[s].serving = session[s].serving
  BY DEF SessionsAlike
<1>5. \A s \in Sessions : \A x \in 1 .. s - 1 : x \in Sessions
  BY DeviceRelayAssumption DEF Sessions
<1>6. Hosting'  BY <1>4, <1>5 DEF RelayInv, Hosting
<1>7. Queueing'
  <2>1. room.host # 0 => room.host \in Sessions  BY DEF RelayInv, Parts, RoomShape
  <2> QED  BY <1>4, <2>1 DEF RelayInv, Queueing, Reaches
<1> QED  BY <1>1, <1>2, <1>3, <1>6, <1>7 DEF RelayInv

LEMMA RoomEdits ==
  ASSUME Parts
  PROVE  /\ room.host \in {0} \cup Sessions /\ room.clients \subseteq Links /\ room.nudges \in Seq(Chats)
         /\ \A l : LET r == [room EXCEPT !.clients = @ \ {l}]
                   IN  r \in RoomShape /\ r.host = room.host /\ r.nudges = room.nudges
                       /\ r.clients = room.clients \ {l}
         /\ LET r == [room EXCEPT !.host = 0]
            IN  r \in RoomShape /\ r.host = 0 /\ r.nudges = room.nudges /\ r.clients = room.clients
BY DEF Parts, RoomShape

LEMMA RouteUpKeeps ==
  ASSUME RelayInv, NEW l \in Links, RouteUp(l)
  PROVE  RelayInv'
<1>1. PICK L : L = Late  OBVIOUS
<1>2. Sockets(L) /\ Parts /\ Hosting /\ Told  BY <1>1, SocketsBefore DEF RelayInv
<1> DEFINE taken == [link EXCEPT ![l].up = Tail(@)]
<1>3. PICK f : f = Head(link[l].up)  OBVIOUS
<1>4. link[l].up # <<>> /\ link[l].up \in Seq(ToRelay(L)) /\ f.t = "rpc"
  BY <1>2, <1>3 DEF RouteUp, Heard, Sockets, LinkEnds, LinkShape
<1>5. f \in ToRelay(L) /\ f \in ToHost(L)
  <2>1. f \in ToRelay(L)  BY <1>3, <1>4
  <2> QED  BY <1>4, <2>1 DEF ToRelay, ToHost
<1>6. taken \in LinkEnds(L) /\ LinksAlike(taken, link)
  BY <1>2, <1>4, LinkEdits, LinkEditsAlike, Zenon DEF Sockets
<1>7. link' \in LinkEnds(L) /\ LinksAlike(link', link)
  <2>1. PICK e : e = taken  OBVIOUS
  <2>2. e \in LinkEnds(L) /\ LinksAlike(e, link)  BY <1>6, <2>1
  <2>3. link' = Send(e, l, HostGone) \/ link' = e  BY <2>1 DEF RouteUp
  <2>4. Send(e, l, HostGone) \in LinkEnds(L) /\ LinksAlike(Send(e, l, HostGone), e)
    BY <2>2, SendToLink, FrameFacts
  <2> QED  BY <2>2, <2>3, <2>4, AlikeAndAlike
<1>8. f.link \in room.clients
  <2>1. f = link[l].up[1] /\ 1 \in 1 .. Len(link[l].up)  BY <1>3, <1>4
  <2>2. f.link = l  BY <1>2, <1>4, <2>1 DEF Sockets, LinkEnds
  <2> QED  BY <2>2 DEF RouteUp
<1>9. session' = Send(session, room.host, f) /\ room' = room /\ UNCHANGED <<call, cache, dialer>>
  BY <1>3 DEF RouteUp, relayOnly, cacheVars
<1>10. /\ session' \in [Sessions -> SessionShape(L)] /\ SessionsAlike(session', session) /\ Told'
       /\ \A s \in Sessions : session[s].stage # "joined" => session'[s].down = <<>>
  <2>1. session \in [Sessions -> SessionShape(L)] /\ SessionsAlike(session, session)
    BY <1>2, AlikeAndAlike DEF Sockets
  <2> QED  BY <1>2, <1>5, <1>8, <1>9, <2>1, SendTold
<1>11. room' \in RoomShape  BY <1>2, <1>9 DEF Parts
<1> QED  BY <1>1, <1>7, <1>9, <1>10, <1>11, RelayKeeps

LEMMA ClientLeavesKeeps ==
  ASSUME RelayInv, NEW l \in Links, ClientLeaves(l), UNCHANGED relayOnly
  PROVE  RelayInv'
<1>1. PICK L : L = Late  OBVIOUS
<1>2. Sockets(L) /\ Parts /\ Hosting /\ Told  BY <1>1, SocketsBefore DEF RelayInv
<1>3. link' = [link EXCEPT ![l].up = <<>>] /\ session' = Send(session, room.host, ClientGone(l))
      /\ room' = [room EXCEPT !.clients = @ \ {l}] /\ UNCHANGED <<call, cache, dialer>>
  BY DEF ClientLeaves, relayOnly, cacheVars
<1>4. link' \in LinkEnds(L) /\ LinksAlike(link', link)
  BY <1>2, <1>3, LinkEdits, LinkEditsAlike, Zenon DEF Sockets
<1>5. PICK f \in ToHost(L) : f = ClientGone(l)  BY FrameFacts
<1>6. room' \in RoomShape /\ room'.host = room.host /\ room'.nudges = room.nudges
      /\ room'.clients = room.clients \ {l}
  BY <1>2, <1>3, RoomEdits
<1>7. /\ session' \in [Sessions -> SessionShape(L)] /\ SessionsAlike(session', session) /\ Told'
      /\ \A s \in Sessions : session[s].stage # "joined" => session'[s].down = <<>>
  <2>1. session \in [Sessions -> SessionShape(L)] /\ SessionsAlike(session, session)
    BY <1>2, AlikeAndAlike DEF Sockets
  <2> QED  BY <1>2, <1>3, <1>5, <1>6, <2>1, SendTold
<1> QED  BY <1>1, <1>2, <1>3, <1>4, <1>6, <1>7, RelayKeeps

LEMMA HostLeavesKeeps ==
  ASSUME RelayInv, NEW s \in Sessions, HostLeaves(s), UNCHANGED relayOnly
  PROVE  RelayInv'
<1>1. PICK L : L = Late  OBVIOUS
<1>2. Sockets(L) /\ Parts /\ Hosting /\ Told  BY <1>1, SocketsBefore DEF RelayInv
<1>3. session' = [session EXCEPT ![s].up = <<>>] /\ UNCHANGED <<call, cache, dialer>>
      /\ (link' = SendAll(link, room.clients, HostGone) \/ link' = link)
      /\ (room' = [room EXCEPT !.host = 0] \/ room' = room)
  BY DEF HostLeaves, relayOnly, cacheVars
<1>4. link' \in LinkEnds(L) /\ LinksAlike(link', link)
  BY <1>2, <1>3, SendAllToLinks, AlikeAndAlike DEF Sockets
<1>5. session' \in [Sessions -> SessionShape(L)] /\ SessionsAlike(session', session)
      /\ \A x \in Sessions : session'[x].down = session[x].down
  <2>1. session' \in [Sessions -> SessionShape(L)] /\ SessionsAlike(session', session)
    BY <1>2, <1>3, SessionEdits, SessionEditsAlike, Zenon DEF Sockets
  <2> QED  BY <1>2, <1>3, <2>1 DEF Sockets, SessionShape
<1>6. room' \in RoomShape /\ room'.host \in {0, room.host} /\ room'.nudges = room.nudges
      /\ room'.clients = room.clients
  BY <1>2, <1>3, RoomEdits DEF Parts
<1>7. Told'
  <2>1. room.host # 0 => room.host \in Sessions  BY <1>2, RoomEdits
  <2> QED  BY <1>2, <1>5, <1>6, <2>1 DEF Told, ToldOf, SessionsAlike
<1>8. \A x \in Sessions : session[x].stage # "joined" => session'[x].down = <<>>
  BY <1>2, <1>5 DEF Hosting
<1> QED  BY <1>1, <1>3, <1>4, <1>5, <1>6, <1>7, <1>8, RelayKeeps

LEMMA RouteDownKeeps ==
  ASSUME RelayInv, NEW s \in Sessions, RouteDown(s)
  PROVE  RelayInv'
<1>1. PICK L : L = Late  OBVIOUS
<1>2. Sockets(L) /\ Parts /\ Hosting /\ Told  BY <1>1, SocketsBefore DEF RelayInv
<1>3. PICK f : f = Head(session[s].up)  OBVIOUS
<1>4. session[s].up # <<>> /\ session[s].up \in Seq(ToRelay(L)) /\ f.t = "rpc"
  BY <1>2, <1>3 DEF RouteDown, Heard, Sockets, SessionShape
<1>5. f \in ToClient(L) /\ f.link \in Links
  <2>1. f \in ToRelay(L)  BY <1>3, <1>4
  <2> QED  BY <1>4, <2>1, FrameFacts DEF ToRelay, ToClient
<1>6. PICK e : e = [session EXCEPT ![s].up = Tail(@)]  OBVIOUS
<1>7. /\ link' = IF f.link \in room.clients THEN Send(link, f.link, f) ELSE link
      /\ session' = IF f.link \in room.clients THEN e ELSE Send(e, room.host, ClientGone(f.link))
      /\ room' = room /\ room.host = s /\ UNCHANGED <<call, cache, dialer>>
  BY <1>3, <1>6 DEF RouteDown, relayOnly, cacheVars
<1>8. link' \in LinkEnds(L) /\ LinksAlike(link', link)
  <2>1. Send(link, f.link, f) \in LinkEnds(L) /\ LinksAlike(Send(link, f.link, f), link)
    BY <1>2, <1>5, SendToLink DEF Sockets
  <2> QED  BY <1>2, <1>7, <2>1, AlikeAndAlike DEF Sockets
<1>9. /\ e \in [Sessions -> SessionShape(L)] /\ SessionsAlike(e, session)
      /\ \A x \in Sessions : e[x].down = session[x].down
  <2>1. e \in [Sessions -> SessionShape(L)] /\ SessionsAlike(e, session)
    BY <1>2, <1>4, <1>6, SessionEdits, SessionEditsAlike, Zenon DEF Sockets
  <2> QED  BY <1>2, <1>6, <2>1 DEF Sockets, SessionShape
<1>10. /\ session' \in [Sessions -> SessionShape(L)] /\ SessionsAlike(session', session) /\ Told'
       /\ \A x \in Sessions : session[x].stage # "joined" => session'[x].down = <<>>
  <2>1. CASE f.link \in room.clients
    <3>1. session' = e /\ room' = room  BY <1>7, <2>1
    <3>2. Told'  BY <1>2, <1>7, <1>9, <3>1 DEF Told, ToldOf, SessionsAlike
    <3> QED  BY <1>2, <1>9, <3>1, <3>2 DEF Hosting
  <2>2. CASE f.link \notin room.clients
    <3>1. PICK g \in ToHost(L) : g = ClientGone(f.link) /\ g.t # "rpc"  BY <1>5, FrameFacts
    <3>2. session' = Send(e, room.host, g) /\ room'.host = room.host /\ room'.clients = room.clients
      BY <1>7, <2>2, <3>1
    <3> QED  BY <1>2, <1>9, <3>1, <3>2, SendTold
  <2> QED  BY <2>1, <2>2
<1> QED
  <2>1. room' \in RoomShape  BY <1>2, <1>7 DEF Parts
  <2> QED  BY <1>1, <1>7, <1>8, <1>10, <2>1, RelayKeeps

\* The relay also reads the end of a socket, or finds out that it was cut.
LEMMA RelayEndsKeep ==
  ASSUME RelayInv, ReadEnd \/ NoticeCut
  PROVE  RelayInv'
<1>1. room.clients \subseteq Links /\ (room.host # 0 => room.host \in Sessions)
  BY RoomEdits DEF RelayInv
<1>2. \/ \E l \in Links : ClientLeaves(l) /\ UNCHANGED relayOnly
      \/ \E s \in Sessions : HostLeaves(s) /\ UNCHANGED relayOnly
  BY <1>1 DEF ReadEnd, NoticeCut
<1> QED  BY <1>2, ClientLeavesKeeps, HostLeavesKeeps

-----------------------------------------------------------------------------
(* The host *)

\* A step of the host's end of its live socket.
LEMMA HostKeeps ==
  ASSUME NEW L, L = Late, RelayInv, UNCHANGED <<room, link, call, cache, dialer>>,
         NEW s \in Sessions, NEW v \in SessionShape(L), session' = [session EXCEPT ![s] = v],
         session[s].stage = "joined", v.stage \in {"joined", "ended"}, session[s].cut => v.cut,
         v.stage = "ended" => v.conns = {} /\ v.serving = {} /\ v.down = <<>>,
         \A x \in v.serving : x[1] \in v.conns,
         ToldOf(s) => v.cut \/ ToldAbout(room.clients, v.conns, v.down)
  PROVE  RelayInv'
<1>1. Dialing' /\ Late' = Late  BY CallsStay, AlikeAndAlike DEF RelayInv
<1>2. Sockets(L) /\ Parts /\ Hosting /\ Queueing /\ Told  BY SocketsBefore DEF RelayInv
<1>3. \A x \in Sessions : session'[x] = IF x = s THEN v ELSE session[x]  BY <1>2 DEF Sockets
<1>4. Sockets(Late)'
  <2>1. Sockets(L)'  BY <1>2 DEF Sockets
  <2> QED  BY <1>1, <2>1, SocketsAfter
<1>5. Parts'  BY <1>2 DEF Parts
<1>6. Hosting'
  <2>1. ASSUME NEW t \in Sessions, NEW x \in 1 .. t - 1, session'[t].stage # "none"
        PROVE  session'[x].stage = "ended"
    <3>1. x \in Sessions /\ x # t  BY DeviceRelayAssumption DEF Sessions
    <3>2. session[t].stage # "none"  BY <1>3, <2>1
    <3>3. session[x].stage = "ended"  BY <1>2, <3>2 DEF Hosting
    <3>4. x # s  BY <3>3
    <3> QED  BY <1>3, <3>1, <3>3, <3>4
  <2> QED  BY <1>2, <1>3, <2>1 DEF Hosting
<1>7. Queueing'
  <2>1. room.host # 0 => room.host \in Sessions  BY <1>2, RoomEdits
  <2> QED  BY <1>2, <1>3, <2>1 DEF Queueing, Reaches
<1>8. Told'
  <2>1. room.host # 0 => room.host \in Sessions  BY <1>2, RoomEdits
  <2> QED  BY <1>2, <1>3, <2>1 DEF Told, ToldOf
<1> QED  BY <1>1, <1>4, <1>5, <1>6, <1>7, <1>8 DEF RelayInv

\* The live socket's end goes.
LEMMA EndedKeeps ==
  ASSUME RelayInv, NEW s \in Sessions, session[s].stage = "joined",
         session' = [session EXCEPT ![s] = Ended(s)], UNCHANGED <<room, link, call, cache, dialer>>
  PROVE  RelayInv'
<1>1. PICK L : L = Late  OBVIOUS
<1>2. session[s] \in SessionShape(L)  BY <1>1, SocketsBefore DEF RelayInv, Sockets
<1>3. PICK v : v = Ended(s)  OBVIOUS
<1>4. /\ v \in SessionShape(L) /\ v.stage = "ended" /\ v.conns = {} /\ v.serving = {} /\ v.down = <<>>
      /\ v.cut = session[s].cut
  <2>1. Closed \in ToRelay(L)  BY FrameFacts
  <2>2. Append(session[s].up, Closed) \in Seq(ToRelay(L))  BY <1>2, <2>1 DEF SessionShape
  <2>3. v.up \in Seq(ToRelay(L)) /\ v.cut = session[s].cut
    BY <1>2, <1>3, <2>2 DEF Ended, SessionShape
  <2>4. v.stage = "ended" /\ v.conns = {} /\ v.serving = {} /\ v.down = <<>>
    BY <1>2, <1>3 DEF Ended, SessionShape
  <2>5. v = [stage |-> v.stage, cut |-> v.cut, up |-> v.up, down |-> v.down,
             conns |-> v.conns, serving |-> v.serving]
    BY <1>2, <1>3 DEF Ended, SessionShape
  <2>6. v.cut \in BOOLEAN /\ <<>> \in Seq(ToHost(L))  BY <1>2, <2>3 DEF SessionShape
  <2>7. v \in SessionShape(L)  BY <2>3, <2>4, <2>5, <2>6 DEF SessionShape
  <2> QED  BY <2>3, <2>4, <2>7
<1>5. ToldAbout(room.clients, v.conns, v.down)  BY <1>4 DEF ToldAbout
<1> QED  BY <1>1, <1>3, <1>4, <1>5, HostKeeps

\* The live socket when a frame was read, with what is left of it.
Took(w, c, g) == [w EXCEPT !.down = Tail(@), !.conns = c, !.serving = g]

LEMMA TookFacts ==
  ASSUME NEW L, NEW w \in SessionShape(L), w.down # <<>>, NEW c \in SUBSET Links,
         NEW g \in SUBSET (Links \X (L \cup {Probe}))
  PROVE  /\ Took(w, c, g) \in SessionShape(L) /\ Took(w, c, g).down = Tail(w.down)
         /\ Took(w, c, g).stage = w.stage /\ Took(w, c, g).cut = w.cut
         /\ Took(w, c, g).conns = c /\ Took(w, c, g).serving = g
<1>1. w.down \in Seq(ToHost(L)) /\ Tail(w.down) \in Seq(ToHost(L))  BY DEF SessionShape
<1> QED  BY <1>1 DEF Took, SessionShape

LEMMA HostTakesKeeps ==
  ASSUME RelayInv, NEW s \in Sessions, HostTakes(s)
  PROVE  RelayInv'
<1>1. PICK L : L = Late  OBVIOUS
<1>2. Sockets(L) /\ Parts /\ Hosting /\ Told  BY <1>1, SocketsBefore DEF RelayInv
<1>3. PICK f : f = Head(session[s].down)  OBVIOUS
<1>4. PICK w : w = session[s]  OBVIOUS
<1>5. /\ w \in SessionShape(L) /\ w.stage = "joined" /\ w.down # <<>> /\ w.down \in Seq(ToHost(L))
      /\ f \in ToHost(L) /\ Tail(w.down) \in Seq(ToHost(L))
  <2>1. w \in SessionShape(L) /\ w.stage = "joined" /\ w.down # <<>> /\ w.down \in Seq(ToHost(L))
    BY <1>2, <1>4 DEF HostTakes, Joined, Sockets, SessionShape
  <2> QED  BY <1>3, <1>4, <2>1
<1>6. \A x \in w.serving : x[1] \in w.conns  BY <1>2, <1>4 DEF Hosting
<1>7. UNCHANGED <<room, link, call, cache, dialer>>
  BY DEF HostTakes, hostOnly, cacheVars
<1>8. PICK u : u = session'[s]  OBVIOUS
<1>9. w.conns \in SUBSET Links /\ w.serving \in SUBSET (Links \X (L \cup {Probe}))
  BY <1>5 DEF SessionShape
<1>10. ASSUME ToldOf(s)
       PROVE  /\ f.t = "rpc" => ToldAbout(room.clients, w.conns \cup {f.link}, Tail(w.down))
              /\ f.t = "gone" => ToldAbout(room.clients, w.conns \ {f.link}, Tail(w.down))
              /\ f.t \notin {"rpc", "gone"} => ToldAbout(room.clients, w.conns, Tail(w.down))
  <2>1. PICK D : D = w.down  OBVIOUS
  <2>2. PICK C, R : C = w.conns /\ R = room.clients  OBVIOUS
  <2>3. ToldAbout(R, C, D) /\ D \in Seq(ToHost(L)) /\ D # <<>> /\ f = Head(D)
    BY <1>3, <1>4, <1>5, <1>10, <2>1, <2>2 DEF ToldOf
  <2>4. /\ f.t = "rpc" => ToldAbout(R, C \cup {f.link}, Tail(D))
        /\ f.t = "gone" => ToldAbout(R, C \ {f.link}, Tail(D))
        /\ f.t \notin {"rpc", "gone"} => ToldAbout(R, C, Tail(D))
    BY <2>3, ToldTail
  <2> QED  BY <2>1, <2>2, <2>4
<1>11. CASE f.t = "rpc"
  <2>1. PICK v : v = Took(w, w.conns \cup {f.link}, w.serving \cup {<<f.link, f.call>>})
    OBVIOUS
  <2>2. session' = [session EXCEPT ![s] = v]
    <3>1. session' = [session EXCEPT ![s] = u]
      BY <1>2, <1>3, <1>8, <1>11 DEF HostTakes, Sockets
    <3>2. u = v
      BY <1>2, <1>3, <1>4, <1>5, <1>8, <1>11, <2>1 DEF HostTakes, Sockets, SessionShape, Took
    <3> QED  BY <3>1, <3>2
  <2>3. f.link \in Links /\ f.call \in L \cup {Probe}  BY <1>5, <1>11, FrameFacts DEF ToHost
  <2>4. w.conns \cup {f.link} \in SUBSET Links
        /\ w.serving \cup {<<f.link, f.call>>} \in SUBSET (Links \X (L \cup {Probe}))
    BY <1>9, <2>3
  <2>5. /\ v \in SessionShape(L) /\ v.stage = "joined" /\ v.cut = w.cut /\ v.down = Tail(w.down)
        /\ v.conns = w.conns \cup {f.link} /\ v.serving = w.serving \cup {<<f.link, f.call>>}
    BY <1>5, <2>1, <2>4, TookFacts
  <2>6. \A x \in v.serving : x[1] \in v.conns  BY <1>6, <2>5
  <2>7. ToldOf(s) => ToldAbout(room.clients, v.conns, v.down)
    BY <1>10, <1>11, <2>5
  <2> QED  BY <1>1, <1>4, <1>5, <1>7, <2>2, <2>5, <2>6, <2>7, HostKeeps
<1>12. CASE f.t = "gone"
  <2>1. PICK v : v = Took(w, w.conns \ {f.link}, {x \in w.serving : x[1] # f.link})
    OBVIOUS
  <2>2. session' = [session EXCEPT ![s] = v]
    <3>1. session' = [session EXCEPT ![s] = u]
      BY <1>2, <1>3, <1>8, <1>12 DEF HostTakes, Sockets
    <3>2. u = v
      <4>1. u = [[[w EXCEPT !.down = Tail(@)] EXCEPT !.conns = @ \ {f.link}]
                   EXCEPT !.serving = {x \in @ : x[1] # f.link}]
        <5>1. PICK r : r = [session EXCEPT ![s].down = Tail(@)]  OBVIOUS
        <5>2. r[s] = [w EXCEPT !.down = Tail(@)] /\ s \in DOMAIN r  BY <1>2, <1>4, <5>1 DEF Sockets
        <5>3. session' = [r EXCEPT ![s].conns = @ \ {f.link}, ![s].serving = {x \in @ : x[1] # f.link}]
          BY <1>3, <1>12, <5>1 DEF HostTakes
        <5> QED  BY <1>8, <5>2, <5>3
      <4> QED  BY <1>5, <2>1, <4>1 DEF SessionShape, Took
    <3> QED  BY <3>1, <3>2
  <2>3. w.conns \ {f.link} \in SUBSET Links
        /\ {x \in w.serving : x[1] # f.link} \in SUBSET (Links \X (L \cup {Probe}))
    BY <1>9
  <2>4. /\ v \in SessionShape(L) /\ v.stage = "joined" /\ v.cut = w.cut /\ v.down = Tail(w.down)
        /\ v.conns = w.conns \ {f.link} /\ v.serving = {x \in w.serving : x[1] # f.link}
    BY <1>5, <2>1, <2>3, TookFacts
  <2>5. \A x \in v.serving : x[1] \in v.conns  BY <1>6, <2>4
  <2>6. ToldOf(s) => ToldAbout(room.clients, v.conns, v.down)
    BY <1>10, <1>12, <2>4
  <2> QED  BY <1>1, <1>4, <1>5, <1>7, <2>2, <2>4, <2>5, <2>6, HostKeeps
<1>13. CASE f.t = "nudge"
  <2>1. PICK v : v = Took(w, w.conns, w.serving)
    OBVIOUS
  <2>2. session' = [session EXCEPT ![s] = v]
    BY <1>2, <1>3, <1>4, <1>13, <2>1 DEF HostTakes, Sockets, SessionShape, Took
  <2>4. /\ v \in SessionShape(L) /\ v.stage = "joined" /\ v.cut = w.cut /\ v.down = Tail(w.down)
        /\ v.conns = w.conns /\ v.serving = w.serving
    BY <1>5, <1>9, <2>1, TookFacts
  <2>5. ToldOf(s) => ToldAbout(room.clients, v.conns, v.down)
    BY <1>10, <1>13, <2>4
  <2> QED  BY <1>1, <1>4, <1>5, <1>6, <1>7, <2>2, <2>4, <2>5, HostKeeps
<1>14. CASE f.t = "close"
  <2>1. session' = [session EXCEPT ![s] = Ended(s)]  BY <1>3, <1>14 DEF HostTakes
  <2> QED  BY <1>4, <1>5, <1>7, <2>1, EndedKeeps
<1> QED  BY <1>5, <1>11, <1>12, <1>13, <1>14 DEF ToHost

LEMMA AnswerKeeps ==
  ASSUME RelayInv, NEW s \in Sessions, Answer(s)
  PROVE  RelayInv'
<1>1. PICK L : L = Late  OBVIOUS
<1>2. Sockets(L) /\ Hosting  BY <1>1, SocketsBefore DEF RelayInv
<1>3. PICK x \in session[s].serving :
        session' = [session EXCEPT ![s].serving = @ \ {x},
                                   ![s].up = IF session[s].cut THEN @ ELSE Append(@, Rpc(x[1], x[2]))]
  BY DEF Answer
<1>4. session[s] \in SessionShape(L) /\ session[s].stage = "joined"
  BY <1>2 DEF Sockets, Answer, Joined
<1>5. PICK v : v = session'[s]  OBVIOUS
<1>6. session' = [session EXCEPT ![s] = v]  BY <1>2, <1>3, <1>5 DEF Sockets
<1>7. x[1] \in Links /\ x[2] \in L \cup {Probe}  BY <1>4 DEF SessionShape
<1>8. Append(session[s].up, Rpc(x[1], x[2])) \in Seq(ToRelay(L))
  <2>1. Rpc(x[1], x[2]) \in ToRelay(L)  BY <1>7, FrameFacts
  <2> QED  BY <1>4, <2>1 DEF SessionShape
<1>9. /\ v \in SessionShape(L) /\ v.stage = "joined" /\ v.cut = session[s].cut /\ v.conns = session[s].conns
      /\ v.down = session[s].down /\ v.serving = session[s].serving \ {x}
  BY <1>2, <1>3, <1>4, <1>5, <1>8 DEF Sockets, SessionShape
<1>10. \A y \in v.serving : y[1] \in v.conns  BY <1>2, <1>9 DEF Hosting
<1>11. UNCHANGED <<room, link, call, cache, dialer>>  BY DEF Answer, hostOnly, cacheVars
<1> QED  BY <1>1, <1>4, <1>6, <1>9, <1>10, <1>11, HostKeeps DEF ToldOf

LEMMA SessionFaultsKeep ==
  ASSUME RelayInv, NEW s \in Sessions, HostLease(s) \/ CloseSession(s) \/ CutSession(s)
  PROVE  RelayInv'
<1>1. UNCHANGED <<room, link, call, cache, dialer>> /\ session[s].stage = "joined"
  BY DEF HostLease, CloseSession, CutSession, hostOnly, cacheVars, Joined
<1>2. CASE HostLease(s) \/ CloseSession(s)
  BY <1>1, <1>2, EndedKeeps DEF HostLease, CloseSession
<1>3. CASE CutSession(s)
  <2>1. PICK L : L = Late  OBVIOUS
  <2>2. Sockets(L) /\ Hosting  BY <2>1, SocketsBefore DEF RelayInv
  <2>3. PICK v : v = session'[s]  OBVIOUS
  <2>4. session' = [session EXCEPT ![s] = v]  BY <1>3, <2>2, <2>3 DEF CutSession, Sockets
  <2>5. /\ v \in SessionShape(L) /\ v.stage = "joined" /\ v.cut
        /\ v.conns = session[s].conns /\ v.serving = session[s].serving
    <3>1. v = [session[s] EXCEPT !.cut = TRUE, !.up = <<>>, !.down = <<>>] /\ session[s] \in SessionShape(L)
      BY <1>3, <2>2, <2>3 DEF CutSession, Sockets
    <3>2. PICK w : w = session[s]  OBVIOUS
    <3>3. w \in SessionShape(L) /\ w.stage = "joined"  BY <1>1, <3>1, <3>2
    <3>4. v = [stage |-> w.stage, cut |-> TRUE, up |-> <<>>, down |-> <<>>,
               conns |-> w.conns, serving |-> w.serving]
      BY <3>1, <3>2, <3>3 DEF SessionShape
    <3>5. <<>> \in Seq(ToRelay(L)) /\ <<>> \in Seq(ToHost(L))  OBVIOUS
    <3> QED  BY <3>2, <3>3, <3>4, <3>5 DEF SessionShape
  <2>6. \A y \in v.serving : y[1] \in v.conns  BY <2>2, <2>5 DEF Hosting
  <2> QED  BY <1>1, <2>1, <2>4, <2>5, <2>6, HostKeeps
<1> QED  BY <1>2, <1>3

\* A host takes the room from whichever socket holds it.
LEMMA HostJoinsKeeps ==
  ASSUME RelayInv, NEW s \in Sessions, HostJoins(s)
  PROVE  RelayInv'
<1>1. PICK L : L = Late  OBVIOUS
<1>2. Sockets(L) /\ Parts /\ Hosting  BY <1>1, SocketsBefore DEF RelayInv
<1>3. UNCHANGED <<link, call, cache, dialer>>  BY DEF HostJoins, cacheVars
<1>4. Dialing' /\ Late' = Late  BY <1>3, CallsStay, AlikeAndAlike DEF RelayInv
<1>5. PICK h \in {0} \cup Sessions : h = room.host  BY <1>2, RoomEdits
<1>6. PICK e : e = Send(session, h, Closed)  OBVIOUS
<1>7. /\ e \in [Sessions -> SessionShape(L)] /\ SessionsAlike(e, session)
      /\ \A x \in Sessions : ~ Reaches(session[x]) => e[x].down = session[x].down
  <2>1. Closed \in ToHost(L)  BY FrameFacts
  <2> QED  BY <1>2, <1>6, <2>1, SendToSession DEF Sockets
<1>8. PICK d : d = [n \in DOMAIN room.nudges |-> NudgeFrame(room.nudges[n])]  OBVIOUS
<1>9. d \in Seq(ToHost(L)) /\ \A i \in 1 .. Len(d) : d[i].t # "rpc"
  <2>1. room.nudges \in Seq(Chats)  BY <1>2, RoomEdits
  <2>2. \A k \in Chats : NudgeFrame(k) \in ToHost(L) /\ NudgeFrame(k).t = "nudge"  BY FrameFacts
  <2>3. d \in [1 .. Len(room.nudges) -> ToHost(L)] /\ Len(room.nudges) \in Nat  BY <1>8, <2>1, <2>2
  <2>4. d \in Seq(ToHost(L)) /\ Len(d) = Len(room.nudges)  BY <2>3, IsASeq, LenProperties
  <2> QED  BY <1>8, <2>1, <2>2, <2>4
<1>10. PICK v : v = [NoSession EXCEPT !.stage = "joined", !.down = d]  OBVIOUS
<1>11. /\ v \in SessionShape(L) /\ v.stage = "joined" /\ v.cut = FALSE /\ v.conns = {}
       /\ v.serving = {} /\ v.down = d
  <2>1. <<>> \in Seq(ToRelay(L))  OBVIOUS
  <2> QED  BY <1>9, <1>10, <2>1 DEF SessionShape, NoSession
<1>12. session' = [e EXCEPT ![s] = v]  BY <1>5, <1>6, <1>8, <1>10 DEF HostJoins
<1>13. \A x \in Sessions : session'[x] = IF x = s THEN v ELSE e[x]  BY <1>7, <1>12
<1>14. Sockets(Late)'
  <2>1. Sockets(L)'  BY <1>2, <1>3, <1>7, <1>11, <1>12 DEF Sockets
  <2> QED  BY <1>1, <1>4, <2>1, SocketsAfter
<1>15. room' = [room EXCEPT !.host = s, !.nudges = <<>>]  BY DEF HostJoins
<1>16. room' \in RoomShape /\ room'.host = s /\ room'.nudges = <<>>
  <2>1. <<>> \in Seq(Chats)  OBVIOUS
  <2> QED  BY <1>2, <1>15, <2>1 DEF Parts, RoomShape
<1>17. Parts'  BY <1>2, <1>3, <1>16 DEF Parts
<1>18. \A x \in Sessions : /\ e[x].stage = session[x].stage /\ e[x].conns = session[x].conns
                           /\ e[x].serving = session[x].serving
  BY <1>7 DEF SessionsAlike
<1>19. session[s].stage = "none" /\ \A x \in 1 .. s - 1 : session[x].stage = "ended"
  BY DEF HostJoins
<1>20. Hosting'
  <2>1. ASSUME NEW t \in Sessions, NEW x \in 1 .. t - 1, session'[t].stage # "none"
        PROVE  session'[x].stage = "ended"
    <3>1. x \in Sessions /\ x # t  BY DeviceRelayAssumption DEF Sessions
    <3>2. session[x].stage = "ended"
      BY <1>2, <1>13, <1>18, <1>19, <2>1 DEF Hosting
    <3>3. x # s  BY <1>19, <3>2
    <3> QED  BY <1>13, <1>18, <3>1, <3>2, <3>3
  <2>2. ASSUME NEW t \in Sessions, session'[t].stage # "joined"
        PROVE  session'[t].conns = {} /\ session'[t].serving = {} /\ session'[t].down = <<>>
    <3>1. t # s /\ session[t].stage # "joined"  BY <1>11, <1>13, <1>18, <2>2
    <3>2. session[t].stage \in {"none", "ended"}  BY <1>2, <3>1 DEF Sockets, SessionShape
    <3>3. ~ Reaches(session[t])  BY <3>2 DEF Reaches
    <3> QED  BY <1>2, <1>7, <1>13, <1>18, <3>1, <3>3 DEF Hosting
  <2>3. \A t \in Sessions : \A x \in session'[t].serving : x[1] \in session'[t].conns
    BY <1>2, <1>11, <1>13, <1>18 DEF Hosting
  <2> QED  BY <2>1, <2>2, <2>3 DEF Hosting
<1>21. Queueing'
  BY <1>11, <1>13, <1>16, DeviceRelayAssumption DEF Queueing
<1>22. Told'
  BY <1>9, <1>11, <1>13, <1>16 DEF Told, ToldOf, ToldAbout
<1> QED  BY <1>4, <1>14, <1>17, <1>20, <1>21, <1>22 DEF RelayInv

LEMMA NudgeKeeps ==
  ASSUME RelayInv, NEW k \in Chats, Nudge(k)
  PROVE  RelayInv'
<1>1. PICK L : L = Late  OBVIOUS
<1>2. Sockets(L) /\ Parts /\ Hosting /\ Queueing /\ Told  BY <1>1, SocketsBefore DEF RelayInv
<1>3. UNCHANGED <<link, call, cache, dialer>>  BY DEF Nudge, cacheVars
<1>4. CASE room' = room /\ session' = Send(session, room.host, NudgeFrame(k))
  <2>1. PICK f \in ToHost(L) : f = NudgeFrame(k) /\ f.t # "rpc"  BY FrameFacts
  <2>2. session \in [Sessions -> SessionShape(L)] /\ SessionsAlike(session, session)
    BY <1>2, AlikeAndAlike DEF Sockets
  <2>3. /\ session' \in [Sessions -> SessionShape(L)] /\ SessionsAlike(session', session) /\ Told'
        /\ \A s \in Sessions : session[s].stage # "joined" => session'[s].down = <<>>
    BY <1>2, <1>4, <2>1, <2>2, SendTold
  <2>4. link' \in LinkEnds(L) /\ LinksAlike(link', link) /\ room' \in RoomShape
    BY <1>2, <1>3, <1>4, AlikeAndAlike DEF Sockets, Parts
  <2> QED  BY <1>1, <1>3, <1>4, <2>3, <2>4, RelayKeeps
<1>5. CASE /\ room.host # 0 => ~ Reaches(session[room.host])
           /\ \E kept \in Seq(Chats) : Len(kept) < NudgeCapacity /\ room' = [room EXCEPT !.nudges = Append(kept, k)]
           /\ session' = session
  <2>1. PICK kept \in Seq(Chats) : Len(kept) < NudgeCapacity /\ room' = [room EXCEPT !.nudges = Append(kept, k)]
    BY <1>5
  <2>2. Append(kept, k) \in Seq(Chats) /\ Len(Append(kept, k)) <= NudgeCapacity
    BY <2>1, DeviceRelayAssumption
  <2>3. /\ room' \in RoomShape /\ room'.host = room.host /\ room'.clients = room.clients
        /\ Len(room'.nudges) <= NudgeCapacity
    BY <1>2, <2>1, <2>2 DEF Parts, RoomShape
  <2>4. Dialing' /\ Late' = Late  BY <1>3, CallsStay, AlikeAndAlike DEF RelayInv
  <2>5. Sockets(Late)'
    <3>1. Sockets(L)'  BY <1>2, <1>3, <1>5 DEF Sockets
    <3> QED  BY <1>1, <2>4, <3>1, SocketsAfter
  <2>6. Parts' /\ Hosting'  BY <1>2, <1>3, <1>5, <2>3 DEF Parts, Hosting
  <2>7. Queueing' /\ Told'  BY <1>2, <1>5, <2>3 DEF Queueing, Told, ToldOf, Reaches
  <2> QED  BY <2>4, <2>5, <2>6, <2>7 DEF RelayInv
<1>6. PICK waiting : waiting = RemoveFirst(room.nudges, k)  OBVIOUS
<1>7. PICK kept : kept = IF Len(waiting) >= NudgeCapacity THEN Tail(waiting) ELSE waiting  OBVIOUS
<1>8. kept \in Seq(Chats) /\ Len(kept) < NudgeCapacity
  <2>1. room.nudges \in Seq(Chats) /\ Len(room.nudges) <= NudgeCapacity
    BY <1>2, RoomEdits DEF Queueing
  <2>2. waiting \in Seq(Chats) /\ Len(waiting) <= Len(room.nudges)  BY <1>6, <2>1, RemoveFirstFacts
  <2>3. Len(waiting) \in Nat /\ Len(room.nudges) \in Nat  BY <2>1, <2>2
  <2> QED  BY <1>7, <2>1, <2>2, <2>3, DeviceRelayAssumption
<1>9. \/ room' = room /\ session' = Send(session, room.host, NudgeFrame(k))
      \/ /\ room.host # 0 => ~ Reaches(session[room.host])
         /\ room' = [room EXCEPT !.nudges = Append(kept, k)]
         /\ session' = session
  BY <1>6, <1>7 DEF Nudge
<1> QED  BY <1>4, <1>5, <1>8, <1>9

-----------------------------------------------------------------------------
(* The controlling device *)

\* A step of the controlling device, whatever it does to its calls and links.
LEMMA ClientKeeps ==
  ASSUME RelayInv, UNCHANGED <<room, session>>, NEW L, L = Late', Late \subseteq Late',
         link' \in LinkEnds(L), Parts', Dialing'
  PROVE  RelayInv'
<1>1. Hosting' /\ Queueing' /\ Told'  BY RoomAndHostStay DEF RelayInv
<1>2. Sockets(Late)'
  <2>1. Sockets(L)  BY SocketsBefore DEF RelayInv
  <2>2. Sockets(L)'  BY <2>1 DEF Sockets
  <2> QED  BY <2>2, SocketsAfter
<1> QED  BY <1>1, <1>2 DEF RelayInv

LEMMA DownLinkFacts ==
  ASSUME NEW L, Sockets(L), NEW l \in Links
  PROVE  /\ DownLink(l) \in LinkEnds(L)
         /\ \A x \in Links : /\ DownLink(l)[x].probed = link[x].probed
                             /\ DownLink(l)[x].stage = IF x = l THEN "down" ELSE link[x].stage
<1>1. PICK u : u = IF Heeded(l) THEN Append(link[l].up, Closed) ELSE <<>>  OBVIOUS
<1>2. DownLink(l) = [link EXCEPT ![l] = [link[l] EXCEPT !.stage = "down", !.down = <<>>, !.up = u]]
  BY <1>1 DEF DownLink, Sockets, LinkEnds, LinkShape
<1>3. link[l] \in LinkShape(L) /\ link \in [Links -> LinkShape(L)]  BY DEF Sockets, LinkEnds
<1>4. u \in Seq(ToRelay(L)) /\ \A i \in 1 .. Len(u) : u[i].t = "rpc" => u[i].link = l
  <2>1. link[l].up \in Seq(ToRelay(L))
        /\ \A i \in 1 .. Len(link[l].up) : link[l].up[i].t = "rpc" => link[l].up[i].link = l
    BY <1>3 DEF Sockets, LinkEnds, LinkShape
  <2>2. Closed \in ToRelay(L) /\ Closed.t # "rpc"  BY FrameFacts
  <2> QED  BY <1>1, <2>1, <2>2
<1>5. PICK v : v = [link[l] EXCEPT !.stage = "down", !.down = <<>>, !.up = u]  OBVIOUS
<1>6. v \in LinkShape(L) /\ v.stage = "down" /\ v.probed = link[l].probed /\ v.up = u
  <2>1. <<>> \in Seq(ToClient(L))  OBVIOUS
  <2> QED  BY <1>3, <1>4, <1>5, <2>1 DEF LinkShape
<1>7. PICK d : d = DownLink(l)  OBVIOUS
<1>8. d \in [Links -> LinkShape(L)] /\ \A x \in Links : d[x] = IF x = l THEN v ELSE link[x]
  BY <1>2, <1>3, <1>5, <1>6, <1>7
<1>9. d \in LinkEnds(L)  BY <1>4, <1>6, <1>8 DEF Sockets, LinkEnds
<1> QED  BY <1>6, <1>7, <1>8, <1>9

LEMMA CallsFailedFacts ==
  ASSUME Parts, NEW l
  PROVE  /\ CallsFailedBy(l) \in [Calls -> CallShape]
         /\ \A c \in Calls :
              /\ CallsFailedBy(l)[c].link = call[c].link /\ CallsFailedBy(l)[c].attempt = call[c].attempt
              /\ CallsFailedBy(l)[c].stage = IF call[c].stage = "sent" /\ call[c].link = l THEN "failing"
                                             ELSE call[c].stage
BY DEF Parts, CallShape, CallStages, CallsFailedBy

LEMMA MoveFacts ==
  ASSUME NEW a \in [Calls -> CallShape], NEW c \in Calls, NEW stage \in CallStages
  PROVE  LET b == [a EXCEPT ![c].stage = stage]
         IN  /\ b \in [Calls -> CallShape]
             /\ \A d \in Calls : /\ b[d].link = a[d].link /\ b[d].attempt = a[d].attempt
                                 /\ b[d].stage = IF d = c THEN stage ELSE a[d].stage
BY DEF CallShape

\* A link goes down, or none does; calls on it fail, and others may have failed.
LEMMA DropKeeps ==
  ASSUME RelayInv, UNCHANGED <<room, session>>, cache' \in {0, cache}, dialer' = dialer,
         NEW D \in {0} \cup Links, link' = IF D # 0 THEN DownLink(D) ELSE link,
         call' \in [Calls -> CallShape],
         \A c \in Calls : /\ call'[c].link = call[c].link /\ call'[c].attempt = call[c].attempt
                          /\ \/ call'[c].stage = call[c].stage
                             \/ c \in Late /\ call'[c].stage \in {"failing", "failed", "done"}
                          /\ call[c].stage = "sent" /\ D # 0 /\ call[c].link = D => call'[c].stage # "sent"
  PROVE  RelayInv'
<1>1. PICK L : L = Late'  OBVIOUS
<1>2. Parts'  BY DEF RelayInv, Parts
<1>3. Sockets(Late)  BY DEF RelayInv
<1>4. /\ \A l \in Links : link'[l].probed = link[l].probed
      /\ \A l \in Links : l # D => link'[l].stage = link[l].stage
  BY <1>3, DownLinkFacts, Numbers
<1>5. \A c \in Calls : call'[c].stage = "sent" => link'[call[c].link].stage = link[call[c].link].stage
  <2> TAKE c \in Calls
  <2> HAVE call'[c].stage = "sent"
  <2>1. call[c].stage = "sent"  OBVIOUS
  <2>2. call[c].link \in Links /\ call[c].link # D
    BY <2>1 DEF RelayInv, Dialing, Parts, CallShape
  <2> QED  BY <1>4, <2>2
<1>6. Dialing' /\ Late \subseteq Late'
  BY <1>2, <1>4, <1>5, CallsLeave DEF RelayInv
<1>7. link' \in LinkEnds(L)
  <2>1. Sockets(L)  BY <1>1, <1>3, <1>6, SocketsBefore
  <2>2. CASE D = 0  BY <2>1, <2>2 DEF Sockets
  <2>3. CASE D \in Links
    <3>1. DownLink(D) \in LinkEnds(L)  BY <2>1, <2>3, DownLinkFacts
    <3> QED  BY <2>3, <3>1, Numbers
  <2> QED  BY <2>2, <2>3
<1> QED  BY <1>1, <1>2, <1>6, <1>7, ClientKeeps

LEMMA RestartKeeps ==
  ASSUME RelayInv, Restart
  PROVE  RelayInv'
<1>1. PICK L : L = Late  OBVIOUS
<1>2. Sockets(L) /\ Parts /\ Hosting  BY <1>1, SocketsBefore DEF RelayInv
<1>3. UNCHANGED <<call, cache, dialer>> /\ room' = EmptyRoom  BY DEF Restart, cacheVars
<1>4. /\ <<>> \in Seq(ToRelay(L)) /\ <<Closed>> \in Seq(ToClient(L)) /\ <<Closed>> \in Seq(ToHost(L))
  <2>1. Closed \in ToClient(L) /\ Closed \in ToHost(L)  BY FrameFacts
  <2> QED  BY <2>1
<1>5. link' \in LinkEnds(L) /\ LinksAlike(link', link)
  <2>1. link' = [l \in Links |-> IF Reaches(link[l]) THEN [link[l] EXCEPT !.up = <<>>, !.down = <<Closed>>]
                                 ELSE [link[l] EXCEPT !.up = <<>>]]
    BY DEF Restart
  <2>2. \A l \in Links :
          /\ link'[l] \in LinkShape(L) /\ link'[l].up = <<>>
          /\ link'[l].stage = link[l].stage /\ link'[l].probed = link[l].probed /\ link'[l].cut = link[l].cut
    BY <1>2, <1>4, <2>1 DEF Sockets, LinkEnds, LinkShape
  <2>3. link' \in [Links -> LinkShape(L)]  BY <2>1, <2>2
  <2> QED  BY <2>2, <2>3 DEF LinkEnds, LinksAlike
<1>6. /\ session' \in [Sessions -> SessionShape(L)]
      /\ \A s \in Sessions : /\ session'[s].stage = session[s].stage /\ session'[s].conns = session[s].conns
                             /\ session'[s].serving = session[s].serving
                             /\ session[s].stage # "joined" => session'[s].down = session[s].down
  <2>1. session' = [s \in Sessions |->
          IF Reaches(session[s]) THEN [session[s] EXCEPT !.up = <<>>, !.down = <<Closed>>]
          ELSE [session[s] EXCEPT !.up = <<>>]]
    BY DEF Restart
  <2>2. ASSUME NEW s \in Sessions
        PROVE  /\ session'[s] \in SessionShape(L)
               /\ session'[s].stage = session[s].stage /\ session'[s].conns = session[s].conns
               /\ session'[s].serving = session[s].serving
               /\ session[s].stage # "joined" => session'[s].down = session[s].down
    <3>1. session[s] \in SessionShape(L)  BY <1>2 DEF Sockets
    <3>2. CASE Reaches(session[s])
      <4>1. session[s].stage = "joined"  BY <3>1, <3>2 DEF Reaches, SessionShape
      <4> QED  BY <1>4, <2>1, <3>1, <3>2, <4>1 DEF SessionShape
    <3>3. CASE ~ Reaches(session[s])
      BY <1>4, <2>1, <3>1, <3>3 DEF SessionShape
    <3> QED  BY <3>2, <3>3
  <2>3. session' \in [Sessions -> SessionShape(L)]  BY <2>1, <2>2
  <2> QED  BY <2>2, <2>3
<1>7. Dialing' /\ Late' = Late  BY <1>3, <1>5, CallsStay DEF RelayInv
<1>8. Sockets(Late)'
  <2>1. Sockets(L)'  BY <1>5, <1>6 DEF Sockets
  <2> QED  BY <1>1, <1>7, <2>1, SocketsAfter
<1>9. room' \in RoomShape /\ room'.host = 0 /\ room'.nudges = <<>>
  <2>1. <<>> \in Seq(Chats)  OBVIOUS
  <2> QED  BY <1>3, <2>1 DEF EmptyRoom, RoomShape
<1>10. Parts' /\ Queueing' /\ Told'
  BY <1>2, <1>3, <1>9, DeviceRelayAssumption DEF Parts, Queueing, Told
<1>11. Hosting'
  <2>1. \A s \in Sessions : \A x \in 1 .. s - 1 : x \in Sessions  BY DeviceRelayAssumption DEF Sessions
  <2> QED  BY <1>2, <1>6, <2>1 DEF Hosting
<1> QED  BY <1>7, <1>8, <1>10, <1>11 DEF RelayInv

\* A link goes down by itself, is dropped with the cache, or nothing of a link is touched.
LEMMA DropsKeep ==
  ASSUME RelayInv,
         \/ \E l \in Links : LinkLease(l) \/ CloseLink(l)
         \/ Evict \/ CooldownOver \/ Wake \/ \E c \in Calls : Fail(c)
  PROVE  RelayInv'
<1>1. Parts /\ call \in [Calls -> CallShape] /\ cache \in {0} \cup Links  BY DEF RelayInv, Parts
<1>2. ASSUME NEW l \in Links, LinkLease(l) \/ CloseLink(l) PROVE RelayInv'
  <2>1. /\ link' = DownLink(l) /\ call' = CallsFailedBy(l)
        /\ UNCHANGED <<room, session, cache, dialer>>
    BY <1>2 DEF LinkLease, CloseLink, linkOnly, cacheVars
  <2>2. call' \in [Calls -> CallShape]
        /\ \A c \in Calls : /\ call'[c].link = call[c].link /\ call'[c].attempt = call[c].attempt
                            /\ call'[c].stage = IF call[c].stage = "sent" /\ call[c].link = l THEN "failing"
                                                ELSE call[c].stage
    BY <1>1, <2>1, CallsFailedFacts
  <2>3. link' = IF l # 0 THEN DownLink(l) ELSE link  BY <2>1, Numbers
  <2>4. \A c \in Calls : call[c].stage = "sent" => c \in Late  BY DEF Late
  <2> QED  BY <2>1, <2>2, <2>3, <2>4, DropKeeps
<1>3. CASE Evict \/ CooldownOver
  <2>1. UNCHANGED <<room, session, link, call, dialer>> /\ cache' \in {0, cache}
    BY <1>3 DEF Evict, CooldownOver, linkOnly
  <2> QED  BY <1>1, <2>1, DropKeeps
<1>4. ASSUME NEW D \in {0} \cup Links, D = IF Up(cache) THEN cache ELSE 0
      PROVE  /\ \A x : (IF Up(cache) THEN DownLink(cache) ELSE x) = IF D # 0 THEN DownLink(D) ELSE x
             /\ \A x : (IF Up(cache) THEN CallsFailedBy(cache) ELSE x) = IF D # 0 THEN CallsFailedBy(D) ELSE x
  BY <1>4 DEF Up
<1>5. PICK D \in {0} \cup Links : D = IF Up(cache) THEN cache ELSE 0  BY <1>1
<1>6. PICK a : a = IF D # 0 THEN CallsFailedBy(D) ELSE call  OBVIOUS
<1>7. a \in [Calls -> CallShape]
      /\ \A c \in Calls :
           /\ a[c].link = call[c].link /\ a[c].attempt = call[c].attempt
           /\ a[c].stage = IF call[c].stage = "sent" /\ D # 0 /\ call[c].link = D THEN "failing"
                           ELSE call[c].stage
  BY <1>1, <1>6, CallsFailedFacts
<1>8. \A c \in Calls : call[c].stage \in {"sent", "failing"} => c \in Late  BY DEF Late
<1>9. CASE Wake
  <2>1. /\ link' = IF D # 0 THEN DownLink(D) ELSE link
        /\ call' = a /\ cache' = 0 /\ UNCHANGED <<room, session, dialer>>
    BY <1>4, <1>5, <1>6, <1>9 DEF Wake, DropCached, linkOnly
  <2> QED  BY <1>7, <1>8, <2>1, DropKeeps
<1>10. ASSUME NEW c \in Calls, Fail(c) PROVE RelayInv'
  <2>1. /\ link' = IF D # 0 THEN DownLink(D) ELSE link
        /\ call' = [a EXCEPT ![c].stage = "failed"] /\ cache' = 0 /\ UNCHANGED <<room, session, dialer>>
        /\ call[c].stage = "failing"
    BY <1>4, <1>5, <1>6, <1>10 DEF Fail, DropCached, linkOnly, At
  <2>2. call' \in [Calls -> CallShape]
        /\ \A d \in Calls : /\ call'[d].link = a[d].link /\ call'[d].attempt = a[d].attempt
                            /\ call'[d].stage = IF d = c THEN "failed" ELSE a[d].stage
    <3>1. "failed" \in CallStages  BY DEF CallStages
    <3> QED  BY <1>7, <2>1, <3>1, MoveFacts
  <2>3. \A d \in Calls :
          /\ call'[d].link = call[d].link /\ call'[d].attempt = call[d].attempt
          /\ \/ call'[d].stage = call[d].stage
             \/ d \in Late /\ call'[d].stage \in {"failing", "failed", "done"}
          /\ call[d].stage = "sent" /\ D # 0 /\ call[d].link = D => call'[d].stage # "sent"
    <3> TAKE d \in Calls
    <3>1. CASE d = c  BY <1>7, <1>8, <2>1, <2>2, <3>1
    <3>2. CASE d # c  BY <1>7, <1>8, <2>2, <3>2
    <3> QED  BY <3>1, <3>2
  <2> QED  BY <2>1, <2>2, <2>3, DropKeeps
<1> QED  BY <1>2, <1>3, <1>9, <1>10

LEMMA LinkTakesKeeps ==
  ASSUME RelayInv, NEW l \in Links, LinkTakes(l)
  PROVE  RelayInv'
<1>1. PICK M : M = Late  OBVIOUS
<1>2. Sockets(M) /\ Parts /\ call \in [Calls -> CallShape]
  BY <1>1, SocketsBefore DEF RelayInv, Parts
<1>3. PICK f : f = Head(link[l].down)  OBVIOUS
<1>4. link[l] \in LinkShape(M) /\ link[l].down # <<>> /\ f \in ToClient(M)
  <2>1. link[l] \in LinkShape(M) /\ link[l].down # <<>> /\ link[l].down \in Seq(ToClient(M))
    BY <1>2 DEF LinkTakes, Sockets, LinkEnds, LinkShape
  <2> QED  BY <1>3, <2>1
<1>5. PICK rest : rest = [link EXCEPT ![l].down = Tail(@)]  OBVIOUS
<1>6. rest \in LinkEnds(M) /\ LinksAlike(rest, link)
  BY <1>2, <1>4, <1>5, LinkEdits, LinkEditsAlike, Zenon DEF Sockets
<1>7. UNCHANGED <<room, session, cache, dialer>>
  BY DEF LinkTakes, linkOnly, cacheVars
<1>8. \A x \in Links : rest[x].stage = link[x].stage /\ rest[x].probed = link[x].probed
  BY <1>6 DEF LinksAlike
<1>9. CASE f.t = "rpc" /\ f.call = Probe
  <2>1. link' = [rest EXCEPT ![l].probed = TRUE] /\ call' = call
    BY <1>3, <1>5, <1>9 DEF LinkTakes
  <2>2. /\ \A x \in Links : link'[x].stage = link[x].stage /\ (link[x].probed => link'[x].probed)
        /\ link' \in LinkEnds(M)
    <3>1. /\ link' \in [Links -> LinkShape(M)]
          /\ \A x \in Links : /\ link'[x].stage = rest[x].stage /\ link'[x].up = rest[x].up
                              /\ rest[x].probed => link'[x].probed
      BY <1>6, <2>1 DEF LinkEnds, LinkShape
    <3> QED  BY <1>6, <1>8, <3>1 DEF LinkEnds
  <2>3. Parts' /\ Late' = Late  BY <1>2, <1>7, <2>1 DEF Parts, Late
  <2>4. \A c \in Calls : call'[c].stage = "sent" => link'[call[c].link].stage = link[call[c].link].stage
    BY <2>1, <2>2 DEF RelayInv, Dialing, Parts, CallShape
  <2>5. Dialing'
    BY <1>7, <2>1, <2>2, <2>3, <2>4, CallsLeave DEF RelayInv
  <2> QED  BY <1>1, <1>7, <2>2, <2>3, <2>5, ClientKeeps
<1>10. CASE f.t = "rpc" /\ f.call # Probe
  <2>1. f.call \in Late /\ f.call \in Calls
    BY <1>1, <1>4, <1>10, FrameFacts DEF ToClient, Late
  <2>2. link' = rest /\ call' = [call EXCEPT ![f.call].stage = "done"]
    BY <1>3, <1>5, <1>10 DEF LinkTakes
  <2>3. call' \in [Calls -> CallShape]
        /\ \A d \in Calls : /\ call'[d].link = call[d].link /\ call'[d].attempt = call[d].attempt
                            /\ call'[d].stage = IF d = f.call THEN "done" ELSE call[d].stage
    <3>1. "done" \in CallStages  BY DEF CallStages
    <3> QED  BY <1>2, <2>1, <2>2, <3>1, MoveFacts
  <2>4. Parts'  BY <1>2, <1>7, <2>3 DEF Parts
  <2>5. \A c \in Calls : call'[c].stage = "sent" => link'[call[c].link].stage = link[call[c].link].stage
    BY <1>8, <2>2, <2>3 DEF RelayInv, Dialing, Parts, CallShape
  <2>6. Dialing' /\ Late \subseteq Late'
    BY <1>7, <1>8, <2>1, <2>2, <2>3, <2>4, <2>5, CallsLeave DEF RelayInv
  <2>7. PICK L : L = Late'  OBVIOUS
  <2>8. link' \in LinkEnds(L)  BY <1>1, <1>6, <2>2, <2>6, <2>7, ShapesGrow
  <2> QED  BY <1>7, <2>4, <2>6, <2>7, <2>8, ClientKeeps
<1>11. CASE f.t # "rpc"
  <2>1. /\ link' = DownLink(l) /\ call' = CallsFailedBy(l)
    BY <1>3, <1>11 DEF LinkTakes
  <2>2. call' \in [Calls -> CallShape]
        /\ \A c \in Calls : /\ call'[c].link = call[c].link /\ call'[c].attempt = call[c].attempt
                            /\ call'[c].stage = IF call[c].stage = "sent" /\ call[c].link = l THEN "failing"
                                                ELSE call[c].stage
    BY <1>2, <2>1, CallsFailedFacts
  <2>3. link' = IF l # 0 THEN DownLink(l) ELSE link  BY <2>1, Numbers
  <2>4. \A c \in Calls : call[c].stage = "sent" => c \in Late  BY DEF Late
  <2> QED  BY <1>7, <2>1, <2>2, <2>3, <2>4, DropKeeps
<1> QED  BY <1>9, <1>10, <1>11

LEMMA CutLinkKeeps ==
  ASSUME RelayInv, NEW l \in Links, CutLink(l)
  PROVE  RelayInv'
<1>1. PICK L : L = Late  OBVIOUS
<1>2. Sockets(L) /\ Parts  BY <1>1, SocketsBefore DEF RelayInv
<1>3. /\ link' = [link EXCEPT ![l].cut = TRUE, ![l].up = <<>>, ![l].down = <<>>]
      /\ UNCHANGED <<room, session, call, cache, dialer>>
  BY DEF CutLink, linkOnly, cacheVars
<1>4. /\ link' \in [Links -> LinkShape(L)]
      /\ \A x \in Links : /\ link'[x].stage = link[x].stage /\ link'[x].probed = link[x].probed
                          /\ link'[x].up = IF x = l THEN <<>> ELSE link[x].up
  <2>1. <<>> \in Seq(ToRelay(L)) /\ <<>> \in Seq(ToClient(L))  OBVIOUS
  <2>2. PICK w : w = link[l]  OBVIOUS
  <2>3. PICK v : v = [w EXCEPT !.cut = TRUE, !.up = <<>>, !.down = <<>>]  OBVIOUS
  <2>4. w \in LinkShape(L) /\ link \in [Links -> LinkShape(L)]  BY <1>2, <2>2 DEF Sockets, LinkEnds
  <2>5. v \in LinkShape(L) /\ v.stage = w.stage /\ v.probed = w.probed /\ v.up = <<>>
    BY <2>1, <2>3, <2>4 DEF LinkShape
  <2>6. link' = [link EXCEPT ![l] = v]  BY <1>3, <2>2, <2>3, <2>4
  <2> QED  BY <2>2, <2>4, <2>5, <2>6
<1>5. link' \in LinkEnds(L)  BY <1>2, <1>4 DEF Sockets, LinkEnds
<1>6. Parts' /\ Late' = Late  BY <1>2, <1>3 DEF Parts, Late
<1>7. \A c \in Calls : call'[c].stage = "sent" => link'[call[c].link].stage = link[call[c].link].stage
  BY <1>3, <1>4 DEF RelayInv, Dialing, Parts, CallShape
<1>8. Dialing'  BY <1>3, <1>4, <1>6, <1>7, CallsLeave DEF RelayInv
<1> QED  BY <1>1, <1>3, <1>5, <1>6, <1>8, ClientKeeps

LEMMA AskKeeps ==
  ASSUME RelayInv, NEW c \in Calls, Ask(c)
  PROVE  RelayInv'
<1>1. PICK L : L = Late'  OBVIOUS
<1>2. Parts /\ call \in [Calls -> CallShape] /\ Dialing  BY DEF RelayInv, Parts
<1>3. /\ call' = [call EXCEPT ![c].stage = "asked"] /\ call[c].stage = "idle"
      /\ UNCHANGED <<room, session, link, cache, dialer>>
  BY DEF Ask, At, Move, linkOnly, cacheVars
<1>4. call' \in [Calls -> CallShape]
      /\ \A d \in Calls : /\ call'[d].link = call[d].link /\ call'[d].attempt = call[d].attempt
                          /\ call'[d].stage = IF d = c THEN "asked" ELSE call[d].stage
  <2>1. "asked" \in CallStages  BY DEF CallStages
  <2> QED  BY <1>2, <1>3, <2>1, MoveFacts
<1>5. Late' = Late
  <2>1. \A d \in Calls : call'[d].stage \in {"sent", "failing", "failed", "done"}
                           <=> call[d].stage \in {"sent", "failing", "failed", "done"}
    BY <1>3, <1>4
  <2> QED  BY <2>1 DEF Late
<1>6. Parts'  BY <1>2, <1>3, <1>4 DEF Parts
<1>7. Dialing'  BY <1>2, <1>3, <1>4 DEF Dialing, Parts
<1>8. link' \in LinkEnds(L)
  <2>1. Sockets(L)  BY <1>1, <1>5, SocketsBefore DEF RelayInv
  <2> QED  BY <1>3, <2>1 DEF Sockets
<1> QED  BY <1>1, <1>3, <1>5, <1>6, <1>7, <1>8, ClientKeeps

LEMMA GetLinkKeeps ==
  ASSUME RelayInv, NEW c \in Calls, GetLink(c)
  PROVE  RelayInv'
<1>1. PICK L : L = Late'  OBVIOUS
<1>2. Parts /\ call \in [Calls -> CallShape] /\ Dialing  BY DEF RelayInv, Parts
<1>3. call[c].stage = "asked" /\ UNCHANGED <<room, session, link>>
  BY DEF GetLink, At, linkOnly
<1>4. CASE Up(cache) /\ call' = [call EXCEPT ![c].stage = "holding", ![c].link = cache] /\ UNCHANGED cacheVars
  <2>1. cache \in Links /\ link[cache].probed  BY <1>2, <1>4 DEF Up, Dialing, Parts
  <2>2. /\ call' \in [Calls -> CallShape] /\ UNCHANGED <<cache, dialer>>
        /\ \A d \in Calls : IF d = c THEN call'[d].stage = "holding" /\ call'[d].link = cache
                            ELSE call'[d] = call[d]
    BY <1>2, <1>4, <2>1 DEF CallShape, CallStages, cacheVars
  <2>3. Late' = Late
    <3>1. \A d \in Calls : call'[d].stage \in {"sent", "failing", "failed", "done"}
                             <=> call[d].stage \in {"sent", "failing", "failed", "done"}
      BY <1>3, <2>2
    <3> QED  BY <3>1 DEF Late
  <2>4. Parts'  BY <1>2, <1>3, <2>2 DEF Parts
  <2>5. Dialing'  BY <1>2, <1>3, <2>1, <2>2, Numbers DEF Dialing, Parts
  <2>6. link' \in LinkEnds(L)
    <3>1. Sockets(L)  BY <1>1, <2>3, SocketsBefore DEF RelayInv
    <3> QED  BY <1>3, <3>1 DEF Sockets
  <2> QED  BY <1>1, <1>3, <2>3, <2>4, <2>5, <2>6, ClientKeeps
<1>5. CASE /\ ~ Up(cache) /\ dialer = NoCall /\ cache' = 0
           /\ Move(c, IF cooling THEN "failed" ELSE "dialing")
           /\ dialer' = IF cooling THEN NoCall ELSE c
  <2>1. PICK stage \in {"failed", "dialing"} : stage = IF cooling THEN "failed" ELSE "dialing"  OBVIOUS
  <2>2. call' \in [Calls -> CallShape]
        /\ \A d \in Calls : /\ call'[d].link = call[d].link /\ call'[d].attempt = call[d].attempt
                            /\ call'[d].stage = IF d = c THEN stage ELSE call[d].stage
    <3>1. stage \in CallStages  BY DEF CallStages
    <3>2. call' = [call EXCEPT ![c].stage = stage]  BY <1>5, <2>1 DEF Move
    <3> QED  BY <1>2, <3>1, <3>2, MoveFacts
  <2>3. Late \subseteq Late'
    <3>1. \A d \in Calls : call[d].stage \in {"sent", "failing", "failed", "done"}
                             => call'[d].stage \in {"sent", "failing", "failed", "done"}
      BY <1>3, <2>2
    <3> QED  BY <3>1 DEF Late
  <2>4. Parts'  BY <1>2, <1>3, <1>5, <2>2 DEF Parts
  <2>5. call[c].link = 0 /\ call[c].attempt = 0 /\ \A d \in Calls : call[d].stage # "dialing"
    BY <1>2, <1>3, <1>5, DeviceRelayAssumption DEF Dialing, Parts
  <2>6. (stage = "dialing" /\ dialer' = c) \/ (stage = "failed" /\ dialer' = NoCall)
    BY <1>5, <2>1
  <2>7. Dialing'
    BY <1>2, <1>3, <1>5, <2>2, <2>5, <2>6, DeviceRelayAssumption DEF Dialing, Parts
  <2>8. link' \in LinkEnds(L)
    <3>1. Sockets(L)  BY <1>1, <2>3, SocketsBefore DEF RelayInv
    <3> QED  BY <1>3, <3>1 DEF Sockets
  <2> QED  BY <1>1, <1>3, <2>3, <2>4, <2>7, <2>8, ClientKeeps
<1> QED  BY <1>4, <1>5 DEF GetLink

LEMMA ConnectedKeeps ==
  ASSUME RelayInv, NEW c \in Calls, Connected(c)
  PROVE  RelayInv'
<1>1. PICK L : L = Late'  OBVIOUS
<1>2. Parts /\ call \in [Calls -> CallShape] /\ Dialing  BY DEF RelayInv, Parts
<1>3. /\ call[c].stage = "dialing" /\ call[c].link # 0 /\ link[call[c].link].probed
      /\ call' = [call EXCEPT ![c].stage = "holding"]
      /\ cache' = call[c].link /\ dialer' = NoCall /\ UNCHANGED <<room, session, link>>
  BY DEF Connected, At, Move, linkOnly
<1>4. call' \in [Calls -> CallShape]
      /\ \A d \in Calls : /\ call'[d].link = call[d].link /\ call'[d].attempt = call[d].attempt
                          /\ call'[d].stage = IF d = c THEN "holding" ELSE call[d].stage
  <2>1. "holding" \in CallStages  BY DEF CallStages
  <2> QED  BY <1>2, <1>3, <2>1, MoveFacts
<1>5. Late' = Late
  <2>1. \A d \in Calls : call'[d].stage \in {"sent", "failing", "failed", "done"}
                           <=> call[d].stage \in {"sent", "failing", "failed", "done"}
    BY <1>3, <1>4
  <2> QED  BY <2>1 DEF Late
<1>6. Parts'  BY <1>2, <1>3, <1>4 DEF Parts, CallShape
<1>7. \A d \in Calls : call[d].stage = "dialing" => d = c  BY <1>2, <1>3 DEF Dialing
<1>8. Dialing'  BY <1>2, <1>3, <1>4, <1>7 DEF Dialing, Parts
<1>9. link' \in LinkEnds(L)
  <2>1. Sockets(L)  BY <1>1, <1>5, SocketsBefore DEF RelayInv
  <2> QED  BY <1>3, <2>1 DEF Sockets
<1> QED  BY <1>1, <1>3, <1>5, <1>6, <1>8, <1>9, ClientKeeps

LEMMA DialFailsKeeps ==
  ASSUME RelayInv, NEW c \in Calls, DialFails(c)
  PROVE  RelayInv'
<1>0. PICK last \in BOOLEAN : last <=> call[c].attempt >= Attempts  OBVIOUS
<1>1. PICK L : L = Late'  OBVIOUS
<1>2. Parts /\ call \in [Calls -> CallShape] /\ Dialing  BY DEF RelayInv, Parts
<1>3. PICK l : l = call[c].link  OBVIOUS
<1>4. /\ call[c].stage = "dialing" /\ l # 0 /\ ~ link[l].probed
      /\ link' = IF Up(l) THEN DownLink(l) ELSE link
      /\ call' = [call EXCEPT ![c].link = 0, ![c].stage = IF last THEN "failed" ELSE @]
      /\ dialer' = IF last THEN NoCall ELSE dialer
      /\ UNCHANGED <<room, session, cache>>
  BY <1>3, <1>0 DEF DialFails, At, linkOnly
<1>5. l \in Links  BY <1>2, <1>3, <1>4 DEF CallShape
<1>6. /\ call' \in [Calls -> CallShape]
      /\ \A d \in Calls : IF d = c
                          THEN call'[d].link = 0 /\ call'[d].attempt = call[d].attempt
                               /\ call'[d].stage = IF last THEN "failed" ELSE "dialing"
                          ELSE call'[d] = call[d]
  BY <1>2, <1>4 DEF CallShape, CallStages
<1>7. Late \subseteq Late'
  <2>1. \A d \in Calls : call[d].stage \in {"sent", "failing", "failed", "done"}
                           => call'[d].stage \in {"sent", "failing", "failed", "done"}
    BY <1>4, <1>6
  <2> QED  BY <2>1 DEF Late
<1>8. Sockets(L)  BY <1>1, <1>7, SocketsBefore DEF RelayInv
<1>9. /\ link' \in LinkEnds(L)
      /\ \A x \in Links : /\ link'[x].probed = link[x].probed
                          /\ x # l => link'[x].stage = link[x].stage
  BY <1>4, <1>5, <1>8, DownLinkFacts DEF Sockets
<1>10. Parts'  BY <1>2, <1>4, <1>6, DeviceRelayAssumption DEF Parts
<1>11. dialer = c /\ \A d \in Calls : call[d].stage = "dialing" => d = c
  BY <1>2, <1>4 DEF Dialing
<1>12. \A d \in Calls : call[d].stage = "sent" => call[d].link # l
  BY <1>2, <1>4 DEF Dialing
<1>13. ~ last => call[c].attempt < Attempts
  <2>1. call[c].attempt \in Nat /\ Attempts \in Nat  BY <1>2, DeviceRelayAssumption DEF CallShape
  <2>2. ~ last => ~ (call[c].attempt >= Attempts)  BY <1>0, Zenon
  <2> QED  BY <2>1, <2>2
<1>14. \A d \in Calls : call[d].link \in {0} \cup Links  BY <1>2 DEF CallShape
<1>15. Dialing'
  <2>1. (last /\ dialer' = NoCall) \/ (~ last /\ dialer' = c)  BY <1>4, <1>11
  <2>2. cache' # 0 => link'[cache'].probed
    BY <1>2, <1>4, <1>9 DEF Dialing, Parts
  <2>3. dialer' # NoCall => call'[dialer'].stage = "dialing"  BY <1>6, <2>1
  <2>4. ASSUME NEW d \in Calls, d # c
        PROVE  /\ call'[d].stage # "dialing"
               /\ call'[d].stage \in {"idle", "asked"} => call'[d].link = 0 /\ call'[d].attempt = 0
               /\ call'[d].stage \in {"holding", "sent"} => call'[d].link # 0 /\ link'[call'[d].link].probed
               /\ call'[d].stage = "sent" => link'[call'[d].link].stage = "open"
    BY <1>2, <1>6, <1>9, <1>11, <1>12, <1>14, <2>4 DEF Dialing
  <2>5. call'[c].stage = "dialing" => dialer' = c /\ call'[c].attempt < Attempts
    BY <1>6, <1>13, <2>1
  <2>6. call'[c].attempt \in Nat  BY <1>6 DEF CallShape
  <2> QED  BY <1>6, <2>2, <2>3, <2>4, <2>5, <2>6, DeviceRelayAssumption DEF Dialing
<1> QED  BY <1>1, <1>4, <1>7, <1>9, <1>10, <1>15, ClientKeeps

LEMMA PutKeeps ==
  ASSUME RelayInv, NEW c \in Calls, Put(c)
  PROVE  RelayInv'
<1>1. PICK L : L = Late'  OBVIOUS
<1>2. Parts /\ call \in [Calls -> CallShape] /\ Dialing  BY DEF RelayInv, Parts
<1>3. PICK l : l = call[c].link  OBVIOUS
<1>4. /\ call[c].stage = "holding" /\ UNCHANGED <<room, session, cache, dialer>>
      /\ \/ /\ Up(l) /\ call' = [call EXCEPT ![c].stage = "sent"]
            /\ \/ link' = [link EXCEPT ![l].up = Append(@, Rpc(l, c))]
               \/ link' = link
         \/ call' = [call EXCEPT ![c].stage = "failing"] /\ link' = link
  BY <1>3 DEF Put, At, Move, linkOnly, cacheVars
<1>5. l \in Links /\ link[l].probed  BY <1>2, <1>3, <1>4 DEF Dialing, CallShape
<1>6. PICK stage \in {"sent", "failing"} :
        call' = [call EXCEPT ![c].stage = stage] /\ (stage = "sent" => link[l].stage = "open")
  BY <1>4 DEF Up
<1>7. call' \in [Calls -> CallShape]
      /\ \A d \in Calls : /\ call'[d].link = call[d].link /\ call'[d].attempt = call[d].attempt
                          /\ call'[d].stage = IF d = c THEN stage ELSE call[d].stage
  <2>1. stage \in CallStages  BY DEF CallStages
  <2> QED  BY <1>2, <1>6, <2>1, MoveFacts
<1>8. Late \subseteq Late' /\ c \in Late'
  <2>1. \A d \in Calls : call[d].stage \in {"sent", "failing", "failed", "done"}
                           => call'[d].stage \in {"sent", "failing", "failed", "done"}
    BY <1>4, <1>7
  <2>2. call'[c].stage \in {"sent", "failing", "failed", "done"}  BY <1>7
  <2> QED  BY <2>1, <2>2 DEF Late
<1>9. Sockets(L)  BY <1>1, <1>8, SocketsBefore DEF RelayInv
<1>10. link' \in LinkEnds(L) /\ LinksAlike(link', link)
  <2>1. CASE link' = [link EXCEPT ![l].up = Append(@, Rpc(l, c))]
    <3>1. Rpc(l, c) \in ToRelay(L) /\ Rpc(l, c).link = l
      BY <1>1, <1>5, <1>8, FrameFacts
    <3>2. [link EXCEPT ![l].up = Append(@, Rpc(l, c))] \in LinkEnds(L)
      BY <1>5, <1>9, <3>1, LinkEdits, Zenon DEF Sockets
    <3>3. LinksAlike([link EXCEPT ![l].up = Append(@, Rpc(l, c))], link)
      BY <1>5, <1>9, LinkEditsAlike, Zenon DEF Sockets
    <3> QED  BY <2>1, <3>2, <3>3
  <2>2. CASE link' = link
    BY <1>9, <2>2, AlikeAndAlike DEF Sockets
  <2> QED  BY <1>4, <2>1, <2>2
<1>11. Parts'  BY <1>2, <1>4, <1>7 DEF Parts
<1>12. \A x \in Links : link'[x].stage = link[x].stage /\ link'[x].probed = link[x].probed
  BY <1>10 DEF LinksAlike
<1>13. \A d \in Calls : call[d].link \in {0} \cup Links  BY <1>2 DEF CallShape
<1>14. Dialing'
  <2>1. dialer # NoCall => dialer # c /\ dialer \in Calls  BY <1>2, <1>4 DEF Dialing, Parts
  <2>2. cache' # 0 => link'[cache'].probed  BY <1>2, <1>4, <1>12 DEF Dialing, Parts
  <2>3. dialer' # NoCall => call'[dialer'].stage = "dialing"
    BY <1>2, <1>4, <1>7, <2>1 DEF Dialing
  <2>4. ASSUME NEW d \in Calls
        PROVE  /\ call'[d].stage = "dialing" =>
                    /\ dialer' = d /\ call'[d].attempt <= Attempts
                    /\ call'[d].link = 0 => call'[d].attempt < Attempts
               /\ call'[d].stage \in {"idle", "asked"} => call'[d].link = 0 /\ call'[d].attempt = 0
               /\ call'[d].stage \in {"holding", "sent"} => call'[d].link # 0 /\ link'[call'[d].link].probed
               /\ call'[d].stage = "sent" => link'[call'[d].link].stage = "open"
    <3>1. CASE d = c  BY <1>3, <1>5, <1>6, <1>7, <1>12, <3>1, Numbers
    <3>2. CASE d # c  BY <1>2, <1>4, <1>7, <1>12, <1>13, <3>2 DEF Dialing
    <3> QED  BY <3>1, <3>2
  <2> QED  BY <2>2, <2>3, <2>4 DEF Dialing
<1> QED  BY <1>1, <1>4, <1>8, <1>10, <1>11, <1>14, ClientKeeps

\* A number is used again for a new link when nothing refers to the old one.
LEMMA DialKeeps ==
  ASSUME RelayInv, NEW c \in Calls, Dial(c)
  PROVE  RelayInv'
<1>1. PICK L : L = Late  OBVIOUS
<1>2. Sockets(L) /\ Parts /\ call \in [Calls -> CallShape] /\ Dialing /\ Hosting /\ Queueing /\ Told
  BY <1>1, SocketsBefore DEF RelayInv, Parts
<1>3. PICK l \in Links :
        /\ Forgotten(l)
        /\ link' = [link EXCEPT ![l] = [NoLink EXCEPT !.stage = "open", !.up = <<Rpc(l, Probe)>>]]
        /\ room' = [room EXCEPT !.clients = @ \cup {l}]
        /\ call' = [call EXCEPT ![c].link = l, ![c].attempt = @ + 1]
  BY DEF Dial
<1>4. call[c].stage = "dialing" /\ call[c].link = 0 /\ UNCHANGED <<session, cache, dialer>>
  BY DEF Dial, At, cacheVars
<1>5. PICK v : v = [NoLink EXCEPT !.stage = "open", !.up = <<Rpc(l, Probe)>>]  OBVIOUS
<1>6. v \in LinkShape(L) /\ \A i \in 1 .. Len(v.up) : v.up[i].t = "rpc" => v.up[i].link = l
  <2>1. Rpc(l, Probe) \in ToRelay(L) /\ Rpc(l, Probe).link = l  BY FrameFacts
  <2>2. <<Rpc(l, Probe)>> \in Seq(ToRelay(L)) /\ <<>> \in Seq(ToClient(L))  BY <2>1
  <2>3. v.up = <<Rpc(l, Probe)>>  BY <1>5 DEF NoLink
  <2>4. v \in LinkShape(L)  BY <1>5, <2>2 DEF NoLink, LinkShape
  <2> QED  BY <2>1, <2>3, <2>4
<1>7. /\ link' \in LinkEnds(L)
      /\ \A x \in Links : x # l => link'[x] = link[x]
  <2>1. link' \in [Links -> LinkShape(L)] /\ \A x \in Links : link'[x] = IF x = l THEN v ELSE link[x]
    BY <1>2, <1>3, <1>5, <1>6 DEF Sockets, LinkEnds
  <2> QED  BY <1>2, <1>6, <2>1 DEF Sockets, LinkEnds
<1>8. /\ call' \in [Calls -> CallShape]
      /\ \A d \in Calls : IF d = c
                          THEN /\ call'[d].link = l /\ call'[d].attempt = call[d].attempt + 1
                               /\ call'[d].stage = "dialing"
                          ELSE call'[d] = call[d]
  BY <1>2, <1>3, <1>4 DEF CallShape, CallStages
<1>9. Late' = Late
  <2>1. \A d \in Calls : call'[d].stage \in {"sent", "failing", "failed", "done"}
                           <=> call[d].stage \in {"sent", "failing", "failed", "done"}
    BY <1>4, <1>8
  <2> QED  BY <2>1 DEF Late
<1>10. Sockets(Late)'
  <2>1. Sockets(L)'  BY <1>2, <1>4, <1>7 DEF Sockets
  <2> QED  BY <1>1, <1>9, <2>1, SocketsAfter
<1>11. room' \in RoomShape /\ room'.host = room.host /\ room'.nudges = room.nudges
       /\ room'.clients = room.clients \cup {l}
  BY <1>2, <1>3 DEF Parts, RoomShape
<1>12. Parts'  BY <1>2, <1>4, <1>8, <1>11 DEF Parts
<1>13. Hosting' /\ Queueing'  BY <1>2, <1>4, <1>11 DEF Hosting, Queueing, Reaches
<1>14. Told'  BY <1>2, <1>4, <1>11 DEF Told, ToldOf, ToldAbout
<1>15. cache # l /\ \A d \in Calls : call[d].link = l => call[d].stage \in {"done", "failed"}
  BY <1>3 DEF Forgotten
<1>16. \A d \in Calls : call[d].link \in {0} \cup Links /\ call[d].attempt \in Nat  BY <1>2 DEF CallShape
<1>17. Dialing'
  <2>1. cache' # 0 => link'[cache'].probed  BY <1>2, <1>4, <1>7, <1>15 DEF Dialing, Parts
  <2>2. dialer' # NoCall => call'[dialer'].stage = "dialing"  BY <1>2, <1>4, <1>8 DEF Dialing, Parts
  <2>3. dialer' = c /\ call'[c].attempt <= Attempts
    BY <1>2, <1>4, <1>8, <1>16, DeviceRelayAssumption DEF Dialing
  <2>4. ASSUME NEW d \in Calls, d # c
        PROVE  /\ call'[d].stage # "dialing"
               /\ call'[d].stage \in {"idle", "asked"} => call'[d].link = 0 /\ call'[d].attempt = 0
               /\ call'[d].stage \in {"holding", "sent"} => call'[d].link # 0 /\ link'[call'[d].link].probed
               /\ call'[d].stage = "sent" => link'[call'[d].link].stage = "open"
    <3>1. call'[d] = call[d]  BY <1>8, <2>4
    <3>2. call[d].stage # "dialing"  BY <1>2, <1>4, <2>4 DEF Dialing
    <3>3. call[d].stage \in {"holding", "sent"} => link'[call[d].link] = link[call[d].link]
      BY <1>2, <1>7, <1>15, <1>16 DEF Dialing
    <3> QED  BY <1>2, <3>1, <3>2, <3>3 DEF Dialing
  <2>5. call'[c].stage = "dialing" /\ call'[c].link # 0  BY <1>8, Numbers
  <2> QED  BY <2>1, <2>2, <2>3, <2>4, <2>5 DEF Dialing
<1> QED  BY <1>10, <1>12, <1>13, <1>14, <1>17 DEF RelayInv

-----------------------------------------------------------------------------
(* The theorems *)

LEMMA RelayInit == Init => RelayInv
<1> SUFFICES ASSUME Init PROVE RelayInv  OBVIOUS
<1>1. link \in LinkEnds(Late)
  <2>1. <<>> \in Seq(ToRelay(Late)) /\ <<>> \in Seq(ToClient(Late))  OBVIOUS
  <2> QED  BY <2>1 DEF Init, NoLink, LinkEnds, LinkShape
<1>2. session \in [Sessions -> SessionShape(Late)]
  <2>1. <<>> \in Seq(ToRelay(Late)) /\ <<>> \in Seq(ToHost(Late))  OBVIOUS
  <2> QED  BY <2>1 DEF Init, NoSession, SessionShape
<1>3. Parts
  <2>1. <<>> \in Seq(Chats)  OBVIOUS
  <2> QED  BY <2>1 DEF Init, Parts, RoomShape, EmptyRoom, CallShape, CallStages
<1>4. Hosting /\ Queueing /\ Told
  BY DeviceRelayAssumption DEF Init, Hosting, Queueing, Told, NoSession, EmptyRoom, Sessions
<1>5. Dialing  BY DEF Init, Dialing
<1> QED  BY <1>1, <1>2, <1>3, <1>4, <1>5 DEF RelayInv, Sockets

LEMMA RelayStep == RelayInv /\ [Next]_vars => RelayInv'
<1> SUFFICES ASSUME RelayInv, [Next]_vars PROVE RelayInv'  OBVIOUS
<1>1. ASSUME NEW l \in Links, RouteUp(l) \/ LinkTakes(l) \/ LinkLease(l) \/ CutLink(l) \/ CloseLink(l)
      PROVE  RelayInv'
  BY <1>1, RouteUpKeeps, LinkTakesKeeps, CutLinkKeeps, DropsKeep
<1>2. ASSUME NEW s \in Sessions,
             RouteDown(s) \/ HostJoins(s) \/ HostTakes(s) \/ Answer(s) \/ HostLease(s) \/ CutSession(s) \/ CloseSession(s)
      PROVE  RelayInv'
  BY <1>2, RouteDownKeeps, HostJoinsKeeps, HostTakesKeeps, AnswerKeeps, SessionFaultsKeep
<1>3. ASSUME NEW c \in Calls, Ask(c) \/ ClientCall(c) PROVE RelayInv'
  BY <1>3, AskKeeps, GetLinkKeeps, DialKeeps, ConnectedKeeps, DialFailsKeeps, PutKeeps, DropsKeep DEF ClientCall
<1>4. ASSUME NEW k \in Chats, Nudge(k) PROVE RelayInv'
  BY <1>4, NudgeKeeps
<1>5. CASE ReadEnd \/ NoticeCut  BY <1>5, RelayEndsKeep
<1>6. CASE Evict \/ CooldownOver \/ Wake  BY <1>6, DropsKeep
<1>7. CASE Restart  BY <1>7, RestartKeeps
<1>8. CASE UNCHANGED vars
  <2>1. UNCHANGED <<room, session, link, call, cache, dialer>>  BY <1>8 DEF vars, cacheVars
  <2>2. PICK L : L = Late'  OBVIOUS
  <2>3. Late' = Late  BY <2>1 DEF Late
  <2>4. Sockets(L)  BY <2>2, <2>3, SocketsBefore DEF RelayInv
  <2>5. link' \in LinkEnds(L)  BY <2>1, <2>4 DEF Sockets
  <2>6. Parts' /\ Dialing'  BY <2>1 DEF RelayInv, Parts, Dialing
  <2> QED  BY <2>1, <2>2, <2>3, <2>5, <2>6, ClientKeeps
<1> QED  BY <1>1, <1>2, <1>3, <1>4, <1>5, <1>6, <1>7, <1>8 DEF Next

\* What the relay, the host and the controlling device must agree on holds, whatever is
\* cut, closed, superseded or restarted (device_relay.rs, device_room.rs).
THEOREM RelaySafe == Spec => []RelayInv
BY RelayInit, RelayStep, PTL DEF Spec

\* One live socket at a time for the host, virtual connections only on it, one call at a
\* time that dials, and no call waiting on a link that is down.
THEOREM TypeCorrect == Spec => []TypeOK
<1>1. RelayInv => TypeOK
  <2> SUFFICES ASSUME RelayInv PROVE TypeOK  OBVIOUS
  <2>1. Cardinality({s \in Sessions : Joined(s)}) <= 1
    <3>1. ASSUME NEW s \in Sessions, NEW t \in Sessions, Joined(s), Joined(t), s < t PROVE FALSE
      <4>1. s \in 1 .. t - 1  BY <3>1, DeviceRelayAssumption DEF Sessions
      <4> QED  BY <3>1, <4>1 DEF RelayInv, Hosting, Joined
    <3>2. \A s, t \in Sessions : Joined(s) /\ Joined(t) => s = t
      <4> TAKE s, t \in Sessions
      <4>1. s < t \/ t < s \/ s = t  BY DeviceRelayAssumption DEF Sessions
      <4> QED  BY <3>1, <4>1
    <3>3. PICK live : live = {s \in Sessions : Joined(s)}  OBVIOUS
    <3>4. live = {} \/ \E s \in Sessions : live = {s}  BY <3>2, <3>3
    <3>5. Cardinality(live) = 0 \/ Cardinality(live) = 1  BY <3>4, FS_EmptySet, FS_Singleton
    <3> QED  BY <3>3, <3>5
  <2>2. \A c \in Calls : call[c].link \in {0} \cup Links  BY DEF RelayInv, Parts, CallShape
  <2> QED  BY <2>1, <2>2 DEF RelayInv, TypeOK, Parts, RoomShape, Hosting, Queueing, Dialing, Joined, At, Up
<1> QED  BY <1>1, RelaySafe, PTL

\* The host stops working for a client that left: every virtual connection is of a client
\* in the room, or the word that it left is on its way behind its last frame.
THEOREM ConnsAreAlwaysReaped == Spec => []ConnsAreReaped
<1>1. RelayInv => ConnsAreReaped
  <2> SUFFICES ASSUME RelayInv, NEW s \in Sessions, NEW l \in session[s].conns,
                      room.host = s, ~ session[s].cut, l \notin room.clients
               PROVE  Contains(session[s].down, ClientGone(l))
    BY DEF ConnsAreReaped
  <2>1. GoneBehind(session[s].down, 0, l)
    BY Numbers DEF RelayInv, Told, ToldOf, ToldAbout
  <2> QED  BY <2>1 DEF GoneBehind, Contains
<1> QED  BY <1>1, RelaySafe, PTL

===============================================================================
