-------------------------- MODULE SessionRunsProofs --------------------------
(***************************************************************************)
(* Proofs about SessionRuns for any number of messages, runs, questions    *)
(* and stops, any mailbox and any agents: its types; that an agent nobody  *)
(* has stopped is the one the map holds, as long as no two dispatches were *)
(* past their look at the map together; that every message taken for the   *)
(* chat is settled or still answered for; and that the status shown is     *)
(* true of the run it was written for.                                     *)
(***************************************************************************)
EXTENDS SessionRuns, SequenceLemmas, FiniteSetTheorems, TLAPS

Sequence(s) == \E S : s \in Seq(S)

\* A handle of the right shape; ledgers, questions and messages may be anything.
Handle(x) ==
  /\ {"stage", "cancelled", "interrupted", "mailbox", "orphans", "final"} \subseteq DOMAIN x
  /\ x.stage \in Stages
  /\ Sequence(x.mailbox) /\ Len(x.mailbox) <= MailboxSize
  /\ x.orphans # <<>> => x.stage \in {"claimed", "leaving"}
  /\ x.interrupted => x.cancelled
  /\ x.final \in {"idle", "errored"}

Handles == DOMAIN run = Runs /\ \A r \in Runs : Handle(run[r])

CallShape(x) ==
  /\ {"stage", "msg", "target", "retry"} \subseteq DOMAIN x
  /\ x.stage \in {"sent", "pushed", "confirmed"} => x.target \in Runs
  /\ x.stage = "idle" => x.msg = 0

Calls == DOMAIN caller = Callers /\ \A c \in Callers : CallShape(caller[c])

Registrable == {"starting", "turn", "parked", "ended", "claimed"}

Registered == current \in 0 .. MaxRuns /\ (current # 0 => run[current].stage \in Registrable)

Fates == {"none", "ran", "failed", "refused", "stopped", "evaporated", "misfiled"}

Shown ==
  /\ status \in {"idle", "working", "awaiting", "errored"}
  /\ \A m \in Messages : fate[m] \in Fates

Types == Handles /\ Calls /\ Registered /\ Shown

LEMMA SequenceFacts ==
  ASSUME NEW s, Sequence(s), NEW e
  PROVE  /\ Len(s) \in Nat
         /\ Sequence(Append(s, e)) /\ Len(Append(s, e)) = Len(s) + 1
         /\ s # <<>> => Sequence(Tail(s)) /\ Len(Tail(s)) = Len(s) - 1
<1>1. PICK S : s \in Seq(S)  BY DEF Sequence
<1>2. Append(s, e) \in Seq(S \cup {e}) /\ Len(Append(s, e)) = Len(s) + 1
  <2>1. s \in Seq(S \cup {e})  BY <1>1
  <2> QED  BY <2>1
<1>3. s # <<>> => Tail(s) \in Seq(S) /\ Len(Tail(s)) = Len(s) - 1  BY <1>1
<1> QED  BY <1>1, <1>2, <1>3 DEF Sequence

LEMMA EmptySequence == Sequence(<<>>) /\ Len(<<>>) = 0
<1>1. <<>> \in Seq({})  OBVIOUS
<1> QED  BY <1>1 DEF Sequence

\* A run put in the map, and what is left of one.
LEMMA FreshHandle ==
  ASSUME NEW m, NEW steerable, NEW retry
  PROVE  /\ Handle(NewRun(m, steerable, retry))
         /\ NewRun(m, steerable, retry).stage = "starting"
BY EmptySequence, SessionRunsAssumption DEF Handle, NewRun, Stages

LEMMA NoHandle == Handle(NoRun) /\ NoRun.stage = "none"
BY EmptySequence, SessionRunsAssumption DEF Handle, NewRun, NoRun, Stages

LEMMA GoneHandle ==
  ASSUME NEW r
  PROVE  Handle(Gone(r)) /\ Gone(r).stage = "gone" /\ ~ Gone(r).cancelled
BY EmptySequence, SessionRunsAssumption DEF Handle, NewRun, NoRun, Gone, Stages

LEMMA TypesInit == Init => Types
<1> SUFFICES ASSUME Init PROVE Types  OBVIOUS
<1>1. Handles  BY NoHandle DEF Init, Handles
<1>2. Calls
  BY DEF Init, Calls, CallShape, NoCall
<1>3. Registered /\ Shown  BY SessionRunsAssumption DEF Init, Registered, Shown, Fates
<1> QED  BY <1>1, <1>2, <1>3 DEF Types

\* How an action of a run's task, or of its agent, may change the handles.
Edit(r, stages) ==
  /\ DOMAIN run' = Runs
  /\ \A x \in Runs \ {r} : run'[x] = run[x]
  /\ Handle(run'[r])
  /\ run'[r].stage \in stages

LEMMA EditsAtWork ==
  ASSUME Handles, NEW r \in Runs
  PROVE  /\ Started(r) => Edit(r, {"turn"}) /\ run'[r].cancelled = run[r].cancelled
         /\ Steered(r) => Edit(r, {"turn"}) /\ run'[r].cancelled = run[r].cancelled
         /\ SelfContinues(r) => Edit(r, {"turn"}) /\ run'[r].cancelled = run[r].cancelled
         /\ Quiesce(r) => Edit(r, {"parked"}) /\ run'[r].cancelled = run[r].cancelled
         /\ ObserveCancel(r) => Edit(r, Looping) /\ run'[r].cancelled
         /\ Ask(r) => Edit(r, Looping) /\ run'[r].cancelled = run[r].cancelled
         /\ EngineEvent(r) => Edit(r, Looping) /\ run'[r].cancelled = run[r].cancelled
<1> USE DEF Handles, Edit
<1>0. Handle(run[r])  OBVIOUS
<1>1. ASSUME Started(r) PROVE Edit(r, {"turn"}) /\ run'[r].cancelled = run[r].cancelled
  BY <1>0, <1>1 DEF Started, Stage, Handle, Stages
<1>2. ASSUME Steered(r) PROVE Edit(r, {"turn"}) /\ run'[r].cancelled = run[r].cancelled
  BY <1>0, <1>2, SequenceFacts DEF Steered, Stage, Handle, Stages
<1>3. ASSUME SelfContinues(r) PROVE Edit(r, {"turn"}) /\ run'[r].cancelled = run[r].cancelled
  BY <1>0, <1>3 DEF SelfContinues, Stage, Handle, Stages
<1>4. ASSUME Quiesce(r) PROVE Edit(r, {"parked"}) /\ run'[r].cancelled = run[r].cancelled
  BY <1>0, <1>4 DEF Quiesce, Parked, Stage, Handle, Stages
<1>5. ASSUME ObserveCancel(r) PROVE Edit(r, Looping) /\ run'[r].cancelled
  BY <1>0, <1>5 DEF ObserveCancel, Looping, Stage, Handle, Stages
<1>6. ASSUME Ask(r) PROVE Edit(r, Looping) /\ run'[r].cancelled = run[r].cancelled
  <2>1. PICK q : run' = [run EXCEPT ![r].pending = q, ![r].engine = Append(@, [event |-> "asked", of |-> q])]
    BY <1>6 DEF Ask
  <2> QED  BY <1>0, <1>6, <2>1 DEF Ask, Looping, Stage, Handle, Stages
<1>7. ASSUME EngineEvent(r) PROVE Edit(r, Looping) /\ run'[r].cancelled = run[r].cancelled
  <2>1. run[r].stage \in Looping  BY <1>7 DEF EngineEvent, Stage
  <2>2. \/ run' = [run EXCEPT ![r].engine = Tail(@)]
        \/ run' = [[run EXCEPT ![r].engine = Tail(@)] EXCEPT ![r].pending = NoQuestion]
        \/ run' = [[run EXCEPT ![r].engine = Tail(@)] EXCEPT ![r].unresolved = TRUE]
        \/ run' = [[run EXCEPT ![r].engine = Tail(@)] EXCEPT ![r].unresolved = FALSE]
    BY <1>7 DEF EngineEvent
  <2>3. CASE run' = [run EXCEPT ![r].engine = Tail(@)]
    BY <1>0, <2>1, <2>3 DEF Looping, Handle, Stages
  <2>4. CASE run' = [[run EXCEPT ![r].engine = Tail(@)] EXCEPT ![r].pending = NoQuestion]
    BY <1>0, <2>1, <2>4 DEF Looping, Handle, Stages
  <2>5. CASE run' = [[run EXCEPT ![r].engine = Tail(@)] EXCEPT ![r].unresolved = TRUE]
    BY <1>0, <2>1, <2>5 DEF Looping, Handle, Stages
  <2>6. CASE run' = [[run EXCEPT ![r].engine = Tail(@)] EXCEPT ![r].unresolved = FALSE]
    BY <1>0, <2>1, <2>6 DEF Looping, Handle, Stages
  <2> QED  BY <2>2, <2>3, <2>4, <2>5, <2>6
<1> QED  BY <1>1, <1>2, <1>3, <1>4, <1>5, <1>6, <1>7

Leaving == {"ended", "claimed", "leaving", "gone"}

LEMMA EditsAtEnd ==
  ASSUME Handles, NEW r \in Runs
  PROVE  /\ StartFails(r) => Edit(r, {"leaving"})
         /\ Retry(r) => Edit(r, {"gone"})
         /\ TurnDone(r) => Edit(r, {"parked", "ended"}) /\ run'[r].cancelled = run[r].cancelled
         /\ TurnFails(r) => Edit(r, {"ended"})
         /\ ParkedEnds(r) => Edit(r, {"ended"})
         /\ GraceOver(r) => Edit(r, {"ended"})
         /\ Claim(r) => Edit(r, {"claimed"})
         /\ Leave(r) => Edit(r, {"leaving"})
         /\ Settle(r) => Edit(r, {"gone"})
<1> USE DEF Handles, Edit
<1>0. Handle(run[r])  OBVIOUS
<1>1. ASSUME StartFails(r) PROVE Edit(r, {"leaving"})
  BY <1>0, <1>1 DEF StartFails, Stage, Handle, Stages
<1>2. ASSUME Retry(r) PROVE Edit(r, {"gone"})
  BY <1>0, <1>2, GoneHandle DEF Retry
<1>3. ASSUME TurnDone(r) PROVE Edit(r, {"parked", "ended"}) /\ run'[r].cancelled = run[r].cancelled
  <2>1. run' = Drained(Parked(r), r) \/ run' = Ended(Drained(run, r), r, "idle")
    BY <1>3 DEF TurnDone
  <2>2. run[r].stage \in Looping  BY <1>3 DEF TurnDone, Stage
  <2>3. CASE run' = Drained(Parked(r), r)
    BY <1>0, <2>2, <2>3 DEF Drained, Parked, Looping, Handle, Stages
  <2>4. CASE run' = Ended(Drained(run, r), r, "idle")
    BY <1>0, <2>2, <2>4 DEF Drained, Ended, Looping, Handle, Stages
  <2> QED  BY <2>1, <2>3, <2>4
<1>4. ASSUME TurnFails(r) PROVE Edit(r, {"ended"})
  BY <1>0, <1>4 DEF TurnFails, Drained, Ended, Looping, Stage, Handle, Stages
<1>5. ASSUME ParkedEnds(r) PROVE Edit(r, {"ended"})
  BY <1>0, <1>5 DEF ParkedEnds, Ended, Stage, Handle, Stages
<1>6. ASSUME GraceOver(r) PROVE Edit(r, {"ended"})
  BY <1>0, <1>6 DEF GraceOver, Drained, Ended, Looping, Stage, Handle, Stages
<1>7. ASSUME Claim(r) PROVE Edit(r, {"claimed"})
  BY <1>0, <1>7 DEF Claim, Stage, Handle, Stages
<1>8. ASSUME Leave(r) PROVE Edit(r, {"leaving"})
  BY <1>0, <1>8 DEF Leave, Stage, Handle, Stages
<1>9. ASSUME Settle(r) PROVE Edit(r, {"gone"})
  BY <1>0, <1>9, GoneHandle DEF Settle
<1> QED  BY <1>1, <1>2, <1>3, <1>4, <1>5, <1>6, <1>7, <1>8, <1>9

\* A stop and an answer: the run keeps its stage.
LEMMA EditsFromOutside ==
  ASSUME Handles, NEW r \in Runs
  PROVE  /\ run' = Interrupted(r) => Edit(r, {run[r].stage}) /\ run'[r].cancelled
         /\ current = r /\ Answer => Edit(r, {run[r].stage}) /\ run'[r].cancelled = run[r].cancelled
<1> USE DEF Handles, Edit
<1>0. Handle(run[r])  OBVIOUS
<1>1. ASSUME run' = Interrupted(r) PROVE Edit(r, {run[r].stage}) /\ run'[r].cancelled
  BY <1>0, <1>1 DEF Interrupted, Handle
<1>2. ASSUME current = r, Answer PROVE Edit(r, {run[r].stage}) /\ run'[r].cancelled = run[r].cancelled
  BY <1>0, <1>2 DEF Answer, Handle
<1> QED  BY <1>1, <1>2

\* A send, its ledger entry and its being taken back: the run keeps its stage.
LEMMA EditsBySenders ==
  ASSUME Types, NEW c \in Callers
  PROVE  /\ PushLedger(c) => caller[c].target \in Runs /\ Edit(caller[c].target, {run[caller[c].target].stage})
                             /\ run'[caller[c].target].cancelled = run[caller[c].target].cancelled
         /\ Reclaim(c) => \/ run' = run
                          \/ /\ caller[c].target \in Runs /\ Edit(caller[c].target, {run[caller[c].target].stage})
                             /\ run'[caller[c].target].cancelled = run[caller[c].target].cancelled
         /\ Route(c) => \/ run' = run
                        \/ /\ current \in Runs /\ Edit(current, {run[current].stage})
                           /\ run'[current].cancelled = run[current].cancelled
                           /\ caller' = [caller EXCEPT ![c].stage = "sent", ![c].target = current]
                           /\ UNCHANGED crossed
<1> USE DEF Handles, Edit
<1> DEFINE r == caller[c].target
<1>0. CallShape(caller[c])  BY DEF Types, Calls
<1>1. ASSUME PushLedger(c)
      PROVE  r \in Runs /\ Edit(r, {run[r].stage}) /\ run'[r].cancelled = run[r].cancelled
  <2>1. r \in Runs  BY <1>0, <1>1 DEF PushLedger, CallShape
  <2>2. Handle(run[r])  BY <2>1 DEF Types
  <2>3. run' = [run EXCEPT ![r].ledger = Append(@, caller[c].msg)]  BY <1>1 DEF PushLedger
  <2> HIDE DEF r
  <2> QED  BY <2>1, <2>2, <2>3 DEF Types, Handle
<1>2. ASSUME Reclaim(c), run' # run
      PROVE  r \in Runs /\ Edit(r, {run[r].stage}) /\ run'[r].cancelled = run[r].cancelled
  <2>1. r \in Runs  BY <1>0, <1>2 DEF Reclaim, CallShape
  <2>2. Handle(run[r])  BY <2>1 DEF Types
  <2>3. run' = [run EXCEPT ![r].ledger = RemoveFirst(@, caller[c].msg)]  BY <1>2 DEF Reclaim
  <2> HIDE DEF r
  <2> QED  BY <2>1, <2>2, <2>3 DEF Types, Handle
<1>3. ASSUME Route(c), run' # run
      PROVE  /\ current \in Runs /\ Edit(current, {run[current].stage})
             /\ run'[current].cancelled = run[current].cancelled
             /\ caller' = [caller EXCEPT ![c].stage = "sent", ![c].target = current]
             /\ UNCHANGED crossed
  <2>1. /\ current # 0 /\ Accepts(current)
        /\ run' = [run EXCEPT ![current].mailbox = Append(@, caller[c].msg)]
        /\ caller' = [caller EXCEPT ![c].stage = "sent", ![c].target = current]
        /\ UNCHANGED crossed
    BY <1>3 DEF Route, Proceed
  <2>2. current \in Runs  BY <2>1, SessionRunsAssumption DEF Types, Registered, Runs
  <2>3. Handle(run[current])  BY <2>2 DEF Types
  <2>4. LET box == Append(run[current].mailbox, caller[c].msg)
        IN  Sequence(box) /\ Len(box) <= MailboxSize
    BY <2>1, <2>3, SequenceFacts, SessionRunsAssumption DEF Handle, Accepts
  <2> QED  BY <2>1, <2>2, <2>3, <2>4 DEF Types, Handle
<1> QED  BY <1>1, <1>2, <1>3

\* A fresh run.
LEMMA EditLaunch ==
  ASSUME Types, NEW c \in Callers, Launch(c)
  PROVE  current' \in Runs /\ Edit(current', {"starting"})
<1>1. PICK steerable \in Steering :
        /\ current' \in Runs
        /\ run' = [run EXCEPT ![current'] = NewRun(caller[c].msg, steerable, caller[c].retry)]
  BY DEF Launch
<1> QED  BY <1>1, FreshHandle DEF Edit, Types, Handles

LEMMA HandlesFromEdit ==
  ASSUME Handles, NEW r \in Runs, NEW S, Edit(r, S)
  PROVE  Handles'
BY DEF Handles, Edit

-----------------------------------------------------------------------------
(* What happens to callers *)

\* Only c moves.
Moves(c) ==
  /\ DOMAIN caller' = Callers
  /\ \A d \in Callers \ {c} : caller'[d] = caller[d]
  /\ CallShape(caller'[c])

LEMMA CallsFromMove ==
  ASSUME Calls, NEW c \in Callers, Moves(c)
  PROVE  Calls'
BY DEF Calls, Moves

LEMMA MovesOfCallers ==
  ASSUME Types, NEW c \in Callers
  PROVE  /\ NextOrphan(c) => Moves(c) /\ caller'[c].stage = "route"
         /\ Route(c) => Moves(c)
         /\ PushLedger(c) => Moves(c) /\ caller'[c].stage = "pushed"
         /\ Confirm(c) => Moves(c) /\ caller'[c].stage = "confirmed"
         /\ Reclaim(c) => Moves(c)
         /\ ShowWorking(c) => Moves(c) /\ caller'[c].stage = "idle"
         /\ Refuse(c) => Moves(c) /\ caller'[c].stage = "idle"
         /\ Launch(c) => Moves(c) /\ caller'[c].stage = "idle"
<1> USE DEF Types, Calls, Moves
<1>0. CallShape(caller[c])  OBVIOUS
<1>f. CallShape(Finished(c)) /\ Finished(c).stage = "idle"  BY DEF CallShape, Finished, NoCall
<1>1. ASSUME NextOrphan(c) PROVE Moves(c) /\ caller'[c].stage = "route"
  BY <1>0, <1>1 DEF NextOrphan, CallShape
<1>2. ASSUME Route(c) PROVE Moves(c)
  <2>1. \/ current \in Runs /\ caller' = [caller EXCEPT ![c].stage = "sent", ![c].target = current]
        \/ caller' = [caller EXCEPT ![c].how = "dispatch"]
        \/ \E s \in {"starting", "replace"} : caller' = [caller EXCEPT ![c].stage = s, ![c].target = 0]
    BY <1>2, SessionRunsAssumption DEF Route, Proceed, Registered, Runs
  <2>2. CASE current \in Runs /\ caller' = [caller EXCEPT ![c].stage = "sent", ![c].target = current]
    BY <1>0, <2>2 DEF CallShape
  <2>3. CASE caller' = [caller EXCEPT ![c].how = "dispatch"]
    BY <1>0, <2>3 DEF CallShape
  <2>4. ASSUME NEW s \in {"starting", "replace"}, caller' = [caller EXCEPT ![c].stage = s, ![c].target = 0]
        PROVE  Moves(c)
    BY <1>0, <2>4 DEF CallShape
  <2> QED  BY <2>1, <2>2, <2>3, <2>4
<1>3. ASSUME PushLedger(c) PROVE Moves(c) /\ caller'[c].stage = "pushed"
  BY <1>0, <1>3 DEF PushLedger, Proceed, CallShape
<1>4. ASSUME Confirm(c) PROVE Moves(c) /\ caller'[c].stage = "confirmed"
  BY <1>0, <1>4 DEF Confirm, Proceed, CallShape
<1>5. ASSUME Reclaim(c) PROVE Moves(c)
  <2>1. \/ caller' = [caller EXCEPT ![c].stage = "route", ![c].how = "dispatch"]
        \/ caller' = [caller EXCEPT ![c].stage = "replace", ![c].target = 0]
        \/ caller' = [caller EXCEPT ![c] = Finished(c)]
    BY <1>5 DEF Reclaim, Proceed
  <2>2. CASE caller' = [caller EXCEPT ![c].stage = "route", ![c].how = "dispatch"]
    BY <1>0, <2>2 DEF CallShape
  <2>3. CASE caller' = [caller EXCEPT ![c].stage = "replace", ![c].target = 0]
    BY <1>0, <2>3 DEF CallShape
  <2>4. CASE caller' = [caller EXCEPT ![c] = Finished(c)]
    BY <1>f, <2>4
  <2> QED  BY <2>1, <2>2, <2>3, <2>4
<1>6. ASSUME ShowWorking(c) PROVE Moves(c) /\ caller'[c].stage = "idle"
  BY <1>f, <1>6 DEF ShowWorking
<1>7. ASSUME Refuse(c) PROVE Moves(c) /\ caller'[c].stage = "idle"
  BY <1>7 DEF Refuse, NoCall, CallShape
<1>8. ASSUME Launch(c) PROVE Moves(c) /\ caller'[c].stage = "idle"
  BY <1>f, <1>8 DEF Launch
<1> QED  BY <1>1, <1>2, <1>3, <1>4, <1>5, <1>6, <1>7, <1>8

LEMMA MovesOfStops ==
  ASSUME Types, NEW c \in Callers
  PROVE  /\ Replace(c) => Moves(c) /\ caller'[c].msg = caller[c].msg
         /\ StopWaited(c) => Moves(c)
<1> USE DEF Types, Calls, Moves
<1>0. CallShape(caller[c])  OBVIOUS
<1>f. CallShape(Finished(c)) /\ Finished(c).stage = "idle"  BY DEF CallShape, Finished, NoCall
<1>1. ASSUME Replace(c) PROVE Moves(c) /\ caller'[c].msg = caller[c].msg
  <2>1. \/ caller' = [caller EXCEPT ![c].stage = "starting", ![c].target = 0]
        \/ caller' = [caller EXCEPT ![c].stage = "stopping", ![c].target = current]
    BY <1>1 DEF Replace, Proceed
  <2> QED  BY <1>0, <2>1 DEF CallShape
<1>2. ASSUME StopWaited(c) PROVE Moves(c)
  <2>1. \/ caller' = [caller EXCEPT ![c] = Finished(c)]
        \/ caller' = [caller EXCEPT ![c].stage = "starting", ![c].target = 0]
    BY <1>2 DEF StopWaited, Proceed
  <2>2. CASE caller' = [caller EXCEPT ![c] = Finished(c)]  BY <1>f, <2>2
  <2>3. CASE caller' = [caller EXCEPT ![c].stage = "starting", ![c].target = 0]
    BY <1>0, <2>3 DEF CallShape
  <2> QED  BY <2>1, <2>2, <2>3
<1> QED  BY <1>1, <1>2

\* The executor's commands.
LEMMA MovesOfExecutor ==
  ASSUME Types
  PROVE  /\ Executor \in Callers
         /\ \A how \in {"dispatch", "steer"} : Command(how) => Moves(Executor) /\ caller'[Executor].stage = "route"
         /\ StopCommand => /\ Moves(Executor) /\ caller'[Executor].stage = "stopping"
                           /\ caller'[Executor].msg = 0
<1> USE DEF Types, Calls, Moves
<1>1. Executor \in Callers  BY DEF Callers
<1>2. CallShape(caller[Executor])  BY <1>1
<1>3. ASSUME NEW how \in {"dispatch", "steer"}, Command(how)
      PROVE  Moves(Executor) /\ caller'[Executor].stage = "route"
  BY <1>1, <1>2, <1>3 DEF Command, NoCall, CallShape
<1>4. ASSUME StopCommand
      PROVE  Moves(Executor) /\ caller'[Executor].stage = "stopping" /\ caller'[Executor].msg = 0
  BY <1>1, <1>2, <1>4 DEF StopCommand, Proceed, CallShape
<1> QED  BY <1>1, <1>3, <1>4

\* An ended run hands messages to its own caller.
LEMMA MovesOfRuns ==
  ASSUME Types, NEW r \in Runs
  PROVE  /\ r \in Callers
         /\ Retry(r) \/ Settle(r) =>
              /\ Moves(r) /\ caller'[r].stage = caller[r].stage
              /\ caller'[r].msg = caller[r].msg /\ caller'[r].target = caller[r].target
<1> USE DEF Types, Calls, Moves
<1>1. r \in Callers  BY DEF Callers
<1>2. CallShape(caller[r])  BY <1>1
<1>3. ASSUME Retry(r) \/ Settle(r)
      PROVE  /\ Moves(r) /\ caller'[r].stage = caller[r].stage
             /\ caller'[r].msg = caller[r].msg /\ caller'[r].target = caller[r].target
  <2>1. \/ caller' = caller
        \/ caller' = [caller EXCEPT ![r].queue = run[r].orphans]
        \/ caller' = [caller EXCEPT ![r].queue = <<run[r].msg>>, ![r].retry = TRUE]
    BY <1>3 DEF Retry, Settle
  <2> QED  BY <1>1, <1>2, <2>1 DEF CallShape
<1> QED  BY <1>1, <1>3

-----------------------------------------------------------------------------
(* The inductive invariant *)

UpStages == {"starting", "turn", "parked"}

\* An agent that is up, or coming up, and that nobody has stopped.
AtLarge(r) == run[r].stage \in UpStages /\ ~ run[r].cancelled

\* One dispatch at most is past its look at the map; by the time it starts its run, no
\* agent is at large; and while it waits for the run it stops, no other run is the
\* map's.
Alone ==
  /\ \A c, d \in Callers : Committed(c) /\ Committed(d) => c = d
  /\ \A r \in Runs : AtLarge(r) => current = r
  /\ \A c \in Callers : caller[c].stage = "starting" => current = 0 \/ ~ AtLarge(current)
  /\ \A c \in Callers :
       caller[c].stage = "stopping" /\ caller[c].msg # 0 =>
         /\ caller[c].target \in Runs /\ current \in {0, caller[c].target}
         /\ ~ AtLarge(caller[c].target)

RunsInv == Types /\ (~ crossed => Alone)

\* Steps that bring no agent up and commit no dispatch.
RunsCalm ==
  /\ current' \in {current, 0}
  /\ \A r \in Runs : AtLarge(r)' => AtLarge(r) /\ (current = r => current' = r)

CallersCalm ==
  \A c \in Callers :
    Committed(c)' => /\ Committed(c)
                     /\ caller'[c].stage = caller[c].stage
                     /\ caller'[c].target = caller[c].target

LEMMA CalmStep ==
  ASSUME Types, Alone, RunsCalm, CallersCalm
  PROVE  Alone'
<1>0. current \in 0 .. MaxRuns /\ (current # 0 => current \in Runs)
  BY SessionRunsAssumption DEF Types, Registered, Runs
<1>1. (\A c, d \in Callers : Committed(c) /\ Committed(d) => c = d)'
  BY DEF Alone, CallersCalm
<1>2. (\A r \in Runs : AtLarge(r) => current = r)'
  BY DEF Alone, RunsCalm
<1>3. ASSUME NEW c \in Callers, caller'[c].stage = "starting"
      PROVE  current' = 0 \/ ~ AtLarge(current)'
  <2>1. Committed(c)'  BY <1>3 DEF Committed
  <2>2. caller[c].stage = "starting"  BY <1>3, <2>1 DEF CallersCalm
  <2>3. current = 0 \/ ~ AtLarge(current)  BY <2>2 DEF Alone
  <2>4. CASE current' = 0  BY <2>4
  <2>5. CASE current' # 0
    <3>1. current' = current /\ current \in Runs  BY <1>0, <2>5 DEF RunsCalm
    <3> QED  BY <2>3, <2>5, <3>1 DEF RunsCalm, AtLarge
  <2> QED  BY <2>4, <2>5
<1>4. ASSUME NEW c \in Callers, caller'[c].stage = "stopping", caller'[c].msg # 0
      PROVE  /\ caller'[c].target \in Runs /\ current' \in {0, caller'[c].target}
             /\ ~ AtLarge(caller[c].target)'
  <2>1. Committed(c)'  BY <1>4 DEF Committed
  <2>2. /\ Committed(c) /\ caller[c].stage = "stopping" /\ caller'[c].target = caller[c].target
    BY <1>4, <2>1 DEF CallersCalm
  <2>3. caller[c].msg # 0  BY <2>2 DEF Committed
  <2>4. /\ caller[c].target \in Runs /\ current \in {0, caller[c].target}
        /\ ~ AtLarge(caller[c].target)
    BY <2>2, <2>3 DEF Alone
  <2> QED  BY <2>2, <2>4 DEF RunsCalm, AtLarge
<1> QED  BY <1>1, <1>2, <1>3, <1>4 DEF Alone

\* A run's own step leaves the system calm: it goes on as it was, or it ends.
RunStep == Handles' /\ Registered' /\ RunsCalm

LEMMA GoesOn ==
  ASSUME Types, NEW r \in Runs, NEW S, Edit(r, S), S \subseteq Registrable, current' = current,
         run[r].stage \in UpStages, run'[r].cancelled = run[r].cancelled \/ run'[r].cancelled
  PROVE  RunStep
<1>1. Handles'  BY HandlesFromEdit DEF Types
<1>2. Registered'  BY SessionRunsAssumption DEF Types, Registered, Edit, Runs
<1>3. RunsCalm  BY DEF RunsCalm, AtLarge, Edit
<1> QED  BY <1>1, <1>2, <1>3 DEF RunStep

LEMMA EndsInPlace ==
  ASSUME Types, NEW r \in Runs, NEW S, Edit(r, S), S \cap UpStages = {}, current' = current,
         S \subseteq Registrable \/ run[r].stage \notin Registrable
  PROVE  RunStep
<1>1. Handles'  BY HandlesFromEdit DEF Types
<1>2. Registered'  BY SessionRunsAssumption DEF Types, Registered, Edit, Runs
<1>3. RunsCalm  BY DEF RunsCalm, AtLarge, Edit
<1> QED  BY <1>1, <1>2, <1>3 DEF RunStep

LEMMA EndsUnregistered ==
  ASSUME Types, NEW r \in Runs, NEW S, Edit(r, S), S \cap UpStages = {}, Unregister(r)
  PROVE  RunStep
<1>1. Handles'  BY HandlesFromEdit DEF Types
<1>2. Registered'  BY SessionRunsAssumption DEF Types, Registered, Edit, Runs, Unregister
<1>3. RunsCalm  BY DEF RunsCalm, AtLarge, Edit, Unregister
<1> QED  BY <1>1, <1>2, <1>3 DEF RunStep

LEMMA TaskSteps ==
  ASSUME Types, NEW r \in Runs, Agent(r) \/ Task(r)
  PROVE  RunStep
<1> USE DEF Looping, Registrable, UpStages
<1>0. Handles  BY DEF Types
<1>1. CASE Started(r)
  <2>1. run[r].stage = "starting" /\ current' = current  BY <1>1 DEF Started, Stage
  <2> QED  BY <1>0, <1>1, <2>1, EditsAtWork, GoesOn
<1>2. CASE Steered(r)
  <2>1. run[r].stage \in {"turn", "parked"} /\ current' = current  BY <1>2 DEF Steered, Stage
  <2> QED  BY <1>0, <1>2, <2>1, EditsAtWork, GoesOn
<1>3. CASE SelfContinues(r)
  <2>1. run[r].stage = "parked" /\ current' = current  BY <1>3 DEF SelfContinues, Stage
  <2> QED  BY <1>0, <1>3, <2>1, EditsAtWork, GoesOn
<1>4. CASE Quiesce(r)
  <2>1. run[r].stage = "turn" /\ current' = current  BY <1>4 DEF Quiesce, Stage
  <2> QED  BY <1>0, <1>4, <2>1, EditsAtWork, GoesOn
<1>5. CASE ObserveCancel(r)
  <2>1. run[r].stage \in {"turn", "parked"} /\ current' = current  BY <1>5 DEF ObserveCancel, Stage
  <2> QED  BY <1>0, <1>5, <2>1, EditsAtWork, GoesOn
<1>6. CASE Ask(r)
  <2>1. run[r].stage \in {"turn", "parked"} /\ current' = current  BY <1>6 DEF Ask, Stage
  <2> QED  BY <1>0, <1>6, <2>1, EditsAtWork, GoesOn
<1>7. CASE EngineEvent(r)
  <2>1. run[r].stage \in {"turn", "parked"} /\ current' = current  BY <1>7 DEF EngineEvent, Stage
  <2> QED  BY <1>0, <1>7, <2>1, EditsAtWork, GoesOn
<1>8. CASE TurnDone(r)
  <2>1. run[r].stage \in {"turn", "parked"} /\ current' = current  BY <1>8 DEF TurnDone, Stage
  <2> QED  BY <1>0, <1>8, <2>1, EditsAtEnd, GoesOn
<1>9. CASE StartFails(r)
  <2>1. Unregister(r)  BY <1>9 DEF StartFails
  <2> QED  BY <1>0, <1>9, <2>1, EditsAtEnd, EndsUnregistered
<1>10. CASE Retry(r)
  <2>1. Unregister(r)  BY <1>10 DEF Retry
  <2> QED  BY <1>0, <1>10, <2>1, EditsAtEnd, EndsUnregistered
<1>11. CASE TurnFails(r)
  <2>1. current' = current  BY <1>11 DEF TurnFails
  <2> QED  BY <1>0, <1>11, <2>1, EditsAtEnd, EndsInPlace
<1>12. CASE ParkedEnds(r)
  <2>1. current' = current  BY <1>12 DEF ParkedEnds
  <2> QED  BY <1>0, <1>12, <2>1, EditsAtEnd, EndsInPlace
<1>13. CASE GraceOver(r)
  <2>1. current' = current  BY <1>13 DEF GraceOver
  <2> QED  BY <1>0, <1>13, <2>1, EditsAtEnd, EndsInPlace
<1>14. CASE Claim(r)
  <2>1. current' = current  BY <1>14 DEF Claim
  <2> QED  BY <1>0, <1>14, <2>1, EditsAtEnd, EndsInPlace
<1>15. CASE Leave(r)
  <2>1. Unregister(r)  BY <1>15 DEF Leave
  <2> QED  BY <1>0, <1>15, <2>1, EditsAtEnd, EndsUnregistered
<1>16. CASE Settle(r)
  <2>1. current' = current /\ run[r].stage = "leaving"  BY <1>16 DEF Settle, Stage
  <2> QED  BY <1>0, <1>16, <2>1, EditsAtEnd, EndsInPlace
<1> QED  BY <1>1, <1>2, <1>3, <1>4, <1>5, <1>6, <1>7, <1>8, <1>9, <1>10, <1>11, <1>12, <1>13,
            <1>14, <1>15, <1>16 DEF Agent, Task

\* What was, or becomes, of messages, and what is shown.
LEMMA Marked ==
  ASSUME Shown, NEW ms, NEW f \in Fates, Mark(ms, f)
  PROVE  \A m \in Messages : fate'[m] \in Fates
BY DEF Shown, Mark

LEMMA LostIsFate == ASSUME NEW r PROVE Lost(r) \in Fates
BY DEF Lost, Fates

LEMMA TaskShows ==
  ASSUME Types, NEW r \in Runs, Agent(r) \/ Task(r)
  PROVE  Shown' /\ crossed' = crossed
<1> USE DEF Types
<1>0. Handle(run[r])  BY DEF Handles
<1>1. CASE Started(r)
  BY <1>1, Marked DEF Started, Shown, taskVars, Fates
<1>2. CASE Steered(r)
  BY <1>2 DEF Steered, SetStatus, Shown, taskVars, Fates
<1>3. CASE SelfContinues(r) \/ Quiesce(r)
  BY <1>3 DEF SelfContinues, Quiesce, SetStatus, Shown, taskVars
<1>4. CASE ObserveCancel(r) \/ TurnFails(r) \/ ParkedEnds(r) \/ GraceOver(r) \/ Leave(r)
  BY <1>4 DEF ObserveCancel, TurnFails, ParkedEnds, GraceOver, Leave, Shown, taskVars
<1>5. CASE Ask(r)
  BY <1>5 DEF Ask, Shown, history
<1>6. CASE EngineEvent(r)
  <2>1. status' \in {status, "awaiting", "working"}  BY <1>6 DEF EngineEvent, SetStatus
  <2> QED  BY <1>6, <2>1 DEF EngineEvent, Shown, taskVars
<1>7. CASE TurnDone(r)
  BY <1>7 DEF TurnDone, SetStatus, Shown, taskVars
<1>8. CASE StartFails(r)
  BY <1>8 DEF StartFails, Shown, taskVars, Fates
<1>9. CASE Retry(r)
  BY <1>9, Marked DEF Retry, Shown, taskVars, Fates
<1>10. CASE Claim(r)
  BY <1>10, Marked, LostIsFate DEF Claim, Shown, taskVars
<1>11. CASE Settle(r)
  <2>1. \A m \in Messages : fate'[m] \in Fates
    <3>1. Mark(ToSet(run[r].orphans), "stopped") \/ fate' = fate  BY <1>11 DEF Settle
    <3> QED  BY <3>1, Marked DEF Shown, Fates
  <2>2. status' \in {"idle", "errored"} /\ crossed' = crossed
    BY <1>0, <1>11 DEF Settle, Handle, taskVars
  <2> QED  BY <2>1, <2>2 DEF Shown
<1> QED  BY <1>1, <1>2, <1>3, <1>4, <1>5, <1>6, <1>7, <1>8, <1>9, <1>10, <1>11 DEF Agent, Task

LEMMA TaskCalls ==
  ASSUME Types, NEW r \in Runs, Agent(r) \/ Task(r)
  PROVE  Calls' /\ CallersCalm
<1>1. CASE Retry(r) \/ Settle(r)
  <2>1. Calls'  BY <1>1, MovesOfRuns, CallsFromMove DEF Types
  <2>2. CallersCalm  BY <1>1, MovesOfRuns DEF CallersCalm, Committed, Moves
  <2> QED  BY <2>1, <2>2
<1>2. CASE ~ (Retry(r) \/ Settle(r))
  <2>1. caller' = caller
    BY <1>2 DEF Agent, Task, Started, StartFails, Steered, SelfContinues, TurnDone, TurnFails,
       ParkedEnds, Ask, Quiesce, ObserveCancel, GraceOver, EngineEvent, Claim, Leave
  <2> QED  BY <2>1 DEF Types, Calls, CallersCalm, Committed
<1> QED  BY <1>1, <1>2

-----------------------------------------------------------------------------
(* Steps of callers *)

\* Nothing changes for runs but what does not concern their stage.
LEMMA KeepsRuns ==
  ASSUME Types, current' = current,
         \/ run' = run
         \/ \E r \in Runs : /\ Edit(r, {run[r].stage})
                            /\ run'[r].cancelled = run[r].cancelled \/ run'[r].cancelled
  PROVE  RunStep
<1>1. CASE run' = run
  BY <1>1 DEF Types, RunStep, Handles, Registered, RunsCalm, AtLarge
<1>2. ASSUME NEW r \in Runs, Edit(r, {run[r].stage}),
             run'[r].cancelled = run[r].cancelled \/ run'[r].cancelled
      PROVE  RunStep
  <2>1. Handles'  BY <1>2, HandlesFromEdit DEF Types
  <2>2. Registered'  BY <1>2, SessionRunsAssumption DEF Types, Registered, Edit, Runs
  <2>3. RunsCalm  BY <1>2 DEF RunsCalm, AtLarge, Edit
  <2> QED  BY <2>1, <2>2, <2>3 DEF RunStep
<1> QED  BY <1>1, <1>2

\* A caller that comes to be past its look, or stays where it is.
LEMMA QuietMove ==
  ASSUME Types, NEW c \in Callers, Moves(c), ~ Committed(c)'
  PROVE  Calls' /\ CallersCalm
<1>1. Calls'  BY CallsFromMove DEF Types
<1>2. CallersCalm  BY DEF CallersCalm, Committed, Moves
<1> QED  BY <1>1, <1>2

LEMMA CommitStep ==
  ASSUME Types, Alone, NEW c \in Callers, Moves(c), RunsCalm, current' = current,
         \A d \in Callers \ {c} : ~ Committed(d),
         caller'[c].stage \in {"starting", "replace"},
         caller'[c].stage = "starting" => current = 0
  PROVE  Alone'
<1>1. \A d \in Callers \ {c} : ~ Committed(d)' /\ caller'[d] = caller[d]
  BY DEF Committed, Moves
<1>2. (\A b, d \in Callers : Committed(b) /\ Committed(d) => b = d)'  BY <1>1
<1>3. (\A r \in Runs : AtLarge(r) => current = r)'  BY DEF Alone, RunsCalm
<1>4. (\A d \in Callers : caller[d].stage = "starting" => current = 0 \/ ~ AtLarge(current))'
  BY <1>1 DEF Committed
<1>5. \A d \in Callers : caller'[d].stage = "stopping" /\ caller'[d].msg # 0 => FALSE
  BY <1>1 DEF Committed
<1> QED  BY <1>2, <1>3, <1>4, <1>5 DEF Alone

LEMMA SendSteps ==
  ASSUME RunsInv, NEW c \in Callers,
         \/ NextOrphan(c) \/ PushLedger(c) \/ Confirm(c) \/ ShowWorking(c) \/ Refuse(c)
  PROVE  RunsInv'
<1>0. Types /\ (~ crossed => Alone)  BY DEF RunsInv
<1>1. RunStep
  <2>1. current' = current
    BY DEF NextOrphan, PushLedger, Confirm, ShowWorking, Refuse
  <2>2. CASE PushLedger(c)  BY <1>0, <2>1, <2>2, EditsBySenders, KeepsRuns
  <2>3. CASE ~ PushLedger(c)
    <3>1. run' = run  BY <2>3 DEF NextOrphan, Confirm, ShowWorking, Refuse
    <3> QED  BY <1>0, <2>1, <3>1, KeepsRuns
  <2> QED  BY <2>2, <2>3
<1>2. Calls' /\ CallersCalm
  <2>1. Moves(c) /\ caller'[c].stage \in {"route", "pushed", "confirmed", "idle"}
    BY <1>0, MovesOfCallers
  <2>2. ~ Committed(c)'  BY <2>1 DEF Committed
  <2> QED  BY <1>0, <2>1, <2>2, QuietMove
<1>3. Shown' /\ crossed' = crossed
  <2>1. \A m \in Messages : fate'[m] \in Fates
    <3>1. \/ fate' = fate
          \/ \E ms, f : f \in Fates /\ Mark(ms, f)
      <4>1. ASSUME Confirm(c) PROVE \E ms, f : f \in Fates /\ Mark(ms, f)
        BY <4>1, LostIsFate DEF Confirm
      <4>2. ASSUME Refuse(c) PROVE \E ms, f : f \in Fates /\ Mark(ms, f)
        BY <4>2 DEF Refuse, Fates
      <4> QED  BY <4>1, <4>2 DEF NextOrphan, PushLedger, ShowWorking, history
    <3> QED  BY <1>0, <3>1, Marked DEF Types, Shown
  <2>2. status' \in {"idle", "working", "awaiting", "errored"}
    BY <1>0 DEF NextOrphan, PushLedger, Confirm, ShowWorking, Refuse, Types, Shown
  <2>3. crossed' = crossed
    BY DEF NextOrphan, PushLedger, Confirm, ShowWorking, Refuse, history
  <2> QED  BY <2>1, <2>2, <2>3 DEF Shown
<1>4. ~ crossed' => Alone'  BY <1>0, <1>1, <1>2, <1>3, CalmStep DEF RunStep
<1> QED  BY <1>1, <1>2, <1>3, <1>4 DEF RunsInv, RunStep, Types

LEMMA LookSteps ==
  ASSUME RunsInv, NEW c \in Callers, Route(c) \/ Reclaim(c)
  PROVE  RunsInv'
<1>0. Types /\ (~ crossed => Alone)  BY DEF RunsInv
<1>1. current' = current /\ Shown'
  BY <1>0 DEF Route, Reclaim, Types, Shown, history
<1>2. RunStep
  BY <1>0, <1>1, EditsBySenders, KeepsRuns
<1>3. Moves(c)  BY <1>0, MovesOfCallers
<1>4. \/ ~ Committed(c)' /\ crossed' = crossed
      \/ /\ crossed' = Crossing(c)
         /\ caller'[c].stage \in {"starting", "replace"}
         /\ caller'[c].stage = "starting" => current = 0
  <2>0. DOMAIN caller = Callers /\ CallShape(caller[c])  BY <1>0 DEF Types, Calls
  <2>1. CASE Route(c)
    <3>0. caller[c].stage = "route"  BY <2>1 DEF Route
    <3>1. \/ caller' = [caller EXCEPT ![c].stage = "sent", ![c].target = current] /\ crossed' = crossed
          \/ caller' = [caller EXCEPT ![c].how = "dispatch"] /\ crossed' = crossed
          \/ /\ caller' = [caller EXCEPT ![c].stage = IF current = 0 THEN "starting" ELSE "replace", ![c].target = 0]
             /\ crossed' = Crossing(c)
      BY <2>1 DEF Route, Proceed
    <3> QED  BY <2>0, <3>0, <3>1 DEF Committed, CallShape
  <2>2. CASE Reclaim(c)
    <3>1. \/ caller' = [caller EXCEPT ![c].stage = "route", ![c].how = "dispatch"] /\ crossed' = crossed
          \/ caller' = [caller EXCEPT ![c].stage = "replace", ![c].target = 0] /\ crossed' = Crossing(c)
          \/ caller' = [caller EXCEPT ![c] = Finished(c)] /\ crossed' = crossed
      BY <2>2 DEF Reclaim, Proceed
    <3> QED  BY <2>0, <3>1 DEF Committed, CallShape, Finished, NoCall
  <2> QED  BY <2>1, <2>2
<1>5. Calls' /\ (~ crossed' => Alone')
  <2>1. CASE ~ Committed(c)' /\ crossed' = crossed
    BY <1>0, <1>2, <1>3, <2>1, QuietMove, CalmStep DEF RunStep
  <2>2. CASE /\ crossed' = Crossing(c) /\ caller'[c].stage \in {"starting", "replace"}
             /\ caller'[c].stage = "starting" => current = 0
    <3>1. Calls'  BY <1>0, <1>3, CallsFromMove DEF Types
    <3>2. ASSUME ~ crossed' PROVE Alone'
      <4>1. ~ crossed /\ \A d \in Callers \ {c} : ~ Committed(d)  BY <2>2, <3>2 DEF Crossing
      <4> QED  BY <1>0, <1>1, <1>2, <1>3, <2>2, <4>1, CommitStep DEF RunStep
    <3> QED  BY <3>1, <3>2
  <2> QED  BY <1>4, <2>1, <2>2
<1> QED  BY <1>1, <1>2, <1>5 DEF RunsInv, RunStep, Types

\* A dispatch takes hold of the run it has to stop.
LEMMA ReplaceStep ==
  ASSUME RunsInv, NEW c \in Callers, Replace(c)
  PROVE  RunsInv'
<1>0. Types /\ (~ crossed => Alone)  BY DEF RunsInv
<1>1. current' = current /\ Shown' /\ crossed' = crossed
  BY <1>0 DEF Replace, Types, Shown, history
<1>2. \/ run' = run
      \/ current \in Runs /\ run' = Interrupted(current)
  BY <1>0, SessionRunsAssumption DEF Replace, Types, Registered, Runs
<1>3. RunStep
  BY <1>0, <1>1, <1>2, EditsFromOutside, KeepsRuns DEF Types
<1>4. Moves(c)  BY <1>0, MovesOfStops
<1>5. Calls'  BY <1>0, <1>4, CallsFromMove DEF Types
<1>6. ASSUME ~ crossed' PROVE Alone'
  <2>0. Alone /\ Committed(c)  BY <1>0, <1>1, <1>6 DEF Replace, Committed
  <2>1. \A d \in Callers \ {c} : ~ Committed(d)  BY <2>0 DEF Alone
  <2>2. CASE current = 0
    <3>1. caller'[c].stage = "starting"
      BY <1>0, <2>2 DEF Replace, Proceed, Types, Calls, CallShape
    <3> QED  BY <1>0, <1>1, <1>3, <1>4, <2>0, <2>1, <2>2, <3>1, CommitStep DEF RunStep
  <2>3. CASE current # 0
    <3>0. current \in Runs /\ run' = Interrupted(current)
      BY <1>0, <2>3, SessionRunsAssumption DEF Replace, Types, Registered, Runs
    <3>1. ~ AtLarge(current)'
      BY <1>0, <1>1, <3>0, EditsFromOutside DEF AtLarge, Types
    <3>2. caller'[c].stage = "stopping" /\ caller'[c].target = current
      BY <1>0, <2>3 DEF Replace, Proceed, Types, Calls, CallShape
    <3>3. \A d \in Callers \ {c} : ~ Committed(d)' /\ caller'[d] = caller[d]
      BY <1>4, <2>1 DEF Committed, Moves
    <3>4. (\A b, d \in Callers : Committed(b) /\ Committed(d) => b = d)'  BY <3>3
    <3>5. (\A r \in Runs : AtLarge(r) => current = r)'  BY <1>3, <2>0 DEF Alone, RunsCalm, RunStep
    <3>6. (\A d \in Callers : caller[d].stage = "starting" => current = 0 \/ ~ AtLarge(current))'
      BY <3>2, <3>3 DEF Committed
    <3>7. ~ AtLarge(caller[c].target)'
      BY <1>1, <3>1, <3>2 DEF AtLarge
    <3>8. ASSUME NEW d \in Callers, caller'[d].stage = "stopping", caller'[d].msg # 0
          PROVE  d = c
      BY <3>3, <3>8 DEF Committed
    <3> QED  BY <1>1, <3>0, <3>2, <3>4, <3>5, <3>6, <3>7, <3>8 DEF Alone
  <2> QED  BY <2>2, <2>3
<1> QED  BY <1>1, <1>3, <1>5, <1>6 DEF RunsInv, RunStep, Types

\* The wait is over: the run it was for is stopped or gone, and no other took its place.
LEMMA StopWaitedStep ==
  ASSUME RunsInv, NEW c \in Callers, StopWaited(c)
  PROVE  RunsInv'
<1>0. Types /\ (~ crossed => Alone)  BY DEF RunsInv
<1>1. current' = current /\ run' = run /\ Shown' /\ crossed' = crossed
  BY <1>0 DEF StopWaited, Types, Shown, history
<1>2. RunStep  BY <1>0, <1>1, KeepsRuns
<1>3. Moves(c)  BY <1>0, MovesOfStops
<1>4. Calls'  BY <1>0, <1>3, CallsFromMove DEF Types
<1>5. ASSUME ~ crossed' PROVE Alone'
  <2>0. Alone  BY <1>0, <1>1, <1>5
  <2>1. CASE caller[c].msg = 0
    <3>1. caller'[c].stage = "idle"
      BY <1>0, <2>1 DEF StopWaited, Finished, NoCall, Types, Calls
    <3>2. ~ Committed(c)'  BY <3>1 DEF Committed
    <3> QED  BY <1>0, <1>2, <1>3, <2>0, <3>2, QuietMove, CalmStep DEF RunStep
  <2>2. CASE caller[c].msg # 0
    <3>0. Committed(c)  BY <2>2 DEF StopWaited, Committed
    <3>1. caller'[c].stage = "starting"
      BY <1>0, <2>2 DEF StopWaited, Proceed, Types, Calls, CallShape
    <3>2. \A d \in Callers \ {c} : ~ Committed(d)' /\ caller'[d] = caller[d]
      BY <1>3, <2>0, <3>0 DEF Committed, Moves, Alone
    <3>3. current = 0 \/ ~ AtLarge(current)
      BY <2>0, <2>2 DEF Alone, StopWaited
    <3>4. (\A b, d \in Callers : Committed(b) /\ Committed(d) => b = d)'  BY <3>2
    <3>5. (\A r \in Runs : AtLarge(r) => current = r)'  BY <1>2, <2>0 DEF Alone, RunsCalm, RunStep
    <3>6. (\A d \in Callers : caller[d].stage = "starting" => current = 0 \/ ~ AtLarge(current))'
      BY <1>1, <3>3 DEF AtLarge
    <3>7. \A d \in Callers : ~ (caller'[d].stage = "stopping" /\ caller'[d].msg # 0)
      BY <3>1, <3>2 DEF Committed
    <3> QED  BY <3>4, <3>5, <3>6, <3>7 DEF Alone
  <2> QED  BY <2>1, <2>2
<1> QED  BY <1>1, <1>2, <1>4, <1>5 DEF RunsInv, RunStep, Types

\* The fresh run is the map's, and no other agent is at large.
LEMMA LaunchStep ==
  ASSUME RunsInv, NEW c \in Callers, Launch(c)
  PROVE  RunsInv'
<1>0. Types /\ (~ crossed => Alone)  BY DEF RunsInv
<1>1. current' \in Runs /\ Edit(current', {"starting"})  BY <1>0, EditLaunch
<1>2. Handles'
  <2>1. PICK r \in Runs : r = current'  BY <1>1
  <2> QED  BY <1>0, <1>1, <2>1, HandlesFromEdit DEF Types
<1>3. Registered'  BY <1>1, SessionRunsAssumption DEF Registered, Registrable, Edit, Runs
<1>4. Moves(c) /\ caller'[c].stage = "idle"  BY <1>0, MovesOfCallers
<1>5. Calls'  BY <1>0, <1>4, CallsFromMove DEF Types
<1>6. Shown' /\ crossed' = crossed  BY <1>0 DEF Launch, Types, Shown, history
<1>7. ASSUME ~ crossed' PROVE Alone'
  <2>0. Alone /\ Committed(c) /\ caller[c].stage = "starting"
    BY <1>0, <1>6, <1>7 DEF Launch, Committed
  <2>1. \A r \in Runs : ~ AtLarge(r)
    <3>1. \A r \in Runs : AtLarge(r) => current = r /\ current # 0
      BY <2>0, SessionRunsAssumption DEF Alone, Runs
    <3>2. current = 0 \/ ~ AtLarge(current)  BY <2>0 DEF Alone
    <3> QED  BY <3>1, <3>2 DEF AtLarge
  <2>2. (\A r \in Runs : AtLarge(r) => current = r)'  BY <1>1, <2>1 DEF Edit, AtLarge
  <2>3. \A d \in Callers : ~ Committed(d)'  BY <1>4, <2>0 DEF Alone, Committed, Moves
  <2> QED  BY <2>2, <2>3 DEF Alone, Committed
<1> QED  BY <1>2, <1>3, <1>5, <1>6, <1>7 DEF RunsInv, Types

\* Commands, stops, denials and answers.
LEMMA OutsideSteps ==
  ASSUME RunsInv,
         \/ \E how \in {"dispatch", "steer"} : Command(how)
         \/ StopCommand \/ DenialStops \/ Answer
  PROVE  RunsInv'
<1>0. Types /\ (~ crossed => Alone) /\ Executor \in Callers  BY MovesOfExecutor DEF RunsInv
<1>1. current' = current /\ Shown' /\ crossed' = crossed
  BY <1>0 DEF Command, StopCommand, DenialStops, Answer, Types, Shown, history
<1>2. current # 0 => current \in Runs
  BY <1>0, SessionRunsAssumption DEF Types, Registered, Runs
<1>3. RunStep
  <2>1. \/ run' = run
        \/ current # 0 /\ run' = Interrupted(current)
        \/ current # 0 /\ Answer
    BY DEF Command, StopCommand, DenialStops, Answer
  <2> QED  BY <1>0, <1>1, <1>2, <2>1, EditsFromOutside, KeepsRuns DEF Types
<1>4. Calls' /\ CallersCalm
  <2>1. CASE \E how \in {"dispatch", "steer"} : Command(how)
    <3>1. Moves(Executor) /\ caller'[Executor].stage = "route"  BY <1>0, <2>1, MovesOfExecutor
    <3> QED  BY <1>0, <3>1, QuietMove DEF Committed
  <2>2. CASE StopCommand
    <3>1. Moves(Executor) /\ caller'[Executor].stage = "stopping" /\ caller'[Executor].msg = 0
      BY <1>0, <2>2, MovesOfExecutor
    <3> QED  BY <1>0, <3>1, QuietMove DEF Committed
  <2>3. CASE DenialStops \/ Answer
    <3>1. caller' = caller  BY <2>3 DEF DenialStops, Answer
    <3> QED  BY <1>0, <3>1 DEF Types, Calls, CallersCalm, Committed
  <2> QED  BY <2>1, <2>2, <2>3
<1>5. ~ crossed' => Alone'  BY <1>0, <1>1, <1>3, <1>4, CalmStep DEF RunStep
<1> QED  BY <1>1, <1>3, <1>4, <1>5 DEF RunsInv, RunStep, Types

-----------------------------------------------------------------------------
(* What is accepted is kept: ledgers, queues and who answers for a message *)

LEMMA ContainsFacts ==
  ASSUME NEW s, Sequence(s), NEW e, NEW x
  PROVE  /\ ~ Contains(<<>>, x)
         /\ Contains(<<e>>, e)
         /\ Contains(s, x) => Contains(Append(s, e), x)
         /\ Contains(Append(s, e), e)
         /\ Contains(s, x) => s # <<>> /\ (x = Head(s) \/ Contains(Tail(s), x))
         /\ Contains(s, x) <=> x \in ToSet(s)
<1>1. PICK S : s \in Seq(S)  BY DEF Sequence
<1>2. PICK t : t = Append(s, e)  OBVIOUS
<1>3. /\ Len(t) = Len(s) + 1 /\ t[Len(s) + 1] = e /\ Len(s) \in Nat
      /\ \A i \in 1 .. Len(s) : t[i] = s[i]
  <2>1. s \in Seq(S \cup {e})  BY <1>1
  <2> QED  BY <1>2, <2>1
<1>4. Contains(t, e) /\ (Contains(s, x) => Contains(t, x))  BY <1>3 DEF Contains
<1>5. ASSUME Contains(s, x) PROVE s # <<>> /\ (x = Head(s) \/ Contains(Tail(s), x))
  <2>1. PICK i \in 1 .. Len(s) : s[i] = x  BY <1>5 DEF Contains
  <2>2. s # <<>>  BY <1>1, <2>1
  <2>3. CASE i = 1  BY <1>1, <2>1, <2>2, <2>3
  <2>4. CASE i # 1
    <3>1. PICK u : u = Tail(s)  OBVIOUS
    <3>2. i - 1 \in 1 .. Len(u) /\ u[i - 1] = x  BY <1>1, <2>1, <2>2, <2>4, <3>1
    <3> QED  BY <2>2, <3>1, <3>2 DEF Contains
  <2> QED  BY <2>3, <2>4
<1>6. ~ Contains(<<>>, x) /\ Contains(<<e>>, e)  BY DEF Contains
<1>7. Contains(s, x) <=> x \in ToSet(s)  BY DEF Contains, ToSet
<1> QED  BY <1>2, <1>4, <1>5, <1>6, <1>7

LEMMA SequenceFirstRemoved ==
  ASSUME NEW s, Sequence(s), NEW e, NEW x
  PROVE  /\ Sequence(RemoveFirst(s, e))
         /\ Contains(s, x) /\ x # e => Contains(RemoveFirst(s, e), x)
<1>1. PICK S : s \in Seq(S)  BY DEF Sequence
<1>2. Contains(s, x) => x \in S  BY <1>1 DEF Contains
<1>3. PICK t : t = RemoveFirst(s, e)  OBVIOUS
<1>4. t \in Seq(S) /\ \A y \in S : Contains(s, y) /\ y # e => Contains(t, y)
  BY <1>1, <1>3, RemoveFirstFacts, Zenon
<1> QED  BY <1>2, <1>3, <1>4 DEF Sequence

\* What a run and a caller have in writing.
File(x) ==
  {"stage", "msg", "ledger", "orphans"} \subseteq DOMAIN x /\ Sequence(x.ledger) /\ Sequence(x.orphans)

Desk(x) == {"stage", "msg", "target", "queue"} \subseteq DOMAIN x /\ Sequence(x.queue)

Sending == {"sent", "pushed", "confirmed"}

Files ==
  /\ \A r \in Runs : File(run[r]) /\ (run[r].stage = "none" => run[r].ledger = <<>>)
  /\ \E k \in 0 .. MaxRuns : \A r \in Runs : run[r].stage # "none" <=> r <= k

\* Only the boot pass, and a run that has left, have messages to dispatch again; a run
\* that has not left calls nobody.
Desks ==
  /\ \A c \in Callers :
       /\ Desk(caller[c])
       /\ caller[c].stage \in Sending => run[caller[c].target].stage # "none"
  /\ caller[Executor].queue = <<>>
  /\ \A r \in Runs : run[r].stage # "gone" => caller[r].queue = <<>> /\ caller[r].stage = "idle"

Filed == Files /\ Desks /\ sent \in 0 .. MaxMessages

\* A run answers for the message it starts with, for its ledger until its exit, and
\* then for what the exit claimed.
Holds(r, m) ==
  \/ run[r].stage = "starting" /\ run[r].msg = m
  \/ run[r].stage \in {"starting", "turn", "parked", "ended"} /\ Contains(run[r].ledger, m)
  \/ run[r].stage \in {"claimed", "leaving"} /\ Contains(run[r].orphans, m)

\* A caller answers for the message in its hands, and for its queue.
Carries(c, m) ==
  \/ caller[c].stage \notin {"pushed", "confirmed"} /\ caller[c].msg = m
  \/ Contains(caller[c].queue, m)

\* It can still take back the entry it made.
InHand(c, m) ==
  /\ caller[c].stage = "pushed" /\ caller[c].msg = m
  /\ Contains(run[caller[c].target].ledger, m)

Kept(m) ==
  \/ fate[m] # "none"
  \/ \E c \in Callers : Carries(c, m) \/ InHand(c, m)
  \/ \E r \in Runs : Holds(r, m)

EveryoneKept == \A m \in 1 .. sent : Kept(m)

LEMMA KeptIsHeld == Types /\ Filed /\ EveryoneKept => AcceptedIsKept
<1> SUFFICES ASSUME Types, Filed, EveryoneKept, NEW m \in 1 .. sent, fate[m] = "none"
             PROVE  Held(m)
  BY DEF AcceptedIsKept
<1>1. \/ \E c \in Callers : Carries(c, m) \/ InHand(c, m)
      \/ \E r \in Runs : Holds(r, m)
  BY DEF EveryoneKept, Kept
<1>2. ASSUME NEW r \in Runs, Holds(r, m) PROVE Held(m)
  <2>1. File(run[r])  BY DEF Filed, Files
  <2>2. ASSUME Contains(run[r].ledger, m) \/ Contains(run[r].orphans, m)
        PROVE  Contains(run[r].ledger \o run[r].orphans, m)
    <3>1. PICK a, b, t : a = run[r].ledger /\ b = run[r].orphans /\ t = a \o b  OBVIOUS
    <3>2. PICK A, B : a \in Seq(A) /\ b \in Seq(B)  BY <2>1, <3>1 DEF File, Sequence
    <3>3. /\ Len(t) = Len(a) + Len(b) /\ Len(a) \in Nat /\ Len(b) \in Nat
          /\ \A i \in 1 .. Len(t) : t[i] = IF i <= Len(a) THEN a[i] ELSE b[i - Len(a)]
      <4>0. PICK S : S = A \cup B  OBVIOUS
      <4>1. a \in Seq(S) /\ b \in Seq(S)  BY <3>2, <4>0
      <4>2. /\ a \o b \in Seq(S) /\ Len(a \o b) = Len(a) + Len(b)
            /\ \A i \in 1 .. Len(a) + Len(b) : (a \o b)[i] = IF i <= Len(a) THEN a[i] ELSE b[i - Len(a)]
        BY <4>1, ConcatProperties, Zenon
      <4>3. /\ Len(t) = Len(a) + Len(b)
            /\ \A i \in 1 .. Len(a) + Len(b) : t[i] = IF i <= Len(a) THEN a[i] ELSE b[i - Len(a)]
        BY <3>1, <4>2, Zenon
      <4>4. Len(a) \in Nat /\ Len(b) \in Nat  BY <4>1
      <4> QED  BY <4>3, <4>4
    <3>4. ASSUME NEW i \in 1 .. Len(a), a[i] = m PROVE Contains(t, m)
      <4>1. i \in 1 .. Len(t) /\ t[i] = m  BY <3>3, <3>4
      <4> QED  BY <4>1 DEF Contains
    <3>5. ASSUME NEW i \in 1 .. Len(b), b[i] = m PROVE Contains(t, m)
      <4>1. i + Len(a) \in 1 .. Len(t) /\ t[i + Len(a)] = m  BY <3>3, <3>5
      <4> QED  BY <4>1 DEF Contains
    <3>6. Contains(a, m) \/ Contains(b, m)  BY <2>2, <3>1
    <3> QED  BY <3>1, <3>4, <3>5, <3>6 DEF Contains
  <2> QED  BY <1>2, <2>2 DEF Held, Holds, Stage
<1> QED  BY <1>1, <1>2 DEF Held, Carries, InHand


-----------------------------------------------------------------------------
(* What actions do to the files *)

\* The run's message, its ledger and its orphans stay as they are.
Quiet(r) ==
  /\ File(run'[r])
  /\ run'[r].msg = run[r].msg
  /\ run'[r].ledger = run[r].ledger
  /\ run'[r].orphans = run[r].orphans

LEMMA QuietSteps ==
  ASSUME Handles, Files, NEW r \in Runs,
         \/ Started(r) \/ SelfContinues(r) \/ Quiesce(r) \/ ObserveCancel(r) \/ Ask(r)
         \/ EngineEvent(r) \/ StartFails(r) \/ TurnDone(r) \/ TurnFails(r) \/ ParkedEnds(r)
         \/ GraceOver(r) \/ Leave(r) \/ run' = Interrupted(r) \/ (current = r /\ Answer)
         \/ (current = r /\ \E m : run' = [run EXCEPT ![r].mailbox = Append(@, m)])
  PROVE  Quiet(r)
<1>0. /\ {"stage", "msg", "ledger", "orphans"} \subseteq DOMAIN run[r]
      /\ Sequence(run[r].ledger) /\ Sequence(run[r].orphans) /\ DOMAIN run = Runs
  BY DEF Handles, Files, File
<1> USE <1>0 DEF Quiet, File
<1>1. CASE Started(r)  BY <1>1 DEF Started
<1>2. CASE SelfContinues(r)  BY <1>2 DEF SelfContinues
<1>3. CASE Quiesce(r)  BY <1>3 DEF Quiesce, Parked
<1>4. CASE ObserveCancel(r)  BY <1>4 DEF ObserveCancel
<1>5. CASE Ask(r)
  <2>1. PICK q : run' = [run EXCEPT ![r].pending = q, ![r].engine = Append(@, [event |-> "asked", of |-> q])]
    BY <1>5 DEF Ask
  <2> QED  BY <2>1
<1>6. CASE EngineEvent(r)
  <2>1. \/ run' = [run EXCEPT ![r].engine = Tail(@)]
        \/ run' = [[run EXCEPT ![r].engine = Tail(@)] EXCEPT ![r].pending = NoQuestion]
        \/ run' = [[run EXCEPT ![r].engine = Tail(@)] EXCEPT ![r].unresolved = TRUE]
        \/ run' = [[run EXCEPT ![r].engine = Tail(@)] EXCEPT ![r].unresolved = FALSE]
    BY <1>6 DEF EngineEvent
  <2>2. CASE run' = [run EXCEPT ![r].engine = Tail(@)]  BY <2>2
  <2>3. CASE run' = [[run EXCEPT ![r].engine = Tail(@)] EXCEPT ![r].pending = NoQuestion]  BY <2>3
  <2>4. CASE run' = [[run EXCEPT ![r].engine = Tail(@)] EXCEPT ![r].unresolved = TRUE]  BY <2>4
  <2>5. CASE run' = [[run EXCEPT ![r].engine = Tail(@)] EXCEPT ![r].unresolved = FALSE]  BY <2>5
  <2> QED  BY <2>1, <2>2, <2>3, <2>4, <2>5
<1>7. CASE StartFails(r)  BY <1>7 DEF StartFails
<1>8. CASE TurnDone(r)
  <2>1. run' = Drained(Parked(r), r) \/ run' = Ended(Drained(run, r), r, "idle")
    BY <1>8 DEF TurnDone
  <2>2. CASE run' = Drained(Parked(r), r)  BY <2>2 DEF Drained, Parked
  <2>3. CASE run' = Ended(Drained(run, r), r, "idle")  BY <2>3 DEF Drained, Ended
  <2> QED  BY <2>1, <2>2, <2>3
<1>9. CASE TurnFails(r)  BY <1>9 DEF TurnFails, Drained, Ended
<1>10. CASE ParkedEnds(r)  BY <1>10 DEF ParkedEnds, Ended
<1>11. CASE GraceOver(r)  BY <1>11 DEF GraceOver, Drained, Ended
<1>12. CASE Leave(r)  BY <1>12 DEF Leave
<1>13. CASE run' = Interrupted(r)  BY <1>13 DEF Interrupted
<1>14. CASE current = r /\ Answer  BY <1>14 DEF Answer
<1>15. ASSUME NEW m, run' = [run EXCEPT ![r].mailbox = Append(@, m)] PROVE Quiet(r)
  BY <1>15
<1> QED  BY <1>1, <1>2, <1>3, <1>4, <1>5, <1>6, <1>7, <1>8, <1>9, <1>10, <1>11, <1>12, <1>13,
            <1>14, <1>15

\* The steps that write to a ledger, retire from it or claim it.
LEMMA Written ==
  ASSUME Handles, Files, NEW r \in Runs
  PROVE  /\ \A c \in Callers : PushLedger(c) /\ caller[c].target = r =>
              /\ File(run'[r])
              /\ run'[r].msg = run[r].msg /\ run'[r].orphans = run[r].orphans
              /\ run'[r].ledger = Append(run[r].ledger, caller[c].msg)
         /\ \A c \in Callers : run' # run /\ Reclaim(c) /\ caller[c].target = r =>
              /\ File(run'[r])
              /\ run'[r].msg = run[r].msg /\ run'[r].orphans = run[r].orphans
              /\ run'[r].ledger = RemoveFirst(run[r].ledger, caller[c].msg)
         /\ Steered(r) =>
              /\ File(run'[r])
              /\ run'[r].msg = run[r].msg /\ run'[r].orphans = run[r].orphans
              /\ run'[r].ledger = IF current = r /\ run[r].ledger # <<>>
                                  THEN Tail(run[r].ledger) ELSE run[r].ledger
         /\ Claim(r) =>
              /\ File(run'[r])
              /\ run'[r].orphans = IF current = r THEN run[r].ledger ELSE <<>>
              /\ run'[r].ledger = IF current = r THEN <<>> ELSE run[r].ledger
         /\ Retry(r) \/ Settle(r) => File(run'[r]) /\ run'[r].ledger = run[r].ledger
<1>0. /\ {"stage", "msg", "ledger", "orphans"} \subseteq DOMAIN run[r]
      /\ Sequence(run[r].ledger) /\ Sequence(run[r].orphans) /\ DOMAIN run = Runs
  BY DEF Handles, Files, File
<1>e. Sequence(<<>>)  BY EmptySequence
<1>1. ASSUME NEW c \in Callers, PushLedger(c), caller[c].target = r
      PROVE  /\ File(run'[r])
             /\ run'[r].msg = run[r].msg /\ run'[r].orphans = run[r].orphans
             /\ run'[r].ledger = Append(run[r].ledger, caller[c].msg)
  <2>1. PICK a : a = Append(run[r].ledger, caller[c].msg)  OBVIOUS
  <2>2. run' = [run EXCEPT ![r].ledger = a]  BY <1>1, <2>1 DEF PushLedger
  <2>3. Sequence(a)  BY <1>0, <2>1, SequenceFacts
  <2> QED  BY <1>0, <2>1, <2>2, <2>3 DEF File
<1>2. ASSUME NEW c \in Callers, run' # run, Reclaim(c), caller[c].target = r
      PROVE  /\ File(run'[r])
             /\ run'[r].msg = run[r].msg /\ run'[r].orphans = run[r].orphans
             /\ run'[r].ledger = RemoveFirst(run[r].ledger, caller[c].msg)
  <2>1. PICK a : a = RemoveFirst(run[r].ledger, caller[c].msg)  OBVIOUS
  <2>2. run' = [run EXCEPT ![r].ledger = a]  BY <1>2, <2>1 DEF Reclaim
  <2>3. Sequence(a)  BY <1>0, <2>1, SequenceFirstRemoved
  <2> QED  BY <1>0, <2>1, <2>2, <2>3 DEF File
<1>3. ASSUME Steered(r)
      PROVE  /\ File(run'[r])
             /\ run'[r].msg = run[r].msg /\ run'[r].orphans = run[r].orphans
             /\ run'[r].ledger = IF current = r /\ run[r].ledger # <<>>
                                 THEN Tail(run[r].ledger) ELSE run[r].ledger
  <2>1. PICK a : a = IF current = r /\ run[r].ledger # <<>> THEN Tail(run[r].ledger) ELSE run[r].ledger
    OBVIOUS
  <2>2. run' = [run EXCEPT ![r].stage = "turn", ![r].unresolved = FALSE, ![r].mailbox = Tail(@), ![r].ledger = a]
    BY <1>3, <2>1 DEF Steered
  <2>3. Sequence(a)  BY <1>0, <2>1, SequenceFacts
  <2> QED  BY <1>0, <2>1, <2>2, <2>3 DEF File
<1>4. ASSUME Claim(r)
      PROVE  /\ File(run'[r])
             /\ run'[r].orphans = IF current = r THEN run[r].ledger ELSE <<>>
             /\ run'[r].ledger = IF current = r THEN <<>> ELSE run[r].ledger
  <2>1. PICK a, b : /\ a = (IF current = r THEN run[r].ledger ELSE <<>>)
                    /\ b = (IF current = r THEN <<>> ELSE run[r].ledger)
    OBVIOUS
  <2>2. run' = [run EXCEPT ![r].stage = "claimed", ![r].orphans = a, ![r].ledger = b]
    BY <1>4, <2>1 DEF Claim
  <2>3. Sequence(a) /\ Sequence(b)  BY <1>0, <1>e, <2>1
  <2> QED  BY <1>0, <2>1, <2>2, <2>3 DEF File
<1>5. ASSUME Retry(r) \/ Settle(r) PROVE File(run'[r]) /\ run'[r].ledger = run[r].ledger
  <2>1. run' = [run EXCEPT ![r] = Gone(r)]  BY <1>5 DEF Retry, Settle
  <2>2. File(Gone(r)) /\ Gone(r).ledger = run[r].ledger
    BY <1>0, <1>e DEF Gone, NoRun, NewRun, File
  <2> QED  BY <1>0, <2>1, <2>2
<1> QED  BY <1>1, <1>2, <1>3, <1>4, <1>5


\* What is on a caller's desk after its step.
Holding(c, stages) ==
  /\ Desk(caller'[c]) /\ caller'[c].stage \in stages
  /\ caller'[c].msg = caller[c].msg /\ caller'[c].queue = caller[c].queue

Free(c) == Desk(caller'[c]) /\ caller'[c].stage = "idle" /\ caller'[c].queue = caller[c].queue

LEMMA DesksOfSenders ==
  ASSUME Types, Desks, NEW c \in Callers
  PROVE  /\ NextOrphan(c) =>
              /\ Desk(caller'[c]) /\ caller'[c].stage = "route"
              /\ caller'[c].msg = Head(caller[c].queue) /\ caller'[c].queue = Tail(caller[c].queue)
         /\ Route(c) =>
              /\ Holding(c, {"sent", "route", "starting", "replace"})
              /\ caller'[c].stage = "sent" => caller'[c].target = current /\ current \in Runs
         /\ PushLedger(c) => Holding(c, {"pushed"}) /\ caller'[c].target = caller[c].target
         /\ Confirm(c) => Holding(c, {"confirmed"}) /\ caller'[c].target = caller[c].target
         /\ Reclaim(c) =>
              IF Contains(run[caller[c].target].ledger, caller[c].msg)
              THEN Holding(c, {"route", "replace"}) ELSE Free(c)
         /\ ShowWorking(c) => Free(c)
<1> USE DEF Holding, Free
<1>0. /\ {"stage", "msg", "target", "queue"} \subseteq DOMAIN caller[c] /\ Sequence(caller[c].queue)
      /\ DOMAIN caller = Callers
  BY DEF Types, Calls, Desks, Desk
<1>f. Desk(Finished(c)) /\ Finished(c).stage = "idle" /\ Finished(c).queue = caller[c].queue
  BY <1>0 DEF Desk, Finished, NoCall
<1>1. ASSUME NextOrphan(c)
      PROVE  /\ Desk(caller'[c]) /\ caller'[c].stage = "route"
             /\ caller'[c].msg = Head(caller[c].queue) /\ caller'[c].queue = Tail(caller[c].queue)
  <2>1. PICK q : q = Tail(caller[c].queue)  OBVIOUS
  <2>2. caller' = [caller EXCEPT ![c].stage = "route", ![c].how = "dispatch",
                                 ![c].msg = Head(caller[c].queue), ![c].queue = q]
    BY <1>1, <2>1 DEF NextOrphan
  <2>3. Sequence(q)  BY <1>0, <1>1, <2>1, SequenceFacts DEF NextOrphan
  <2> QED  BY <1>0, <2>1, <2>2, <2>3 DEF Desk
<1>2. ASSUME Route(c)
      PROVE  /\ Holding(c, {"sent", "route", "starting", "replace"})
             /\ caller'[c].stage = "sent" => caller'[c].target = current /\ current \in Runs
  <2>1. \/ current \in Runs /\ caller' = [caller EXCEPT ![c].stage = "sent", ![c].target = current]
        \/ caller' = [caller EXCEPT ![c].how = "dispatch"]
        \/ \E s \in {"starting", "replace"} : caller' = [caller EXCEPT ![c].stage = s, ![c].target = 0]
    BY <1>2, SessionRunsAssumption DEF Route, Proceed, Types, Registered, Runs
  <2>2. caller[c].stage = "route"  BY <1>2 DEF Route
  <2>3. CASE current \in Runs /\ caller' = [caller EXCEPT ![c].stage = "sent", ![c].target = current]
    BY <1>0, <2>3 DEF Desk
  <2>4. CASE caller' = [caller EXCEPT ![c].how = "dispatch"]  BY <1>0, <2>2, <2>4 DEF Desk
  <2>5. ASSUME NEW s \in {"starting", "replace"}, caller' = [caller EXCEPT ![c].stage = s, ![c].target = 0]
        PROVE  Holding(c, {"starting", "replace"})
    BY <1>0, <2>5 DEF Desk
  <2> QED  BY <2>1, <2>3, <2>4, <2>5
<1>3. ASSUME PushLedger(c) PROVE Holding(c, {"pushed"}) /\ caller'[c].target = caller[c].target
  BY <1>0, <1>3 DEF PushLedger, Proceed, Desk
<1>4. ASSUME Confirm(c) PROVE Holding(c, {"confirmed"}) /\ caller'[c].target = caller[c].target
  BY <1>0, <1>4 DEF Confirm, Proceed, Desk
<1>5. ASSUME Reclaim(c)
      PROVE  IF Contains(run[caller[c].target].ledger, caller[c].msg)
             THEN Holding(c, {"route", "replace"}) ELSE Free(c)
  <2>1. CASE Contains(run[caller[c].target].ledger, caller[c].msg)
    <3>1. \/ caller' = [caller EXCEPT ![c].stage = "route", ![c].how = "dispatch"]
          \/ caller' = [caller EXCEPT ![c].stage = "replace", ![c].target = 0]
      BY <1>5, <2>1 DEF Reclaim, Proceed
    <3>2. CASE caller' = [caller EXCEPT ![c].stage = "route", ![c].how = "dispatch"]
      BY <1>0, <2>1, <3>2 DEF Desk
    <3>3. CASE caller' = [caller EXCEPT ![c].stage = "replace", ![c].target = 0]
      BY <1>0, <2>1, <3>3 DEF Desk
    <3> QED  BY <3>1, <3>2, <3>3
  <2>2. CASE ~ Contains(run[caller[c].target].ledger, caller[c].msg)
    <3>1. caller' = [caller EXCEPT ![c] = Finished(c)]  BY <1>5, <2>2 DEF Reclaim
    <3> QED  BY <1>0, <1>f, <2>2, <3>1
  <2> QED  BY <2>1, <2>2
<1>6. ASSUME ShowWorking(c) PROVE Free(c)
  BY <1>0, <1>f, <1>6 DEF ShowWorking
<1> QED  BY <1>1, <1>2, <1>3, <1>4, <1>5, <1>6

LEMMA DesksOfDispatches ==
  ASSUME Types, Desks, NEW c \in Callers
  PROVE  /\ Replace(c) => Holding(c, {"starting", "stopping"})
         /\ StopWaited(c) => Holding(c, {"starting"}) \/ (caller[c].msg = 0 /\ Free(c))
         /\ Launch(c) => Free(c)
         /\ Refuse(c) => Desk(caller'[c]) /\ caller'[c].stage = "idle" /\ caller'[c].queue = <<>>
<1> USE DEF Holding, Free
<1>0. /\ {"stage", "msg", "target", "queue"} \subseteq DOMAIN caller[c] /\ Sequence(caller[c].queue)
      /\ DOMAIN caller = Callers
  BY DEF Types, Calls, Desks, Desk
<1>f. Desk(Finished(c)) /\ Finished(c).stage = "idle" /\ Finished(c).queue = caller[c].queue
  BY <1>0 DEF Desk, Finished, NoCall
<1>1. ASSUME Replace(c) PROVE Holding(c, {"starting", "stopping"})
  BY <1>0, <1>1 DEF Replace, Proceed, Desk
<1>2. ASSUME StopWaited(c) PROVE Holding(c, {"starting"}) \/ (caller[c].msg = 0 /\ Free(c))
  <2>1. CASE caller[c].msg = 0
    BY <1>0, <1>f, <1>2, <2>1 DEF StopWaited
  <2>2. CASE caller[c].msg # 0
    BY <1>0, <1>2, <2>2 DEF StopWaited, Proceed, Desk
  <2> QED  BY <2>1, <2>2
<1>3. ASSUME Launch(c) PROVE Free(c)
  BY <1>0, <1>f, <1>3 DEF Launch
<1>4. ASSUME Refuse(c)
      PROVE  Desk(caller'[c]) /\ caller'[c].stage = "idle" /\ caller'[c].queue = <<>>
  BY <1>0, <1>4, EmptySequence DEF Refuse, NoCall, Desk
<1> QED  BY <1>1, <1>2, <1>3, <1>4

LEMMA DesksOfOthers ==
  ASSUME Types, Desks
  PROVE  /\ \A how \in {"dispatch", "steer"} : Command(how) =>
              /\ Desk(caller'[Executor]) /\ caller'[Executor].stage = "route"
              /\ caller'[Executor].msg = sent + 1 /\ caller'[Executor].queue = <<>>
         /\ StopCommand => Holding(Executor, {"stopping"})
         /\ \A r \in Runs :
              Retry(r) => /\ Desk(caller'[r]) /\ caller'[r].stage = caller[r].stage
                          /\ caller'[r].queue = <<run[r].msg>>
         /\ \A r \in Runs :
              Settle(r) /\ Files =>
                 /\ Desk(caller'[r]) /\ caller'[r].stage = caller[r].stage
                 /\ run[r].interrupted => caller' = caller
                 /\ ~ run[r].interrupted => caller'[r].queue = run[r].orphans
<1> USE DEF Holding
<1>0. DOMAIN caller = Callers /\ Executor \in Callers /\ Runs \subseteq Callers
  BY DEF Types, Calls, Callers
<1>d. \A c \in Callers : {"stage", "msg", "target", "queue"} \subseteq DOMAIN caller[c] /\ Sequence(caller[c].queue)
  BY DEF Desks, Desk
<1>1. ASSUME NEW how \in {"dispatch", "steer"}, Command(how)
      PROVE  /\ Desk(caller'[Executor]) /\ caller'[Executor].stage = "route"
             /\ caller'[Executor].msg = sent + 1 /\ caller'[Executor].queue = <<>>
  BY <1>0, <1>1, EmptySequence DEF Command, NoCall, Desk
<1>2. ASSUME StopCommand PROVE Holding(Executor, {"stopping"})
  BY <1>0, <1>d, <1>2 DEF StopCommand, Proceed, Desk
<1>3. ASSUME NEW r \in Runs, Retry(r)
      PROVE  /\ Desk(caller'[r]) /\ caller'[r].stage = caller[r].stage
             /\ caller'[r].queue = <<run[r].msg>>
  <2>1. Sequence(<<run[r].msg>>)
    <3>1. PICK m : m = run[r].msg  OBVIOUS
    <3>2. <<m>> \in Seq({m})  OBVIOUS
    <3> QED  BY <3>1, <3>2 DEF Sequence
  <2>2. caller' = [caller EXCEPT ![r].queue = <<run[r].msg>>, ![r].retry = TRUE]  BY <1>3 DEF Retry
  <2> QED  BY <1>0, <1>d, <2>1, <2>2 DEF Desk
<1>4. ASSUME NEW r \in Runs, Settle(r), Files
      PROVE  /\ Desk(caller'[r]) /\ caller'[r].stage = caller[r].stage
             /\ run[r].interrupted => caller' = caller
             /\ ~ run[r].interrupted => caller'[r].queue = run[r].orphans
  <2>1. CASE run[r].interrupted
    BY <1>0, <1>d, <1>4, <2>1 DEF Settle, Desk
  <2>2. CASE ~ run[r].interrupted
    <3>1. caller' = [caller EXCEPT ![r].queue = run[r].orphans]  BY <1>4, <2>2 DEF Settle
    <3>2. Sequence(run[r].orphans)  BY <1>4 DEF Files, File
    <3> QED  BY <1>0, <1>d, <2>2, <3>1, <3>2 DEF Desk
  <2> QED  BY <2>1, <2>2
<1> QED  BY <1>1, <1>2, <1>3, <1>4


-----------------------------------------------------------------------------
(* Files and desks stay in order *)

\* A run that was launched stays launched, and one that has left stays away.
RunsGoOn ==
  \A r \in Runs : /\ run[r].stage # "none" => run'[r].stage # "none"
                  /\ run[r].stage = "gone" => run'[r].stage = "gone"

LEMMA FilesUntouched ==
  ASSUME Files, run' = run
  PROVE  Files' /\ RunsGoOn
BY DEF Files, RunsGoOn

LEMMA FilesEdited ==
  ASSUME Files, NEW r \in Runs, NEW S, Edit(r, S), File(run'[r]), run[r].stage # "none",
         "none" \notin S, run[r].stage = "gone" => S = {"gone"}
  PROVE  Files' /\ RunsGoOn
<1>1. \A x \in Runs : run'[x].stage # "none" <=> run[x].stage # "none"  BY DEF Edit
<1>2. \A x \in Runs : File(run'[x]) /\ (run'[x].stage = "none" => run'[x].ledger = <<>>)
  BY DEF Edit, Files
<1>3. RunsGoOn  BY DEF Edit, RunsGoOn
<1>4. PICK k \in 0 .. MaxRuns : \A x \in Runs : run[x].stage # "none" <=> x <= k  BY DEF Files
<1>5. \A x \in Runs : run'[x].stage # "none" <=> x <= k  BY <1>1, <1>4
<1> QED  BY <1>2, <1>3, <1>5 DEF Files

\* Runs are numbered as they are launched: the next one has never been used.
LEMMA NextRun ==
  ASSUME Files, NEW r \in Runs, r = 1 + Cardinality({x \in Runs : ~ Stage(x, {"none"})})
  PROVE  /\ run[r].stage = "none"
         /\ r \in 1 .. MaxRuns /\ \A x \in Runs : run[x].stage # "none" <=> x <= r - 1
<1>1. PICK k \in 0 .. MaxRuns : \A x \in Runs : run[x].stage # "none" <=> x <= k  BY DEF Files
<1>2. {x \in Runs : ~ Stage(x, {"none"})} = 1 .. k
  BY <1>1, SessionRunsAssumption DEF Runs, Stage
<1>3. Cardinality(1 .. k) = k  BY <1>1, SessionRunsAssumption, FS_Interval
<1>4. r = 1 + Cardinality(1 .. k)  BY <1>2, Zenon
<1>5. r = k + 1  BY <1>3, <1>4, SessionRunsAssumption
<1>6. r - 1 = k /\ ~ (r <= k) /\ r \in 1 .. MaxRuns  BY <1>5, SessionRunsAssumption DEF Runs
<1>7. \A x \in Runs : run[x].stage # "none" <=> x <= r - 1  BY <1>1, <1>6
<1>8. run[r].stage = "none"  BY <1>1, <1>6
<1> QED  BY <1>6, <1>7, <1>8

LEMMA LaunchFiles ==
  ASSUME Types, Files, NEW c \in Callers, Launch(c)
  PROVE  \E r \in Runs :
           /\ run[r].stage = "none" /\ current' = r
           /\ \A x \in Runs \ {r} : run'[x] = run[x]
           /\ run'[r].stage = "starting" /\ run'[r].msg = caller[c].msg
           /\ Files' /\ RunsGoOn
<1>1. PICK r \in Runs, steerable \in Steering :
        /\ r = 1 + Cardinality({x \in Runs : ~ Stage(x, {"none"})})
        /\ current' = r
        /\ run' = [run EXCEPT ![r] = NewRun(caller[c].msg, steerable, caller[c].retry)]
  BY DEF Launch
<1>2. PICK new : new = NewRun(caller[c].msg, steerable, caller[c].retry)  OBVIOUS
<1>3. File(new) /\ new.stage = "starting" /\ new.msg = caller[c].msg
  BY <1>2, EmptySequence DEF NewRun, File
<1>4. run[r].stage = "none" /\ r \in 1 .. MaxRuns /\ \A x \in Runs : run[x].stage # "none" <=> x <= r - 1
  BY <1>1, NextRun
<1>5. run'[r] = new /\ \A x \in Runs \ {r} : run'[x] = run[x]
  BY <1>1, <1>2 DEF Types, Handles
<1>6. \A x \in Runs : run'[x].stage # "none" <=> x <= r
  <2>1. \A x \in Runs \ {r} : x <= r - 1 <=> x <= r
    BY <1>4, SessionRunsAssumption DEF Runs
  <2> QED  BY <1>3, <1>4, <1>5, <2>1, SessionRunsAssumption DEF Runs
<1>7. \A x \in Runs : File(run'[x]) /\ (run'[x].stage = "none" => run'[x].ledger = <<>>)
  BY <1>3, <1>5 DEF Files
<1>8. r \in 0 .. MaxRuns  BY <1>4, SessionRunsAssumption
<1>9. Files'  BY <1>6, <1>7, <1>8 DEF Files
<1>10. RunsGoOn  BY <1>3, <1>4, <1>5 DEF RunsGoOn
<1> QED  BY <1>1, <1>3, <1>4, <1>5, <1>9, <1>10

LEMMA FilesOfTasks ==
  ASSUME Types, Files, NEW r \in Runs, Agent(r) \/ Task(r)
  PROVE  Files' /\ RunsGoOn
<1>0. Handles  BY DEF Types
<1> USE DEF Looping
<1>1. CASE \/ Started(r) \/ SelfContinues(r) \/ Quiesce(r) \/ ObserveCancel(r) \/ Ask(r)
           \/ EngineEvent(r) \/ TurnDone(r) \/ TurnFails(r) \/ ParkedEnds(r) \/ GraceOver(r)
           \/ Steered(r)
  <2>1. run[r].stage \in {"starting", "turn", "parked"}
    BY <1>1 DEF Started, SelfContinues, Quiesce, ObserveCancel, Ask, EngineEvent, TurnDone, TurnFails,
       ParkedEnds, GraceOver, Steered, Stage
  <2>2. Edit(r, {"turn", "parked", "ended"})
    BY <1>0, <1>1, EditsAtWork, EditsAtEnd DEF Edit
  <2>3. File(run'[r])
    BY <1>0, <1>1, QuietSteps, Written DEF Quiet
  <2> QED  BY <2>1, <2>2, <2>3, FilesEdited
<1>2. CASE StartFails(r) \/ Retry(r) \/ Claim(r) \/ Leave(r) \/ Settle(r)
  <2>1. run[r].stage \in {"starting", "ended", "claimed", "leaving"}
    BY <1>2 DEF StartFails, Retry, Claim, Leave, Settle, Stage
  <2>2. Edit(r, {"leaving", "gone", "claimed"})
    BY <1>0, <1>2, EditsAtEnd DEF Edit
  <2>3. File(run'[r])
    BY <1>0, <1>2, QuietSteps, Written DEF Quiet
  <2> QED  BY <2>1, <2>2, <2>3, FilesEdited
<1> QED  BY <1>1, <1>2 DEF Agent, Task

LEMMA FilesOfCallers ==
  ASSUME Types, Files, Desks, NEW c \in Callers, Call(c)
  PROVE  Files' /\ RunsGoOn
<1>0. Handles  BY DEF Types
<1>c. current # 0 => current \in Runs /\ run[current].stage \in Registrable
  BY SessionRunsAssumption DEF Types, Registered, Runs
<1>1. CASE Launch(c)  BY <1>1, LaunchFiles
<1>2. CASE run' = run  BY <1>2, FilesUntouched
<1>3. CASE PushLedger(c) \/ (Reclaim(c) /\ run' # run)
  <2>1. PICK r : r = caller[c].target  OBVIOUS
  <2>2. r \in Runs /\ Edit(r, {run[r].stage})  BY <1>3, <2>1, EditsBySenders
  <2>3. run[r].stage # "none"  BY <1>3, <2>1 DEF PushLedger, Reclaim, Desks, Sending
  <2>4. File(run'[r])  BY <1>0, <1>3, <2>1, <2>2, Written
  <2> QED  BY <2>2, <2>3, <2>4, FilesEdited
<1>4. CASE (Route(c) \/ Replace(c)) /\ run' # run
  <2>1. PICK r : r = current  OBVIOUS
  <2>2. /\ current # 0
        /\ run' = Interrupted(r) \/ \E m : run' = [run EXCEPT ![r].mailbox = Append(@, m)]
    BY <1>4, <2>1 DEF Route, Replace
  <2>3. r \in Runs /\ run[r].stage \in Registrable  BY <1>c, <2>1, <2>2
  <2>4. Edit(r, {run[r].stage})
    BY <1>0, <1>4, <2>1, <2>2, <2>3, EditsBySenders, EditsFromOutside DEF Replace
  <2>5. File(run'[r])  BY <1>0, <2>1, <2>2, <2>3, QuietSteps DEF Quiet
  <2> QED  BY <2>3, <2>4, <2>5, FilesEdited DEF Registrable
<1>5. NextOrphan(c) \/ Confirm(c) \/ ShowWorking(c) \/ StopWaited(c) \/ Refuse(c) => run' = run
  BY DEF NextOrphan, Confirm, ShowWorking, StopWaited, Refuse
<1> QED  BY <1>1, <1>2, <1>3, <1>4, <1>5 DEF Call

LEMMA FilesOfOthers ==
  ASSUME Types, Files,
         (\E how \in {"dispatch", "steer"} : Command(how)) \/ StopCommand \/ DenialStops \/ Answer
  PROVE  Files' /\ RunsGoOn
<1>0. Handles  BY DEF Types
<1>1. CASE run' = run  BY <1>1, FilesUntouched
<1>2. CASE run' # run
  <2>1. PICK r : r = current  OBVIOUS
  <2>2. current # 0 /\ (run' = Interrupted(r) \/ Answer)
    BY <1>2, <2>1 DEF Command, StopCommand, DenialStops, Answer
  <2>3. r \in Runs /\ run[r].stage \in Registrable
    BY <2>1, <2>2, SessionRunsAssumption DEF Types, Registered, Runs
  <2>4. Edit(r, {run[r].stage})  BY <1>0, <2>1, <2>2, <2>3, EditsFromOutside
  <2>5. File(run'[r])  BY <1>0, <2>1, <2>2, <2>3, QuietSteps DEF Quiet
  <2> QED  BY <2>3, <2>4, <2>5, FilesEdited DEF Registrable
<1> QED  BY <1>1, <1>2


LEMMA DesksUntouched ==
  ASSUME Types, Desks, RunsGoOn, caller' = caller
  PROVE  Desks'
<1>1. ASSUME NEW c \in Callers, caller[c].stage \in Sending PROVE run'[caller[c].target].stage # "none"
  <2>1. caller[c].target \in Runs  BY <1>1 DEF Types, Calls, CallShape, Sending
  <2> QED  BY <1>1, <2>1 DEF Desks, RunsGoOn
<1> QED  BY <1>1 DEF Desks, RunsGoOn

\* One caller moves: its queue shrinks and it goes on with what it does, or it is that of
\* a run that has left.
LEMMA DesksMoved ==
  ASSUME Types, Desks, RunsGoOn, NEW c \in Callers, Moves(c), Desk(caller'[c]),
         caller'[c].stage \in Sending => run'[caller'[c].target].stage # "none",
         \/ caller'[c].queue \in {<<>>, caller[c].queue}
         \/ c # Executor /\ (c \in Runs => run'[c].stage = "gone"),
         \/ caller[c].stage # "idle"
         \/ c \in Runs => run'[c].stage = "gone"
  PROVE  Desks'
<1>1. ASSUME NEW d \in Callers, caller'[d].stage \in Sending
      PROVE  run'[caller'[d].target].stage # "none"
  <2>1. CASE d = c  BY <1>1, <2>1
  <2>2. CASE d # c
    <3>1. caller'[d] = caller[d]  BY <2>2 DEF Moves
    <3>2. caller[d].target \in Runs  BY <1>1, <3>1 DEF Types, Calls, CallShape, Sending
    <3> QED  BY <1>1, <3>1, <3>2 DEF Desks, RunsGoOn
  <2> QED  BY <2>1, <2>2
<1>2. \A d \in Callers : Desk(caller'[d])  BY DEF Desks, Moves
<1>3. caller'[Executor].queue = <<>>
  <2>1. Executor \in Callers  BY DEF Callers
  <2> QED  BY <2>1 DEF Desks, Moves
<1>4. ASSUME NEW r \in Runs, run'[r].stage # "gone"
      PROVE  caller'[r].queue = <<>> /\ caller'[r].stage = "idle"
  <2>1. r \in Callers  BY DEF Callers
  <2>2. caller[r].queue = <<>> /\ caller[r].stage = "idle"  BY <1>4 DEF Desks, RunsGoOn
  <2>3. r # c  BY <1>4, <2>2
  <2> QED  BY <2>1, <2>2, <2>3 DEF Moves
<1> QED  BY <1>1, <1>2, <1>3, <1>4 DEF Desks

LEMMA DesksOfCallers ==
  ASSUME Types, Desks, RunsGoOn, NEW c \in Callers, Call(c)
  PROVE  Desks'
<1>0. CallShape(caller[c])  BY DEF Types, Calls
<1>i. \/ Route(c) \/ PushLedger(c) \/ Confirm(c) \/ Reclaim(c) \/ ShowWorking(c)
      \/ Replace(c) \/ StopWaited(c) \/ Refuse(c) \/ Launch(c)
      => caller[c].stage # "idle"
  BY DEF Route, PushLedger, Confirm, Reclaim, ShowWorking, Replace, StopWaited, Refuse, Launch
<1>1. CASE NextOrphan(c)
  <2>1. c # Executor /\ caller[c].queue # <<>>  BY <1>1 DEF NextOrphan
  <2>2. c \in Runs => run'[c].stage = "gone"  BY <2>1 DEF Desks, RunsGoOn
  <2>3. Moves(c) /\ Desk(caller'[c]) /\ caller'[c].stage = "route"
    BY <1>1, MovesOfCallers, DesksOfSenders
  <2> QED  BY <2>1, <2>2, <2>3, DesksMoved DEF Sending
<1>2. CASE Route(c)
  <2>1. Moves(c) /\ Desk(caller'[c]) /\ caller'[c].queue = caller[c].queue
    BY <1>2, MovesOfCallers, DesksOfSenders DEF Holding
  <2>2. ASSUME caller'[c].stage \in Sending PROVE run'[caller'[c].target].stage # "none"
    <3>1. caller'[c].target = current /\ current \in Runs
      BY <1>2, <2>2, DesksOfSenders DEF Holding, Sending
    <3>2. run[current].stage # "none"
      BY <3>1, SessionRunsAssumption DEF Types, Registered, Registrable, Runs
    <3> QED  BY <3>1, <3>2 DEF RunsGoOn
  <2> QED  BY <1>2, <1>i, <2>1, <2>2, DesksMoved
<1>3. CASE PushLedger(c) \/ Confirm(c)
  <2>1. Moves(c) /\ Desk(caller'[c]) /\ caller'[c].queue = caller[c].queue /\ caller'[c].target = caller[c].target
    BY <1>3, MovesOfCallers, DesksOfSenders DEF Holding
  <2>2. caller[c].stage \in Sending  BY <1>3 DEF PushLedger, Confirm, Sending
  <2>3. caller[c].target \in Runs  BY <1>0, <2>2 DEF CallShape, Sending
  <2>4. run'[caller[c].target].stage # "none"  BY <2>2, <2>3 DEF Desks, RunsGoOn
  <2> QED  BY <1>3, <1>i, <2>1, <2>4, DesksMoved
<1>4. CASE Reclaim(c) \/ ShowWorking(c) \/ Refuse(c) \/ Launch(c)
  <2>1. Moves(c)  BY <1>4, MovesOfCallers
  <2>2. /\ Desk(caller'[c]) /\ caller'[c].stage \in {"idle", "route", "replace"}
        /\ caller'[c].queue \in {<<>>, caller[c].queue}
    BY <1>4, DesksOfSenders, DesksOfDispatches DEF Holding, Free
  <2> QED  BY <1>4, <1>i, <2>1, <2>2, DesksMoved DEF Sending
<1>5. CASE Replace(c) \/ StopWaited(c)
  <2>1. Moves(c)  BY <1>5, MovesOfStops
  <2>2. /\ Desk(caller'[c]) /\ caller'[c].stage \in {"idle", "starting", "stopping"}
        /\ caller'[c].queue = caller[c].queue
    BY <1>5, DesksOfDispatches DEF Holding, Free
  <2> QED  BY <1>5, <1>i, <2>1, <2>2, DesksMoved DEF Sending
<1> QED  BY <1>1, <1>2, <1>3, <1>4, <1>5 DEF Call

LEMMA DesksOfTasks ==
  ASSUME Types, Files, Desks, RunsGoOn, NEW r \in Runs, Agent(r) \/ Task(r)
  PROVE  Desks'
<1>1. CASE Retry(r) \/ Settle(r)
  <2>1. r \in Callers /\ Moves(r) /\ caller'[r].stage = caller[r].stage /\ caller'[r].target = caller[r].target
    BY <1>1, MovesOfRuns
  <2>2. Desk(caller'[r])  BY <1>1, DesksOfOthers
  <2>3. ASSUME caller[r].stage \in Sending PROVE run'[caller[r].target].stage # "none"
    <3>1. caller[r].target \in Runs  BY <2>1, <2>3 DEF Types, Calls, CallShape, Sending
    <3> QED  BY <2>1, <2>3, <3>1 DEF Desks, RunsGoOn
  <2>4. run'[r].stage = "gone" /\ r # Executor
    BY <1>1, EditsAtEnd DEF Types, Edit, Runs, Executor
  <2> QED  BY <2>1, <2>2, <2>3, <2>4, DesksMoved
<1>2. CASE ~ (Retry(r) \/ Settle(r))
  <2>1. caller' = caller
    BY <1>2 DEF Agent, Task, Started, StartFails, Steered, SelfContinues, TurnDone, TurnFails,
       ParkedEnds, Ask, Quiesce, ObserveCancel, GraceOver, EngineEvent, Claim, Leave
  <2> QED  BY <2>1, DesksUntouched
<1> QED  BY <1>1, <1>2

LEMMA DesksOfCommands ==
  ASSUME Types, Desks, RunsGoOn,
         (\E how \in {"dispatch", "steer"} : Command(how)) \/ StopCommand \/ DenialStops \/ Answer
  PROVE  Desks'
<1>0. Executor \in Callers /\ Executor \notin Runs  BY MovesOfExecutor DEF Executor, Runs
<1>1. CASE \E how \in {"dispatch", "steer"} : Command(how)
  <2>1. Moves(Executor)  BY <1>1, MovesOfExecutor
  <2>2. Desk(caller'[Executor]) /\ caller'[Executor].stage = "route" /\ caller'[Executor].queue = <<>>
    BY <1>1, DesksOfOthers
  <2> QED  BY <1>0, <2>1, <2>2, DesksMoved DEF Sending
<1>2. CASE StopCommand
  <2>1. Moves(Executor)  BY <1>2, MovesOfExecutor
  <2>2. Holding(Executor, {"stopping"})  BY <1>2, DesksOfOthers
  <2> QED  BY <1>0, <2>1, <2>2, DesksMoved DEF Holding, Sending
<1>3. CASE DenialStops \/ Answer
  <2>1. caller' = caller  BY <1>3 DEF DenialStops, Answer
  <2> QED  BY <2>1, DesksUntouched
<1> QED  BY <1>1, <1>2, <1>3

LEMMA FiledStep ==
  ASSUME Types, Filed, [Next]_vars
  PROVE  Filed'
<1>0. Files /\ Desks /\ sent \in 0 .. MaxMessages  BY DEF Filed
<1>1. ASSUME NEW c \in Callers, Call(c) PROVE Filed'
  <2>1. Files' /\ RunsGoOn  BY <1>0, <1>1, FilesOfCallers
  <2>2. Desks'  BY <1>0, <1>1, <2>1, DesksOfCallers
  <2>3. sent' = sent
    BY <1>1 DEF Call, NextOrphan, Route, PushLedger, Confirm, Reclaim, ShowWorking, Replace, StopWaited,
       Refuse, Launch, bounds
  <2> QED  BY <1>0, <2>1, <2>2, <2>3 DEF Filed
<1>2. ASSUME NEW r \in Runs, Agent(r) \/ Task(r) PROVE Filed'
  <2>1. Files' /\ RunsGoOn  BY <1>0, <1>2, FilesOfTasks
  <2>2. Desks'  BY <1>0, <1>2, <2>1, DesksOfTasks
  <2>3. sent' = sent
    BY <1>2 DEF Agent, Task, Started, StartFails, Retry, Steered, SelfContinues, TurnDone, TurnFails,
       ParkedEnds, Ask, Quiesce, ObserveCancel, GraceOver, EngineEvent, Claim, Leave, Settle,
       taskVars, bounds
  <2> QED  BY <1>0, <2>1, <2>2, <2>3 DEF Filed
<1>3. ASSUME (\E how \in {"dispatch", "steer"} : Command(how)) \/ StopCommand \/ DenialStops \/ Answer
      PROVE  Filed'
  <2>1. Files' /\ RunsGoOn  BY <1>0, <1>3, FilesOfOthers
  <2>2. Desks'  BY <1>0, <1>3, <2>1, DesksOfCommands
  <2>3. sent' \in 0 .. MaxMessages
    <3>1. sent' = sent \/ (sent' = sent + 1 /\ sent < MaxMessages)
      BY <1>3 DEF Command, StopCommand, DenialStops, Answer, bounds
    <3> QED  BY <1>0, <3>1, SessionRunsAssumption
  <2> QED  BY <2>1, <2>2, <2>3 DEF Filed
<1>4. CASE UNCHANGED vars
  BY <1>4 DEF vars, bounds, Filed, Files, Desks
<1> QED  BY <1>1, <1>2, <1>3, <1>4 DEF Next

LEMMA FiledInit == Init => Types /\ Filed /\ EveryoneKept
<1> SUFFICES ASSUME Init PROVE Types /\ Filed /\ EveryoneKept  OBVIOUS
<1>1. Types  BY TypesInit
<1>2. Files
  <2>1. File(NoRun) /\ NoRun.stage = "none" /\ NoRun.ledger = <<>>
    BY EmptySequence DEF NoRun, NewRun, File
  <2>2. \A r \in Runs : run[r] = NoRun  BY DEF Init
  <2>3. 0 \in 0 .. MaxRuns /\ \A r \in Runs : ~ (r <= 0)  BY SessionRunsAssumption DEF Runs
  <2> QED  BY <2>1, <2>2, <2>3 DEF Files
<1>3. PICK revives \in Revives :
        /\ sent = IF revives THEN 1 ELSE 0
        /\ caller = [c \in Callers |->
                       IF c = Boot /\ revives THEN [NoCall EXCEPT !.queue = <<1>>] ELSE NoCall]
  BY DEF Init
<1>4. Sequence(<<1>>)
  <2>1. <<1>> \in Seq({1})  OBVIOUS
  <2> QED  BY <2>1 DEF Sequence
<1>5. Boot \notin Runs /\ Boot # Executor /\ Executor \in Callers /\ Boot \in Callers /\ Runs \subseteq Callers
      /\ Executor \notin Runs
  BY SessionRunsAssumption DEF Boot, Executor, Runs, Callers
<1>6. \A c \in Callers : Desk(caller[c]) /\ caller[c].stage = "idle" /\ (c # Boot => caller[c].queue = <<>>)
  BY <1>3, <1>4, EmptySequence DEF NoCall, Desk
<1>7. Desks  BY <1>5, <1>6 DEF Desks, Sending
<1>8. sent \in 0 .. MaxMessages  BY <1>3, SessionRunsAssumption
<1>9. EveryoneKept
  <2>1. ASSUME NEW m \in 1 .. sent PROVE Carries(Boot, m)
    <3>1. revives /\ m = 1  BY <1>3, <2>1, SessionRunsAssumption
    <3>2. caller[Boot].queue = <<1>>  BY <1>3, <1>5, <3>1 DEF NoCall
    <3>3. Contains(<<1>>, 1)  BY DEF Contains
    <3> QED  BY <3>1, <3>2, <3>3 DEF Carries
  <2> QED  BY <1>5, <2>1 DEF EveryoneKept, Kept
<1> QED  BY <1>1, <1>2, <1>7, <1>8, <1>9 DEF Filed


-----------------------------------------------------------------------------
(* Who answers for a message after a step *)

LEMMA MarkSettles ==
  ASSUME NEW ms, NEW f, f # "none", Mark(ms, f), NEW m \in Messages, m \in ms \/ fate[m] # "none"
  PROVE  fate'[m] # "none"
BY DEF Mark

LEMMA LostIsSettled == ASSUME NEW r PROVE Lost(r) # "none"
BY DEF Lost

\* One run changes: it still answers for the message, and so does its ledger.
LEMMA KeptEdit ==
  ASSUME Types, NEW m, Kept(m), caller' = caller, NEW r \in Runs,
         \A x \in Runs \ {r} : run'[x] = run[x],
         fate[m] # "none" => fate'[m] # "none",
         Holds(r, m) => Kept(m)',
         Contains(run[r].ledger, m) => Kept(m)' \/ Contains(run'[r].ledger, m)
  PROVE  Kept(m)'
<1>1. CASE fate[m] # "none"  BY <1>1 DEF Kept
<1>2. ASSUME NEW c \in Callers, Carries(c, m) PROVE Kept(m)'
  BY <1>2 DEF Kept, Carries
<1>3. ASSUME NEW c \in Callers, InHand(c, m) PROVE Kept(m)'
  <2>1. caller[c].target \in Runs  BY <1>3 DEF InHand, Types, Calls, CallShape
  <2>2. CASE caller[c].target = r  BY <1>3, <2>2 DEF InHand, Kept
  <2>3. CASE caller[c].target # r
    <3>1. InHand(c, m)'  BY <1>3, <2>1, <2>3 DEF InHand
    <3> QED  BY <3>1 DEF Kept
  <2> QED  BY <2>2, <2>3
<1>4. ASSUME NEW x \in Runs, Holds(x, m) PROVE Kept(m)'
  <2>1. CASE x # r
    <3>1. Holds(x, m)'  BY <1>4, <2>1 DEF Holds
    <3> QED  BY <3>1 DEF Kept
  <2> QED  BY <1>4, <2>1
<1> QED  BY <1>1, <1>2, <1>3, <1>4 DEF Kept

\* One caller moves.
LEMMA KeptMove ==
  ASSUME NEW m, Kept(m), run' = run, NEW c \in Callers, Moves(c),
         fate[m] # "none" => fate'[m] # "none",
         Carries(c, m) => Kept(m)',
         InHand(c, m) => Kept(m)'
  PROVE  Kept(m)'
<1>1. CASE fate[m] # "none"  BY <1>1 DEF Kept
<1>2. ASSUME NEW d \in Callers, d # c, Carries(d, m) \/ InHand(d, m) PROVE Kept(m)'
  <2>1. (Carries(d, m) \/ InHand(d, m))'  BY <1>2 DEF Carries, InHand, Moves
  <2> QED  BY <2>1 DEF Kept
<1>3. ASSUME NEW x \in Runs, Holds(x, m) PROVE Kept(m)'
  BY <1>3 DEF Holds, Kept
<1> QED  BY <1>1, <1>2, <1>3 DEF Kept

\* A caller moves and a run changes.
LEMMA KeptBoth ==
  ASSUME Types, NEW m, Kept(m), NEW c \in Callers, Moves(c), NEW r \in Runs,
         \A x \in Runs \ {r} : run'[x] = run[x],
         fate[m] # "none" => fate'[m] # "none",
         Carries(c, m) => Kept(m)',
         InHand(c, m) => Kept(m)',
         Holds(r, m) => Kept(m)',
         Contains(run[r].ledger, m) => Kept(m)' \/ Contains(run'[r].ledger, m)
  PROVE  Kept(m)'
<1>1. CASE fate[m] # "none"  BY <1>1 DEF Kept
<1>2. ASSUME NEW d \in Callers, d # c, Carries(d, m) PROVE Kept(m)'
  BY <1>2 DEF Kept, Carries, Moves
<1>3. ASSUME NEW d \in Callers, d # c, InHand(d, m) PROVE Kept(m)'
  <2>0. caller'[d] = caller[d]  BY <1>3 DEF Moves
  <2>1. caller[d].target \in Runs  BY <1>3 DEF InHand, Types, Calls, CallShape
  <2>2. CASE caller[d].target = r  BY <1>3, <2>0, <2>2 DEF InHand, Kept
  <2>3. CASE caller[d].target # r
    <3>1. InHand(d, m)'  BY <1>3, <2>0, <2>1, <2>3 DEF InHand
    <3> QED  BY <3>1 DEF Kept
  <2> QED  BY <2>2, <2>3
<1>4. ASSUME NEW x \in Runs, x # r, Holds(x, m) PROVE Kept(m)'
  <2>1. Holds(x, m)'  BY <1>4 DEF Holds
  <2> QED  BY <2>1 DEF Kept
<1> QED  BY <1>1, <1>2, <1>3, <1>4 DEF Kept

\* A run that stays on duty for what it holds.
SameDuty(r) ==
  /\ run[r].stage = "starting" => run'[r].stage = "starting"
  /\ run[r].stage \in {"turn", "parked", "ended"} => run'[r].stage \in {"turn", "parked", "ended"}
  /\ run[r].stage \in {"claimed", "leaving"} => run'[r].stage \in {"claimed", "leaving"}

LEMMA QuietHolds ==
  ASSUME NEW m, NEW r \in Runs, Quiet(r), SameDuty(r), Holds(r, m)
  PROVE  Holds(r, m)'
BY DEF Quiet, SameDuty, Holds

LEMMA QuietTasksKeep ==
  ASSUME Types, Files, NEW m, Kept(m), NEW r \in Runs,
         \/ SelfContinues(r) \/ Quiesce(r) \/ ObserveCancel(r) \/ Ask(r) \/ EngineEvent(r)
         \/ TurnDone(r) \/ TurnFails(r) \/ ParkedEnds(r) \/ GraceOver(r) \/ Leave(r)
  PROVE  Kept(m)'
<1>0. Handles  BY DEF Types
<1>1. fate' = fate /\ caller' = caller
  BY DEF SelfContinues, Quiesce, ObserveCancel, Ask, EngineEvent, TurnDone, TurnFails, ParkedEnds,
     GraceOver, Leave, history
<1>2. Quiet(r)  BY <1>0, QuietSteps
<1>3. SameDuty(r) /\ \A x \in Runs \ {r} : run'[x] = run[x]
  <2>1. CASE Leave(r)
    <3>1. run[r].stage = "claimed"  BY <2>1 DEF Leave, Stage
    <3> QED  BY <1>0, <2>1, <3>1, EditsAtEnd DEF Edit, SameDuty
  <2>2. CASE ~ Leave(r)
    <3>1. run[r].stage \in Looping
      BY <2>2 DEF SelfContinues, Quiesce, ObserveCancel, Ask, EngineEvent, TurnDone, TurnFails,
         ParkedEnds, GraceOver, Stage, Looping
    <3>2. Edit(r, {"turn", "parked", "ended"})
      BY <1>0, <2>2, EditsAtWork, EditsAtEnd DEF Edit, Looping
    <3> QED  BY <3>1, <3>2 DEF Edit, SameDuty, Looping
  <2> QED  BY <2>1, <2>2
<1>4. Holds(r, m) => Kept(m)'
  <2>1. Holds(r, m) => Holds(r, m)'  BY <1>2, <1>3, QuietHolds
  <2> QED  BY <2>1 DEF Kept
<1>5. run'[r].ledger = run[r].ledger  BY <1>2 DEF Quiet
<1> QED  BY <1>1, <1>3, <1>4, <1>5, KeptEdit

\* An entry that somebody can still take back, or that is given up for lost.
LEMMA AbandonedOrInHand ==
  ASSUME Files, NEW r \in Runs, NEW m, Contains(run[r].ledger, m)
  PROVE  \/ m \in Abandoned(r)
         \/ \E c \in Callers : caller[c].stage = "pushed" /\ caller[c].msg = m /\ caller[c].target = r
<1>1. Sequence(run[r].ledger)  BY DEF Files, File
<1>2. m \in ToSet(run[r].ledger)  BY <1>1, ContainsFacts
<1> QED  BY <1>2 DEF Abandoned

LEMMA StartsKeep ==
  ASSUME Types, Files, NEW m \in Messages, Kept(m), NEW r \in Runs, Started(r) \/ StartFails(r)
  PROVE  Kept(m)'
<1>0. Handles  BY DEF Types
<1>1. caller' = caller  BY DEF Started, StartFails
<1>2. Quiet(r)  BY <1>0, QuietSteps
<1>3. run[r].stage = "starting"  BY DEF Started, StartFails, Stage
<1>4. CASE Started(r)
  <2>1. Edit(r, {"turn"})  BY <1>0, <1>4, EditsAtWork
  <2>2. Mark({run[r].msg}, "ran")  BY <1>4 DEF Started
  <2>3. fate[m] # "none" \/ m = run[r].msg => fate'[m] # "none"  BY <2>2, MarkSettles
  <2>4. Contains(run[r].ledger, m) => Kept(m)'
    <3>1. Contains(run[r].ledger, m) => Holds(r, m)'  BY <1>2, <2>1 DEF Quiet, Edit, Holds
    <3> QED  BY <3>1 DEF Kept
  <2>5. Holds(r, m) => Kept(m)'  BY <1>3, <2>3, <2>4 DEF Holds, Kept
  <2> QED  BY <1>1, <2>1, <2>3, <2>4, <2>5, KeptEdit DEF Edit
<1>5. CASE StartFails(r)
  <2>1. Edit(r, {"leaving"})  BY <1>0, <1>5, EditsAtEnd
  <2>2. /\ fate[m] # "none" => fate'[m] # "none"
        /\ m = run[r].msg => fate'[m] # "none"
        /\ m \in Abandoned(r) => fate'[m] # "none"
    BY <1>5 DEF StartFails
  <2>3. Contains(run[r].ledger, m) => Kept(m)'
    <3>1. ASSUME NEW c \in Callers, caller[c].stage = "pushed", caller[c].msg = m, caller[c].target = r,
                 Contains(run[r].ledger, m)
          PROVE  Kept(m)'
      <4>1. InHand(c, m)'  BY <1>1, <1>2, <3>1 DEF InHand, Quiet
      <4> QED  BY <4>1 DEF Kept
    <3> QED  BY <2>2, <3>1, AbandonedOrInHand DEF Kept
  <2>4. Holds(r, m) => Kept(m)'  BY <1>3, <2>2, <2>3 DEF Holds, Kept
  <2> QED  BY <1>1, <2>1, <2>2, <2>3, <2>4, KeptEdit DEF Edit
<1> QED  BY <1>4, <1>5

LEMMA SteeredKeeps ==
  ASSUME Types, Files, NEW m \in Messages, Kept(m), NEW r \in Runs, Steered(r)
  PROVE  Kept(m)'
<1>0. Handles  BY DEF Types
<1>1. caller' = caller /\ run[r].stage \in {"turn", "parked"}  BY DEF Steered, Stage
<1>2. Edit(r, {"turn"})  BY <1>0, EditsAtWork
<1>3. PICK a : a = run[r].ledger  OBVIOUS
<1>4. Sequence(a)  BY <1>3 DEF Files, File
<1>5. run'[r].ledger = IF current = r /\ a # <<>> THEN Tail(a) ELSE a  BY <1>0, <1>3, Written
<1>6. /\ fate[m] # "none" => fate'[m] # "none"
      /\ current = r /\ a # <<>> /\ m = Head(a) => fate'[m] # "none"
  <2>1. fate'[m] = IF m = Head(run[r].mailbox) THEN "ran"
                   ELSE IF fate[m] = "none" /\ current = r /\ m \in Oldest(a) THEN "misfiled"
                   ELSE fate[m]
    BY <1>3 DEF Steered
  <2>2. a # <<>> /\ m = Head(a) => m \in Oldest(a)  BY Zenon DEF Oldest
  <2>3. fate[m] # "none" => fate'[m] # "none"  BY <2>1
  <2>4. ASSUME current = r, a # <<>>, m = Head(a) PROVE fate'[m] # "none"
    <3>1. m \in Oldest(a)  BY <2>2, <2>4
    <3> QED  BY <2>1, <2>4, <3>1
  <2> QED  BY <2>3, <2>4
<1>7. Contains(a, m) => fate'[m] # "none" \/ Contains(run'[r].ledger, m)
  <2>1. Contains(a, m) => a # <<>> /\ (m = Head(a) \/ Contains(Tail(a), m))
    BY <1>4, ContainsFacts
  <2> QED  BY <1>5, <1>6, <2>1
<1>8. Contains(a, m) => Kept(m)'
  <2>1. Contains(run'[r].ledger, m) => Holds(r, m)'  BY <1>2 DEF Edit, Holds
  <2> QED  BY <1>7, <2>1 DEF Kept
<1>9. Holds(r, m) => Kept(m)'  BY <1>1, <1>3, <1>8 DEF Holds
<1> QED  BY <1>1, <1>2, <1>3, <1>6, <1>8, <1>9, KeptEdit DEF Edit

LEMMA ClaimKeeps ==
  ASSUME Types, Files, NEW m \in Messages, Kept(m), NEW r \in Runs, Claim(r)
  PROVE  Kept(m)'
<1>0. Handles  BY DEF Types
<1>1. caller' = caller /\ run[r].stage = "ended"  BY DEF Claim, Stage
<1>2. Edit(r, {"claimed"})  BY <1>0, EditsAtEnd
<1>3. /\ run'[r].orphans = IF current = r THEN run[r].ledger ELSE <<>>
      /\ run'[r].ledger = IF current = r THEN <<>> ELSE run[r].ledger
  BY <1>0, Written
<1>4. Mark(IF current = r THEN {} ELSE Abandoned(r), Lost(r))  BY DEF Claim
<1>5. fate[m] # "none" => fate'[m] # "none"  BY <1>4, MarkSettles, LostIsSettled
<1>6. Contains(run[r].ledger, m) => Kept(m)'
  <2>1. CASE current = r
    <3>1. Contains(run[r].ledger, m) => Holds(r, m)'  BY <1>2, <1>3, <2>1 DEF Edit, Holds
    <3> QED  BY <3>1 DEF Kept
  <2>2. CASE current # r
    <3>1. m \in Abandoned(r) => fate'[m] # "none"  BY <1>4, <2>2, MarkSettles, LostIsSettled
    <3>2. ASSUME NEW c \in Callers, caller[c].stage = "pushed", caller[c].msg = m, caller[c].target = r,
                 Contains(run[r].ledger, m)
          PROVE  Kept(m)'
      <4>1. InHand(c, m)'  BY <1>1, <1>3, <2>2, <3>2 DEF InHand
      <4> QED  BY <4>1 DEF Kept
    <3> QED  BY <3>1, <3>2, AbandonedOrInHand DEF Kept
  <2> QED  BY <2>1, <2>2
<1>7. Holds(r, m) => Kept(m)'  BY <1>1, <1>6 DEF Holds
<1> QED  BY <1>1, <1>2, <1>5, <1>6, <1>7, KeptEdit DEF Edit

\* A run's last step hands what it holds to its own caller, unless it was stopped.
LEMMA GoneKeeps ==
  ASSUME Types, Files, Desks, NEW m \in Messages, Kept(m), NEW r \in Runs, Retry(r) \/ Settle(r)
  PROVE  Kept(m)'
<1>0. Handles  BY DEF Types
<1>1. /\ r \in Callers /\ Moves(r) /\ caller'[r].stage = caller[r].stage
      /\ caller'[r].msg = caller[r].msg /\ caller'[r].target = caller[r].target
  BY MovesOfRuns
<1>2. Edit(r, {"gone"}) /\ run'[r].ledger = run[r].ledger  BY <1>0, EditsAtEnd, Written
<1>3. run[r].stage \in {"starting", "leaving"}  BY DEF Retry, Settle, Stage
<1>4. caller[r].queue = <<>>  BY <1>3 DEF Desks
<1>5. ~ Contains(caller[r].queue, m)  BY <1>4, EmptySequence, ContainsFacts
<1>6. Carries(r, m) => Kept(m)'  BY <1>1, <1>5 DEF Carries, Kept
<1>7. InHand(r, m) => Kept(m)'
  <2>1. InHand(r, m) => caller[r].target \in Runs  BY <1>1 DEF InHand, Types, Calls, CallShape
  <2>2. InHand(r, m) => InHand(r, m)'  BY <1>1, <1>2, <2>1 DEF InHand, Edit
  <2> QED  BY <1>1, <2>2 DEF Kept
<1>8. CASE Retry(r)
  <2>1. Mark(Abandoned(r), "evaporated")  BY <1>8 DEF Retry
  <2>2. fate[m] # "none" \/ m \in Abandoned(r) => fate'[m] # "none"  BY <2>1, MarkSettles
  <2>3. Contains(run[r].ledger, m) => Kept(m)'
    <3>1. ASSUME NEW c \in Callers, caller[c].stage = "pushed", caller[c].msg = m, caller[c].target = r,
                 Contains(run[r].ledger, m)
          PROVE  Kept(m)'
      <4>1. InHand(c, m)'  BY <1>1, <1>2, <3>1 DEF InHand, Moves
      <4> QED  BY <4>1 DEF Kept
    <3> QED  BY <2>2, <3>1, AbandonedOrInHand DEF Kept
  <2>4. m = run[r].msg => Kept(m)'
    <3>1. caller'[r].queue = <<run[r].msg>>  BY <1>8, DesksOfOthers
    <3>2. m = run[r].msg => Carries(r, m)'  BY <3>1, EmptySequence, ContainsFacts DEF Carries
    <3> QED  BY <1>1, <3>2 DEF Kept
  <2>5. run[r].stage = "starting"  BY <1>8 DEF Retry, Stage
  <2>6. Holds(r, m) => Kept(m)'  BY <2>3, <2>4, <2>5 DEF Holds
  <2> QED  BY <1>1, <1>2, <1>6, <1>7, <2>2, <2>3, <2>6, KeptBoth DEF Edit
<1>9. CASE Settle(r)
  <2>1. /\ fate[m] # "none" => fate'[m] # "none"
        /\ run[r].interrupted /\ m \in ToSet(run[r].orphans) => fate'[m] # "none"
    <3>1. IF run[r].interrupted THEN Mark(ToSet(run[r].orphans), "stopped") ELSE fate' = fate
      BY <1>9 DEF Settle
    <3> QED  BY <3>1, MarkSettles
  <2>2. Contains(run[r].orphans, m) => Kept(m)'
    <3>1. CASE run[r].interrupted
      <4>1. Sequence(run[r].orphans)  BY DEF Files, File
      <4>2. Contains(run[r].orphans, m) => m \in ToSet(run[r].orphans)  BY <4>1, ContainsFacts
      <4> QED  BY <2>1, <3>1, <4>2 DEF Kept
    <3>2. CASE ~ run[r].interrupted
      <4>1. caller'[r].queue = run[r].orphans  BY <1>9, <3>2, DesksOfOthers
      <4>2. Contains(run[r].orphans, m) => Carries(r, m)'  BY <4>1 DEF Carries
      <4> QED  BY <1>1, <4>2 DEF Kept
    <3> QED  BY <3>1, <3>2
  <2>3. run[r].stage = "leaving"  BY <1>9 DEF Settle, Stage
  <2>4. Holds(r, m) => Kept(m)'  BY <2>2, <2>3 DEF Holds
  <2> QED  BY <1>1, <1>2, <1>6, <1>7, <2>1, <2>4, KeptBoth DEF Edit
<1> QED  BY <1>8, <1>9


LEMMA SendersKeep ==
  ASSUME Types, Files, Desks, NEW m \in Messages, Kept(m), NEW c \in Callers,
         NextOrphan(c) \/ PushLedger(c) \/ Confirm(c) \/ ShowWorking(c)
  PROVE  Kept(m)'
<1>0. Handles /\ CallShape(caller[c])  BY DEF Types, Calls
<1>m. Moves(c)  BY MovesOfCallers
<1>n. m # 0  BY SessionRunsAssumption DEF Messages
<1>q. Sequence(caller[c].queue)  BY DEF Desks, Desk
<1>1. CASE NextOrphan(c)
  <2>1. run' = run /\ fate' = fate /\ caller[c].stage = "idle"  BY <1>1 DEF NextOrphan, history
  <2>2. /\ caller'[c].stage = "route"
        /\ caller'[c].msg = Head(caller[c].queue) /\ caller'[c].queue = Tail(caller[c].queue)
    BY <1>1, DesksOfSenders
  <2>3. caller[c].msg = 0  BY <1>0, <2>1 DEF CallShape
  <2>4. Contains(caller[c].queue, m) => m = Head(caller[c].queue) \/ Contains(Tail(caller[c].queue), m)
    BY <1>q, ContainsFacts
  <2>5. Carries(c, m) => Carries(c, m)'  BY <1>n, <2>2, <2>3, <2>4 DEF Carries
  <2>6. ~ InHand(c, m)  BY <2>1 DEF InHand
  <2>7. Carries(c, m) => Kept(m)'  BY <2>5 DEF Kept
  <2> QED  BY <1>m, <2>1, <2>6, <2>7, KeptMove
<1>2. CASE PushLedger(c)
  <2>1. PICK r \in Runs : r = caller[c].target /\ Edit(r, {run[r].stage})
    BY <1>2, EditsBySenders
  <2>2. run'[r].msg = run[r].msg /\ run'[r].orphans = run[r].orphans
    BY <1>0, <1>2, <2>1, Written
  <2>3. PICK a : a = run[r].ledger  OBVIOUS
  <2>4. Sequence(a) /\ run'[r].ledger = Append(a, caller[c].msg)
    BY <1>0, <1>2, <2>1, <2>3, Written DEF Files, File
  <2>5. Contains(a, m) \/ m = caller[c].msg => Contains(run'[r].ledger, m)
    <3>1. PICK e : e = caller[c].msg  OBVIOUS
    <3>2. Contains(Append(a, e), e) /\ (Contains(a, m) => Contains(Append(a, e), m))
      BY <2>4, ContainsFacts
    <3> QED  BY <2>4, <3>1, <3>2
  <2>6. Holding(c, {"pushed"}) /\ caller'[c].target = r /\ caller[c].stage = "sent"
    BY <1>2, <2>1, DesksOfSenders DEF PushLedger
  <2>7. Carries(c, m) => (Carries(c, m) \/ InHand(c, m))'
    BY <2>5, <2>6 DEF Carries, InHand, Holding
  <2>8. Carries(c, m) => Kept(m)'  BY <2>7 DEF Kept
  <2>9. ~ InHand(c, m)  BY <2>6 DEF InHand
  <2>10. Holds(r, m) => Holds(r, m)'  BY <2>1, <2>2, <2>3, <2>5 DEF Edit, Holds
  <2>11. Holds(r, m) => Kept(m)'  BY <2>10 DEF Kept
  <2>12. fate' = fate  BY <1>2 DEF PushLedger, history
  <2> QED  BY <1>m, <2>1, <2>3, <2>5, <2>8, <2>9, <2>11, <2>12, KeptBoth DEF Edit
<1>3. CASE Confirm(c)
  <2>1. PICK r : r = caller[c].target  OBVIOUS
  <2>2. /\ run' = run /\ caller[c].stage = "pushed" /\ current = r
        /\ Mark(IF Stage(r, {"claimed"}) THEN {caller[c].msg} \cap ToSet(run[r].ledger) ELSE {}, Lost(r))
    BY <1>3, <2>1 DEF Confirm
  <2>3. r \in Runs /\ run[r].stage \in Registrable
    BY <1>0, <2>1, <2>2, SessionRunsAssumption DEF CallShape, Types, Registered, Runs
  <2>4. Holding(c, {"confirmed"})  BY <1>3, DesksOfSenders
  <2>5. fate[m] # "none" => fate'[m] # "none"  BY <2>2, MarkSettles, LostIsSettled
  <2>6. Carries(c, m) => Carries(c, m)'  BY <2>2, <2>4 DEF Carries, Holding
  <2>7. Carries(c, m) => Kept(m)'  BY <2>6 DEF Kept
  <2>8. InHand(c, m) => Kept(m)'
    <3>1. Sequence(run[r].ledger)  BY <2>3 DEF Files, File
    <3>2. InHand(c, m) => m = caller[c].msg /\ Contains(run[r].ledger, m) /\ m \in ToSet(run[r].ledger)
      BY <2>1, <3>1, ContainsFacts DEF InHand
    <3>3. CASE run[r].stage = "claimed"
      <4>1. InHand(c, m) => m \in {caller[c].msg} \cap ToSet(run[r].ledger)  BY <3>2
      <4>2. InHand(c, m) => fate'[m] # "none"
        BY <2>2, <3>3, <4>1, MarkSettles, LostIsSettled DEF Stage
      <4> QED  BY <4>2 DEF Kept
    <3>4. CASE run[r].stage # "claimed"
      <4>1. InHand(c, m) => Holds(r, m)'  BY <2>2, <2>3, <3>2, <3>4 DEF Holds, Registrable
      <4> QED  BY <2>3, <4>1 DEF Kept
    <3> QED  BY <3>3, <3>4
  <2> QED  BY <1>m, <2>2, <2>5, <2>7, <2>8, KeptMove
<1>4. CASE ShowWorking(c)
  <2>1. run' = run /\ fate' = fate /\ caller[c].stage = "confirmed"  BY <1>4 DEF ShowWorking, history
  <2>2. Free(c)  BY <1>4, DesksOfSenders
  <2>3. Carries(c, m) => Carries(c, m)'  BY <2>1, <2>2 DEF Carries, Free
  <2>4. Carries(c, m) => Kept(m)'  BY <2>3 DEF Kept
  <2>5. ~ InHand(c, m)  BY <2>1 DEF InHand
  <2> QED  BY <1>m, <2>1, <2>4, <2>5, KeptMove
<1> QED  BY <1>1, <1>2, <1>3, <1>4

\* The entry is taken back and the message is in its sender's hands again; the ledger
\* keeps the others.
LEMMA ReclaimKeeps ==
  ASSUME Types, Files, Desks, NEW m \in Messages, Kept(m), NEW c \in Callers, Reclaim(c)
  PROVE  Kept(m)'
<1>0. Handles /\ CallShape(caller[c])  BY DEF Types, Calls
<1>m. Moves(c)  BY MovesOfCallers
<1>1. PICK r : r = caller[c].target  OBVIOUS
<1>2. fate' = fate /\ caller[c].stage = "pushed"  BY DEF Reclaim
<1>3. r \in Runs  BY <1>0, <1>1, <1>2 DEF CallShape
<1>4. CASE Contains(run[r].ledger, caller[c].msg)
  <2>1. Holding(c, {"route", "replace"})  BY <1>1, <1>4, DesksOfSenders
  <2>2. m = caller[c].msg \/ Carries(c, m) => Carries(c, m)'
    BY <1>2, <2>1 DEF Carries, Holding
  <2>3. m = caller[c].msg \/ Carries(c, m) => Kept(m)'  BY <2>2 DEF Kept
  <2>4. InHand(c, m) => Kept(m)'  BY <2>3 DEF InHand
  <2>5. CASE run' = run
    BY <1>m, <1>2, <2>3, <2>4, <2>5, KeptMove
  <2>6. CASE run' # run
    <3>1. Edit(r, {run[r].stage})  BY <1>1, <2>6, EditsBySenders
    <3>2. PICK a : a = run[r].ledger  OBVIOUS
    <3>3. /\ run'[r].msg = run[r].msg /\ run'[r].orphans = run[r].orphans
          /\ run'[r].ledger = RemoveFirst(a, caller[c].msg) /\ Sequence(a)
      BY <1>0, <1>1, <1>3, <2>6, <3>2, Written DEF Files, File
    <3>4. Contains(a, m) => m = caller[c].msg \/ Contains(run'[r].ledger, m)
      BY <3>3, SequenceFirstRemoved
    <3>5. Holds(r, m) => m = caller[c].msg \/ Holds(r, m)'
      BY <3>1, <3>2, <3>3, <3>4 DEF Edit, Holds
    <3>6. Holds(r, m) => Kept(m)'  BY <1>3, <2>3, <3>5 DEF Kept
    <3>7. Contains(run[r].ledger, m) => Kept(m)' \/ Contains(run'[r].ledger, m)
      BY <2>3, <3>2, <3>4
    <3> QED  BY <1>m, <1>2, <1>3, <2>3, <2>4, <3>1, <3>6, <3>7, KeptBoth DEF Edit
  <2> QED  BY <2>5, <2>6
<1>5. CASE ~ Contains(run[r].ledger, caller[c].msg)
  <2>1. run' = run /\ Free(c)  BY <1>1, <1>5, DesksOfSenders DEF Reclaim
  <2>2. Carries(c, m) => Carries(c, m)'  BY <1>2, <2>1 DEF Carries, Free
  <2>3. Carries(c, m) => Kept(m)'  BY <2>2 DEF Kept
  <2>4. ~ InHand(c, m)  BY <1>1, <1>5 DEF InHand
  <2> QED  BY <1>m, <1>2, <2>1, <2>3, <2>4, KeptMove
<1> QED  BY <1>4, <1>5

LEMMA QuietCallsKeep ==
  ASSUME Types, Files, Desks, NEW m \in Messages, Kept(m), NEW c \in Callers,
         Route(c) \/ Replace(c) \/ StopWaited(c)
  PROVE  Kept(m)'
<1>0. Handles /\ CallShape(caller[c])  BY DEF Types, Calls
<1>m. Moves(c)  BY MovesOfCallers, MovesOfStops
<1>n. m # 0  BY SessionRunsAssumption DEF Messages
<1>1. /\ fate' = fate
      /\ caller[c].stage \in {"route", "replace", "stopping"}
  BY DEF Route, Replace, StopWaited, history
<1>2. \/ Holding(c, {"sent", "route", "starting", "replace", "stopping"})
      \/ caller[c].msg = 0 /\ Free(c)
  BY DesksOfSenders, DesksOfDispatches DEF Holding
<1>3. Carries(c, m) => Carries(c, m)'  BY <1>n, <1>1, <1>2 DEF Carries, Holding, Free
<1>4. Carries(c, m) => Kept(m)'  BY <1>3 DEF Kept
<1>5. ~ InHand(c, m)  BY <1>1 DEF InHand
<1>6. CASE run' = run  BY <1>m, <1>1, <1>4, <1>5, <1>6, KeptMove
<1>7. CASE run' # run
  <2>1. PICK r : r = current  OBVIOUS
  <2>2. current # 0 /\ (run' = Interrupted(r) \/ \E e : run' = [run EXCEPT ![r].mailbox = Append(@, e)])
    BY <1>7, <2>1 DEF Route, Replace, StopWaited
  <2>3. r \in Runs  BY <2>1, <2>2, SessionRunsAssumption DEF Types, Registered, Runs
  <2>4. Edit(r, {run[r].stage})
    <3>1. CASE Route(c)  BY <1>7, <2>1, <3>1, EditsBySenders
    <3>2. CASE Replace(c)
      <4>1. run' = Interrupted(r)  BY <1>7, <2>1, <3>2 DEF Replace
      <4> QED  BY <1>0, <2>3, <4>1, EditsFromOutside
    <3> QED  BY <1>7, <3>1, <3>2 DEF StopWaited
  <2>5. Quiet(r)  BY <1>0, <2>1, <2>2, <2>3, QuietSteps
  <2>6. SameDuty(r)  BY <2>4 DEF Edit, SameDuty
  <2>7. Holds(r, m) => Holds(r, m)'  BY <2>3, <2>5, <2>6, QuietHolds
  <2>8. Holds(r, m) => Kept(m)'  BY <2>3, <2>7 DEF Kept
  <2>9. run'[r].ledger = run[r].ledger  BY <2>5 DEF Quiet
  <2> QED  BY <1>m, <1>1, <1>4, <1>5, <2>3, <2>4, <2>8, <2>9, KeptBoth DEF Edit
<1> QED  BY <1>6, <1>7


\* A message goes to a fresh run, or is refused with all that the caller still had.
LEMMA DispatchesKeep ==
  ASSUME Types, Files, Desks, NEW m \in Messages, Kept(m), NEW c \in Callers, Launch(c) \/ Refuse(c)
  PROVE  Kept(m)'
<1>m. Moves(c)  BY MovesOfCallers
<1>s. caller[c].stage = "starting"  BY DEF Launch, Refuse
<1>1. ~ InHand(c, m)  BY <1>s DEF InHand
<1>2. CASE Launch(c)
  <2>1. PICK r \in Runs :
          /\ run[r].stage = "none" /\ \A x \in Runs \ {r} : run'[x] = run[x]
          /\ run'[r].stage = "starting" /\ run'[r].msg = caller[c].msg
    BY <1>2, LaunchFiles
  <2>2. fate' = fate /\ Free(c)  BY <1>2, DesksOfDispatches DEF Launch, history
  <2>3. Carries(c, m) => (Carries(c, m)' \/ Holds(r, m)')
    BY <2>1, <2>2 DEF Carries, Free, Holds
  <2>4. Carries(c, m) => Kept(m)'  BY <2>3 DEF Kept
  <2>5. ~ Holds(r, m)  BY <2>1 DEF Holds
  <2>6. ~ Contains(run[r].ledger, m)
    <3>1. run[r].ledger = <<>>  BY <2>1 DEF Files
    <3> QED  BY <3>1, EmptySequence, ContainsFacts
  <2> QED  BY <1>m, <1>1, <2>1, <2>2, <2>4, <2>5, <2>6, KeptBoth
<1>3. CASE Refuse(c)
  <2>1. run' = run /\ Mark({caller[c].msg} \cup ToSet(caller[c].queue), "refused")
    BY <1>3 DEF Refuse
  <2>2. fate[m] # "none" => fate'[m] # "none"  BY <2>1, MarkSettles
  <2>3. Carries(c, m) => m \in {caller[c].msg} \cup ToSet(caller[c].queue)
    <3>1. Sequence(caller[c].queue)  BY DEF Desks, Desk
    <3>2. Contains(caller[c].queue, m) => m \in ToSet(caller[c].queue)  BY <3>1, ContainsFacts
    <3> QED  BY <3>2 DEF Carries
  <2>4. Carries(c, m) => fate'[m] # "none"  BY <2>1, <2>3, MarkSettles
  <2>5. Carries(c, m) => Kept(m)'  BY <2>4 DEF Kept
  <2> QED  BY <1>m, <1>1, <2>1, <2>2, <2>5, KeptMove
<1> QED  BY <1>2, <1>3

\* The executor takes commands with nothing in its hands; stops, denials and answers
\* leave ledgers alone.
LEMMA CommandsKeep ==
  ASSUME Types, Files, Desks, NEW m \in Messages, Kept(m),
         (\E how \in {"dispatch", "steer"} : Command(how)) \/ StopCommand \/ DenialStops \/ Answer
  PROVE  Kept(m)'
<1>0. Handles /\ Executor \in Callers /\ CallShape(caller[Executor])
  BY MovesOfExecutor DEF Types, Calls
<1>n. m # 0  BY SessionRunsAssumption DEF Messages
<1>1. fate' = fate  BY DEF Command, StopCommand, DenialStops, Answer, history
<1>2. CASE run' # run
  <2>1. PICK r : r = current  OBVIOUS
  <2>2. current # 0 /\ (run' = Interrupted(r) \/ Answer)
    BY <1>2, <2>1 DEF Command, StopCommand, DenialStops, Answer
  <2>3. r \in Runs  BY <2>1, <2>2, SessionRunsAssumption DEF Types, Registered, Runs
  <2>4. Edit(r, {run[r].stage})  BY <1>0, <2>1, <2>2, <2>3, EditsFromOutside
  <2>5. Quiet(r)  BY <1>0, <2>1, <2>2, <2>3, QuietSteps
  <2>6. SameDuty(r)  BY <2>4 DEF Edit, SameDuty
  <2>7. Holds(r, m) => Holds(r, m)'  BY <2>3, <2>5, <2>6, QuietHolds
  <2>8. Holds(r, m) => Kept(m)'  BY <2>3, <2>7 DEF Kept
  <2>9. run'[r].ledger = run[r].ledger  BY <2>5 DEF Quiet
  <2>10. CASE StopCommand
    <3>1. Moves(Executor) /\ Holding(Executor, {"stopping"}) /\ caller[Executor].stage = "idle"
      BY <2>10, MovesOfExecutor, DesksOfOthers DEF StopCommand
    <3>2. Carries(Executor, m) => Carries(Executor, m)'  BY <3>1 DEF Carries, Holding
    <3>3. Carries(Executor, m) => Kept(m)'  BY <1>0, <3>2 DEF Kept
    <3>4. ~ InHand(Executor, m)  BY <3>1 DEF InHand
    <3> QED  BY <1>0, <1>1, <2>3, <2>4, <2>8, <2>9, <3>1, <3>3, <3>4, KeptBoth DEF Edit
  <2>11. CASE DenialStops \/ Answer
    <3>1. caller' = caller  BY <2>11 DEF DenialStops, Answer
    <3> QED  BY <1>1, <2>3, <2>4, <2>8, <2>9, <3>1, KeptEdit DEF Edit
  <2> QED  BY <1>2, <2>10, <2>11 DEF Command
<1>3. CASE run' = run /\ ~ StopCommand
  <2>1. CASE \E how \in {"dispatch", "steer"} : Command(how)
    <3>1. Moves(Executor) /\ caller[Executor].stage = "idle"  BY <2>1, MovesOfExecutor DEF Command
    <3>2. caller[Executor].msg = 0 /\ caller[Executor].queue = <<>>
      BY <1>0, <3>1 DEF CallShape, Desks
    <3>3. ~ Carries(Executor, m)  BY <1>n, <3>2, EmptySequence, ContainsFacts DEF Carries
    <3>4. ~ InHand(Executor, m)  BY <3>1 DEF InHand
    <3> QED  BY <1>0, <1>1, <1>3, <3>1, <3>3, <3>4, KeptMove
  <2>2. CASE DenialStops \/ Answer
    <3>1. caller' = caller  BY <2>2 DEF DenialStops, Answer
    <3> QED  BY <1>1, <1>3, <3>1 DEF Kept, Carries, InHand, Holds
  <2> QED  BY <1>3, <2>1, <2>2
<1>4. CASE run' = run /\ StopCommand
  <2>1. Moves(Executor) /\ Holding(Executor, {"stopping"}) /\ caller[Executor].stage = "idle"
    BY <1>4, MovesOfExecutor, DesksOfOthers DEF StopCommand
  <2>2. Carries(Executor, m) => Carries(Executor, m)'  BY <2>1 DEF Carries, Holding
  <2>3. Carries(Executor, m) => Kept(m)'  BY <1>0, <2>2 DEF Kept
  <2>4. ~ InHand(Executor, m)  BY <2>1 DEF InHand
  <2> QED  BY <1>0, <1>1, <1>4, <2>1, <2>3, <2>4, KeptMove
<1> QED  BY <1>2, <1>3, <1>4

LEMMA KeptInvStep ==
  ASSUME Types, Filed, EveryoneKept, [Next]_vars
  PROVE  EveryoneKept'
<1>0. Files /\ Desks /\ sent \in 0 .. MaxMessages  BY DEF Filed
<1>1. \A m \in 1 .. sent : m \in Messages /\ Kept(m)
  BY <1>0, SessionRunsAssumption DEF EveryoneKept, Messages
<1>2. ASSUME NEW m \in Messages, Kept(m) PROVE Kept(m)'
  <2>1. ASSUME NEW c \in Callers, Call(c) PROVE Kept(m)'
    BY <1>0, <1>2, <2>1, SendersKeep, ReclaimKeeps, QuietCallsKeep, DispatchesKeep DEF Call
  <2>2. ASSUME NEW r \in Runs, Agent(r) \/ Task(r) PROVE Kept(m)'
    BY <1>0, <1>2, <2>2, QuietTasksKeep, StartsKeep, SteeredKeeps, ClaimKeeps, GoneKeeps DEF Agent, Task
  <2>3. CASE UNCHANGED vars
    BY <1>2, <2>3 DEF vars, history, Kept, Carries, InHand, Holds
  <2> QED  BY <1>0, <1>2, <2>1, <2>2, <2>3, CommandsKeep DEF Next
<1>3. CASE sent' = sent
  BY <1>1, <1>2, <1>3 DEF EveryoneKept
<1>4. ASSUME NEW how \in {"dispatch", "steer"}, Command(how) PROVE EveryoneKept'
  <2>1. PICK n : n = sent + 1  OBVIOUS
  <2>2. sent' = n  BY <1>4, <2>1 DEF Command
  <2>3. caller'[Executor].stage = "route" /\ caller'[Executor].msg = n
    BY <1>0, <1>4, <2>1, DesksOfOthers
  <2>4. Carries(Executor, n)'  BY <2>3 DEF Carries
  <2>5. Kept(n)'  BY <2>4, MovesOfExecutor DEF Kept
  <2>6. \A m \in 1 .. n : m \in 1 .. sent \/ m = n  BY <1>0, <2>1
  <2> QED  BY <1>1, <1>2, <2>2, <2>5, <2>6 DEF EveryoneKept
<1>5. sent' = sent \/ \E how \in {"dispatch", "steer"} : Command(how)
  BY DEF Next, Call, NextOrphan, Route, PushLedger, Confirm, Reclaim, ShowWorking, Replace, StopWaited,
     Refuse, Launch, bounds, Agent, Task, Started, StartFails, Retry, Steered, SelfContinues, TurnDone,
     TurnFails, ParkedEnds, Ask, Quiesce, ObserveCancel, GraceOver, EngineEvent, Claim, Leave, Settle,
     taskVars, StopCommand, DenialStops, Answer, vars
<1> QED  BY <1>3, <1>4, <1>5

-----------------------------------------------------------------------------
(* The status tells the truth *)

\* A run has not come up, and its own caller is about to start it once more.
Waiting(r) ==
  /\ caller[r].retry
  /\ \/ caller[r].stage = "idle" /\ caller[r].queue # <<>>
     \/ caller[r].stage \in {"route", "starting"}

Busy(r) == run[r].stage # "parked" \/ run[r].mailbox # <<>>

\* Why the session says Working.  What StatusIsTrue lets pass is more: a caller at any
\* stage, whatever the map holds.
Shows ==
  \/ current # 0 /\ Busy(current)
  \/ \E r \in Runs : run[r].stage = "leaving"
  \/ current = 0 /\ \E r \in Runs : Waiting(r)

AtRest == current # 0 => run[current].stage \notin {"starting", "turn"}

TrueStatus == ~ misled => IF Active THEN Shows ELSE AtRest

\* A run that still shows what it showed.
StageOn(r) ==
  /\ run[r].stage = "leaving" => run'[r].stage = "leaving"
  /\ Busy(r) => Busy(r)'
  /\ run'[r].stage \in {"starting", "turn"} => run[r].stage \in {"starting", "turn"}

LEMMA StatusKept ==
  ASSUME Types, TrueStatus, status' = status, misled' = misled, current' = current,
         \A r \in Runs : StageOn(r),
         \A r \in Runs : current = 0 /\ Waiting(r) => Waiting(r)'
  PROVE  TrueStatus'
<1>0. current # 0 => current \in Runs
  BY SessionRunsAssumption DEF Types, Registered, Runs
<1>1. current # 0 => StageOn(current) /\ (Busy(current) => Busy(current)')
  BY <1>0 DEF StageOn, Busy
<1>2. Shows => Shows'
  BY <1>1 DEF Shows, StageOn
<1>3. AtRest => AtRest'  BY <1>1 DEF AtRest, StageOn
<1> QED  BY <1>2, <1>3 DEF TrueStatus, Active

\* A step that writes the status for the run it is about.
LEMMA StatusWritten ==
  ASSUME NEW r \in Runs,
         misled' \/ (current' = r /\ IF Active' THEN Busy(r)' ELSE run'[r].stage \notin {"starting", "turn"})
  PROVE  TrueStatus'
<1>1. r # 0  BY SessionRunsAssumption DEF Runs
<1>2. CASE misled'  BY <1>2 DEF TrueStatus
<1>3. CASE current' = r /\ Active' /\ Busy(r)'
  <2>1. Busy(current)'  BY <1>3 DEF Busy
  <2> QED  BY <1>1, <1>3, <2>1 DEF TrueStatus, Shows
<1>4. CASE current' = r /\ ~ Active' /\ run'[r].stage \notin {"starting", "turn"}
  BY <1>4 DEF TrueStatus, AtRest
<1> QED  BY <1>2, <1>3, <1>4

\* Edits that leave the stage and the mailbox alone.
LEMMA MailKept ==
  ASSUME Handles, NEW r \in Runs,
         \/ ObserveCancel(r) \/ Ask(r) \/ EngineEvent(r) \/ run' = Interrupted(r)
         \/ current = r /\ Answer
         \/ \E c \in Callers : caller[c].target = r /\ run' # run /\ (PushLedger(c) \/ Reclaim(c))
  PROVE  run'[r].stage = run[r].stage /\ run'[r].mailbox = run[r].mailbox
<1>0. {"stage", "mailbox"} \subseteq DOMAIN run[r] /\ DOMAIN run = Runs  BY DEF Handles, Handle
<1> USE <1>0
<1>1. CASE ObserveCancel(r)  BY <1>1 DEF ObserveCancel
<1>2. CASE Ask(r)
  <2>1. PICK q : run' = [run EXCEPT ![r].pending = q, ![r].engine = Append(@, [event |-> "asked", of |-> q])]
    BY <1>2 DEF Ask
  <2> QED  BY <2>1
<1>3. CASE EngineEvent(r)
  <2>1. \/ run' = [run EXCEPT ![r].engine = Tail(@)]
        \/ run' = [[run EXCEPT ![r].engine = Tail(@)] EXCEPT ![r].pending = NoQuestion]
        \/ run' = [[run EXCEPT ![r].engine = Tail(@)] EXCEPT ![r].unresolved = TRUE]
        \/ run' = [[run EXCEPT ![r].engine = Tail(@)] EXCEPT ![r].unresolved = FALSE]
    BY <1>3 DEF EngineEvent
  <2>2. CASE run' = [run EXCEPT ![r].engine = Tail(@)]  BY <2>2
  <2>3. CASE run' = [[run EXCEPT ![r].engine = Tail(@)] EXCEPT ![r].pending = NoQuestion]  BY <2>3
  <2>4. CASE run' = [[run EXCEPT ![r].engine = Tail(@)] EXCEPT ![r].unresolved = TRUE]  BY <2>4
  <2>5. CASE run' = [[run EXCEPT ![r].engine = Tail(@)] EXCEPT ![r].unresolved = FALSE]  BY <2>5
  <2> QED  BY <2>1, <2>2, <2>3, <2>4, <2>5
<1>4. CASE run' = Interrupted(r)  BY <1>4 DEF Interrupted
<1>5. CASE current = r /\ Answer  BY <1>5 DEF Answer
<1>6. ASSUME NEW c \in Callers, caller[c].target = r, run' # run, PushLedger(c) \/ Reclaim(c)
      PROVE  run'[r].stage = run[r].stage /\ run'[r].mailbox = run[r].mailbox
  <2>1. \/ run' = [run EXCEPT ![r].ledger = Append(@, caller[c].msg)]
        \/ run' = [run EXCEPT ![r].ledger = RemoveFirst(@, caller[c].msg)]
    BY <1>6 DEF PushLedger, Reclaim
  <2> QED  BY <2>1
<1> QED  BY <1>1, <1>2, <1>3, <1>4, <1>5, <1>6

LEMMA StatusOfWriters ==
  ASSUME Types, TrueStatus, NEW r \in Runs,
         SelfContinues(r) \/ Steered(r) \/ Quiesce(r) \/ Settle(r)
  PROVE  TrueStatus'
<1>0. Handles /\ Handle(run[r])  BY DEF Types, Handles
<1>1. CASE SelfContinues(r) \/ Steered(r)
  <2>1. run'[r].stage = "turn"  BY <1>0, <1>1, EditsAtWork DEF Edit
  <2>2. current' = current /\ SetStatus("working", r)  BY <1>1 DEF SelfContinues, Steered
  <2>3. Active' /\ (misled' \/ current' = r)  BY <2>2 DEF SetStatus, Active
  <2>4. Busy(r)'  BY <2>1 DEF Busy
  <2> QED  BY <2>3, <2>4, StatusWritten
<1>2. CASE Quiesce(r)
  <2>1. run'[r].stage = "parked"  BY <1>0, <1>2, EditsAtWork DEF Edit
  <2>2. current' = current /\ SetStatus("idle", r)  BY <1>2 DEF Quiesce
  <2>3. ~ Active' /\ (misled' \/ current' = r)  BY <2>2 DEF SetStatus, Active
  <2> QED  BY <2>1, <2>3, StatusWritten
<1>3. CASE Settle(r)
  <2>1. status' \in {"idle", "errored"} /\ misled' = (current # 0) /\ current' = current
    BY <1>0, <1>3 DEF Settle, Handle
  <2> QED  BY <2>1 DEF TrueStatus, AtRest, Active
<1> QED  BY <1>1, <1>2, <1>3

LEMMA StatusOfTurns ==
  ASSUME Types, TrueStatus, NEW r \in Runs,
         \/ Started(r) \/ TurnDone(r) \/ TurnFails(r) \/ ParkedEnds(r) \/ Ask(r) \/ ObserveCancel(r)
         \/ GraceOver(r) \/ EngineEvent(r) \/ Claim(r)
  PROVE  TrueStatus'
<1>0. Handles /\ Handle(run[r])  BY DEF Types, Handles
<1>1. current' = current /\ caller' = caller
  BY DEF Started, TurnDone, TurnFails, ParkedEnds, Ask, ObserveCancel, GraceOver, EngineEvent, Claim
<1>2. ASSUME status' = status, misled' = misled, \A x \in Runs \ {r} : run'[x] = run[x], StageOn(r)
      PROVE  TrueStatus'
  <2>1. \A x \in Runs : StageOn(x)  BY <1>2 DEF StageOn, Busy
  <2>2. \A x \in Runs : Waiting(x) => Waiting(x)'  BY <1>1 DEF Waiting
  <2> QED  BY <1>1, <1>2, <2>1, <2>2, StatusKept
<1>3. CASE Started(r)
  <2>1. Edit(r, {"turn"}) /\ run[r].stage = "starting" /\ status' = status /\ misled' = misled
    BY <1>0, <1>3, EditsAtWork DEF Started, Stage
  <2>2. StageOn(r)  BY <2>1 DEF Edit, StageOn, Busy
  <2> QED  BY <1>2, <2>1, <2>2 DEF Edit
<1>4. CASE TurnDone(r)
  <2>1. Edit(r, {"parked", "ended"}) /\ run[r].stage \in Looping
    BY <1>0, <1>4, EditsAtEnd DEF TurnDone, Stage
  <2>2. CASE run[r].steerable /\ ~ run[r].interrupted
    <3>1. SetStatus("idle", r)  BY <1>4, <2>2 DEF TurnDone
    <3>2. ~ Active' /\ (misled' \/ current' = r)  BY <1>1, <3>1 DEF SetStatus, Active
    <3>3. run'[r].stage \notin {"starting", "turn"}  BY <2>1 DEF Edit
    <3> QED  BY <3>2, <3>3, StatusWritten
  <2>3. CASE ~ (run[r].steerable /\ ~ run[r].interrupted)
    <3>1. status' = status /\ misled' = misled /\ run' = Ended(Drained(run, r), r, "idle")
      BY <1>4, <2>3 DEF TurnDone
    <3>2. run'[r].stage = "ended"
      BY <1>0, <3>1 DEF Ended, Drained, Handles, Handle
    <3>3. StageOn(r)  BY <2>1, <3>2 DEF StageOn, Busy, Looping
    <3> QED  BY <1>2, <2>1, <3>1, <3>3 DEF Edit
  <2> QED  BY <2>2, <2>3
<1>5. CASE TurnFails(r) \/ ParkedEnds(r) \/ GraceOver(r) \/ Claim(r)
  <2>1. /\ Edit(r, {"ended", "claimed"}) /\ run[r].stage \in {"turn", "parked", "ended"}
        /\ status' = status /\ misled' = misled
    BY <1>0, <1>5, EditsAtEnd DEF TurnFails, ParkedEnds, GraceOver, Claim, Stage, Looping, Edit
  <2>2. StageOn(r)  BY <2>1 DEF Edit, StageOn, Busy
  <2> QED  BY <1>2, <2>1, <2>2 DEF Edit
<1>6. CASE Ask(r) \/ ObserveCancel(r) \/ EngineEvent(r)
  <2>1. /\ Edit(r, Looping)
        /\ run'[r].stage = run[r].stage /\ run'[r].mailbox = run[r].mailbox
    BY <1>0, <1>6, EditsAtWork, MailKept
  <2>2. StageOn(r)  BY <2>1 DEF StageOn, Busy
  <2>3. \/ status' = status /\ misled' = misled
        \/ EngineEvent(r) /\ InTurn(r) /\ (SetStatus("awaiting", r) \/ SetStatus("working", r))
    BY <1>6 DEF Ask, ObserveCancel, EngineEvent
  <2>4. CASE status' = status /\ misled' = misled  BY <1>2, <2>1, <2>2, <2>4 DEF Edit
  <2>5. CASE InTurn(r) /\ (SetStatus("awaiting", r) \/ SetStatus("working", r))
    <3>1. Active' /\ (misled' \/ current' = r)  BY <1>1, <2>5 DEF SetStatus, Active
    <3>2. Busy(r)'  BY <2>1, <2>5 DEF InTurn, Stage, Busy
    <3> QED  BY <3>1, <3>2, StatusWritten
  <2> QED  BY <2>3, <2>4, <2>5
<1> QED  BY <1>3, <1>4, <1>5, <1>6

\* A run leaves the map: it is on its way out, or its own caller tries once more.
LEMMA StatusOfLeavers ==
  ASSUME Types, Desks, TrueStatus, NEW r \in Runs, StartFails(r) \/ Leave(r) \/ Retry(r)
  PROVE  TrueStatus'
<1>0. Handles  BY DEF Types
<1>1. /\ status' = status /\ misled' = misled
      /\ current' = IF current = r THEN 0 ELSE current
  BY DEF StartFails, Leave, Retry, Unregister
<1>c. current # 0 => current \in Runs
  BY SessionRunsAssumption DEF Types, Registered, Runs
<1>2. Edit(r, {"leaving", "gone"}) /\ run[r].stage \in {"starting", "claimed"}
  BY <1>0, EditsAtEnd DEF Edit, StartFails, Leave, Retry, Stage
<1>3. AtRest => AtRest'  BY <1>1, <1>c, <1>2 DEF AtRest, Edit
<1>4. Shows => Shows'
  <2>1. CASE StartFails(r) \/ Leave(r)
    <3>1. run'[r].stage = "leaving"  BY <1>0, <2>1, EditsAtEnd DEF Edit
    <3> QED  BY <3>1 DEF Shows
  <2>2. CASE Retry(r)
    <3>1. r \in Callers /\ Moves(r) /\ caller'[r].queue = <<run[r].msg>>
      BY <2>2, MovesOfRuns, DesksOfOthers
    <3>2. Waiting(r)'
      <4>1. caller[r].stage = "idle"  BY <1>2 DEF Desks
      <4>2. caller'[r].stage = "idle"  BY <2>2, <4>1, MovesOfRuns
      <4>3. caller'[r].retry  BY <2>2, <3>1 DEF Retry, Types, Calls, CallShape
      <4> QED  BY <3>1, <4>2, <4>3 DEF Waiting
    <3>3. CASE current' = 0  BY <3>2, <3>3 DEF Shows
    <3>4. CASE current' # 0
      <4>1. current' = current /\ current # r  BY <1>1, <3>4
      <4>2. Busy(current) => Busy(current)'  BY <1>c, <1>2, <3>4, <4>1 DEF Busy, Edit
      <4>3. \A x \in Runs : run[x].stage = "leaving" => run'[x].stage = "leaving"
        BY <1>2 DEF Edit
      <4> QED  BY <3>4, <4>1, <4>2, <4>3 DEF Shows
    <3> QED  BY <3>3, <3>4
  <2> QED  BY <2>1, <2>2
<1> QED  BY <1>1, <1>3, <1>4 DEF TrueStatus, Active


\* A caller that waits to start a run goes on to, while the map is empty.
LEMMA WaitingOn ==
  ASSUME Types, NEW c \in Callers, Moves(c),
         c \in Runs /\ current = 0 /\ Waiting(c) => Waiting(c)'
  PROVE  \A r \in Runs : current = 0 /\ Waiting(r) => Waiting(r)'
<1>1. ASSUME NEW r \in Runs, r # c, Waiting(r) PROVE Waiting(r)'
  <2>1. r \in Callers  BY DEF Callers
  <2> QED  BY <1>1, <2>1 DEF Moves, Waiting
<1> QED  BY <1>1

LEMMA StatusOfCallers ==
  ASSUME Types, Desks, TrueStatus, NEW c \in Callers, Call(c)
  PROVE  TrueStatus'
<1>0. Handles /\ CallShape(caller[c])  BY DEF Types, Calls
<1>c. current # 0 => current \in Runs
  BY SessionRunsAssumption DEF Types, Registered, Runs
<1>1. CASE Launch(c)
  <2>1. PICK r \in Runs : current' = r /\ Edit(r, {"starting"})  BY <1>1, EditLaunch
  <2>2. status' = "working"  BY <1>1 DEF Launch
  <2>3. Active' /\ Busy(r)'  BY <2>1, <2>2 DEF Active, Edit, Busy
  <2> QED  BY <2>1, <2>3, StatusWritten
<1>2. CASE Refuse(c)
  <2>1. /\ current' = current /\ run' = run
        /\ \/ status' \in {"idle", "errored"} /\ misled' = (current # 0)
           \/ status' = status /\ misled' = misled /\ ~ (c \in Runs /\ caller[c].retry)
    BY <1>2 DEF Refuse
  <2>2. CASE status' \in {"idle", "errored"} /\ misled' = (current # 0)
    BY <2>1, <2>2 DEF TrueStatus, AtRest, Active
  <2>3. CASE status' = status /\ misled' = misled /\ ~ (c \in Runs /\ caller[c].retry)
    <3>1. Moves(c)  BY <1>2, MovesOfCallers
    <3>2. c \in Runs => ~ Waiting(c)  BY <2>3 DEF Waiting
    <3>3. \A r \in Runs : current = 0 /\ Waiting(r) => Waiting(r)'  BY <3>1, <3>2, WaitingOn
    <3>4. \A r \in Runs : StageOn(r)  BY <2>1 DEF StageOn, Busy
    <3> QED  BY <2>1, <2>3, <3>3, <3>4, StatusKept
  <2> QED  BY <2>1, <2>2, <2>3
<1>3. CASE ShowWorking(c)
  <2>1. PICK r \in Runs : r = caller[c].target
    BY <1>0, <1>3 DEF ShowWorking, CallShape
  <2>2. /\ run' = run /\ current' = current /\ status' = "working"
        /\ misled' = ~ (current = r /\ (~ Stage(r, {"parked"}) \/ run[r].mailbox # <<>>))
    BY <1>3, <2>1 DEF ShowWorking
  <2>3. Active' /\ (misled' \/ (current' = r /\ Busy(r)'))  BY <2>2 DEF Active, Stage, Busy
  <2> QED  BY <2>3, StatusWritten
<1>4. CASE \/ NextOrphan(c) \/ Route(c) \/ PushLedger(c) \/ Confirm(c) \/ Reclaim(c)
           \/ Replace(c) \/ StopWaited(c)
  <2>1. status' = status /\ misled' = misled /\ current' = current
    BY <1>4 DEF NextOrphan, Route, PushLedger, Confirm, Reclaim, Replace, StopWaited
  <2>2. Moves(c)  BY <1>4, MovesOfCallers, MovesOfStops
  <2>3. current = 0 /\ Waiting(c) => Waiting(c)'
    <3>1. CASE NextOrphan(c)
      <4>1. caller'[c].stage = "route"  BY <3>1, MovesOfCallers
      <4>2. caller'[c].retry = caller[c].retry  BY <1>0, <3>1 DEF NextOrphan, Types, Calls, CallShape
      <4> QED  BY <4>1, <4>2 DEF Waiting
    <3>2. CASE Route(c)
      <4>1. current = 0 => caller'[c].stage \in {"route", "starting"} /\ caller'[c].retry = caller[c].retry
        <5>1. /\ \/ current # 0
                 \/ caller' = [caller EXCEPT ![c].how = "dispatch"]
                 \/ caller' = [caller EXCEPT ![c].stage = IF current = 0 THEN "starting" ELSE "replace", ![c].target = 0]
              /\ caller[c].stage = "route"
          BY <3>2 DEF Route, Proceed
        <5> QED  BY <1>0, <5>1 DEF Types, Calls, CallShape
      <4> QED  BY <4>1 DEF Waiting
    <3>3. CASE PushLedger(c) \/ Confirm(c) \/ Reclaim(c) \/ Replace(c) \/ StopWaited(c)
      <4>1. caller[c].stage \notin {"idle", "route", "starting"}
        BY <3>3 DEF PushLedger, Confirm, Reclaim, Replace, StopWaited
      <4> QED  BY <4>1 DEF Waiting
    <3> QED  BY <1>4, <3>1, <3>2, <3>3
  <2>4. \A r \in Runs : StageOn(r)
    <3>1. CASE run' = run  BY <3>1 DEF StageOn, Busy
    <3>2. CASE run' # run
      <4>1. PICK r : r = IF PushLedger(c) \/ Reclaim(c) THEN caller[c].target ELSE current  OBVIOUS
      <4>2. r \in Runs /\ Edit(r, {run[r].stage})
        <5>1. CASE PushLedger(c) \/ Reclaim(c)  BY <3>2, <4>1, <5>1, EditsBySenders
        <5>2. CASE ~ (PushLedger(c) \/ Reclaim(c)) /\ Route(c)
          BY <3>2, <4>1, <5>2, EditsBySenders
        <5>3. CASE ~ (PushLedger(c) \/ Reclaim(c)) /\ Replace(c)
          <6>1. r = current /\ current # 0 /\ run' = Interrupted(r)  BY <3>2, <4>1, <5>3 DEF Replace
          <6> QED  BY <1>0, <1>c, <6>1, EditsFromOutside
        <5> QED  BY <1>4, <3>2, <5>1, <5>2, <5>3 DEF NextOrphan, Confirm, StopWaited
      <4>3. Busy(r) => Busy(r)'
        <5>1. CASE PushLedger(c) \/ Reclaim(c)
          BY <1>0, <3>2, <4>1, <4>2, <5>1, MailKept DEF Busy
        <5>2. CASE ~ (PushLedger(c) \/ Reclaim(c)) /\ Replace(c)
          <6>1. run' = Interrupted(r)  BY <3>2, <4>1, <5>2 DEF Replace
          <6> QED  BY <1>0, <4>2, <6>1, MailKept DEF Busy
        <5>3. CASE ~ (PushLedger(c) \/ Reclaim(c)) /\ Route(c)
          <6>1. PICK a : a = Append(run[r].mailbox, caller[c].msg)  OBVIOUS
          <6>2. run' = [run EXCEPT ![r].mailbox = a]  BY <3>2, <4>1, <5>3, <6>1 DEF Route
          <6>3. Sequence(run[r].mailbox) /\ "mailbox" \in DOMAIN run[r] /\ DOMAIN run = Runs
            BY <1>0, <4>2 DEF Handles, Handle
          <6>4. Len(a) # 0  BY <6>1, <6>3, SequenceFacts
          <6>5. a # <<>>  BY <6>4, EmptySequence
          <6>6. run'[r].mailbox = a  BY <4>2, <6>2, <6>3
          <6> QED  BY <6>5, <6>6 DEF Busy
        <5> QED  BY <1>4, <3>2, <5>1, <5>2, <5>3 DEF NextOrphan, Confirm, StopWaited
      <4> QED  BY <4>2, <4>3 DEF Edit, StageOn, Busy
    <3> QED  BY <3>1, <3>2
  <2>5. \A r \in Runs : current = 0 /\ Waiting(r) => Waiting(r)'  BY <2>2, <2>3, WaitingOn
  <2> QED  BY <2>1, <2>4, <2>5, StatusKept
<1> QED  BY <1>1, <1>2, <1>3, <1>4 DEF Call

LEMMA StatusOfOthers ==
  ASSUME Types, TrueStatus,
         (\E how \in {"dispatch", "steer"} : Command(how)) \/ StopCommand \/ DenialStops \/ Answer
  PROVE  TrueStatus'
<1>0. Handles  BY DEF Types
<1>1. status' = status /\ misled' = misled /\ current' = current
  BY DEF Command, StopCommand, DenialStops, Answer
<1>2. \A r \in Runs : current = 0 /\ Waiting(r) => Waiting(r)'
  <2>1. caller' = caller \/ (Executor \in Callers /\ Moves(Executor))
    BY MovesOfExecutor DEF DenialStops, Answer
  <2>2. Executor \notin Runs  BY DEF Executor, Runs
  <2>3. CASE caller' = caller  BY <2>3 DEF Waiting
  <2> QED  BY <2>1, <2>2, <2>3, WaitingOn
<1>3. \A r \in Runs : StageOn(r)
  <2>1. CASE run' = run  BY <2>1 DEF StageOn, Busy
  <2>2. CASE run' # run
    <3>1. PICK r : r = current  OBVIOUS
    <3>2. current # 0 /\ (run' = Interrupted(r) \/ Answer)
      BY <2>2, <3>1 DEF Command, StopCommand, DenialStops, Answer
    <3>3. r \in Runs  BY <3>1, <3>2, SessionRunsAssumption DEF Types, Registered, Runs
    <3>4. Edit(r, {run[r].stage})  BY <1>0, <3>1, <3>2, <3>3, EditsFromOutside
    <3>5. run'[r].stage = run[r].stage /\ run'[r].mailbox = run[r].mailbox
      BY <1>0, <3>1, <3>2, <3>3, MailKept
    <3> QED  BY <3>4, <3>5 DEF Edit, StageOn, Busy
  <2> QED  BY <2>1, <2>2
<1> QED  BY <1>1, <1>2, <1>3, StatusKept

LEMMA StatusStep ==
  ASSUME Types, Filed, TrueStatus, [Next]_vars
  PROVE  TrueStatus'
<1>0. Files /\ Desks  BY DEF Filed
<1>1. ASSUME NEW c \in Callers, Call(c) PROVE TrueStatus'
  BY <1>0, <1>1, StatusOfCallers
<1>2. ASSUME NEW r \in Runs, Agent(r) \/ Task(r) PROVE TrueStatus'
  BY <1>0, <1>2, StatusOfWriters, StatusOfTurns, StatusOfLeavers DEF Agent, Task
<1>3. CASE UNCHANGED vars
  BY <1>3 DEF vars, TrueStatus, Active, Shows, AtRest, Busy, Waiting
<1> QED  BY <1>1, <1>2, <1>3, StatusOfOthers DEF Next

-----------------------------------------------------------------------------
(* A question that is shown can be answered *)

\* A run's open question and the engine's channel.
Wire(x) == {"pending", "engine"} \subseteq DOMAIN x /\ Sequence(x.engine)

Wires == \A r \in Runs : Wire(run[r])

\* The answer is on its way.
Answering(r) ==
  \E e : Contains(run[r].engine, e) /\ e.event = "answered" /\ e.of.kind = "input"

\* A run in its turn, whose question is open or answered, that is being stopped, or
\* that ends.
Asked(r) ==
  /\ run[r].stage \notin {"starting", "parked"}
  /\ run[r].stage = "turn" /\ ~ run[r].cancelled =>
       run[r].pending.kind = "input" \/ Answering(r)

TrueQuestion == status = "awaiting" /\ ~ misled /\ current # 0 => Asked(current)

LEMMA QuestionKept ==
  ASSUME Types, TrueQuestion,
         \/ status' # "awaiting" \/ misled'
         \/ /\ status' = status /\ misled' = misled /\ current' \in {current, 0}
            /\ \A r \in Runs : Asked(r) => Asked(r)'
  PROVE  TrueQuestion'
<1>1. CASE status' # "awaiting" \/ misled'  BY <1>1 DEF TrueQuestion
<1>2. CASE /\ status' = status /\ misled' = misled /\ current' \in {current, 0}
           /\ \A r \in Runs : Asked(r) => Asked(r)'
  <2>1. PICK r : r = current  OBVIOUS
  <2>2. current # 0 => r \in Runs
    BY <2>1, SessionRunsAssumption DEF Types, Registered, Runs
  <2>3. current' # 0 => current' = r  BY <1>2, <2>1
  <2>4. status' = "awaiting" /\ ~ misled' /\ current' # 0 => Asked(r)'
    BY <1>2, <2>1, <2>2, <2>3 DEF TrueQuestion
  <2>5. current' = r /\ Asked(r)' => Asked(current)'  BY DEF Asked, Answering
  <2> QED  BY <2>3, <2>4, <2>5 DEF TrueQuestion
<1> QED  BY <1>1, <1>2

\* The edits that leave the question and the channel alone.
SameWire(r) ==
  /\ Wire(run'[r])
  /\ run'[r].pending = run[r].pending /\ run'[r].engine = run[r].engine

LEMMA WireKept ==
  ASSUME Handles, Wires, NEW r \in Runs
  PROVE  /\ \/ Started(r) \/ StartFails(r) \/ Steered(r) \/ SelfContinues(r) \/ Quiesce(r)
            \/ ParkedEnds(r) \/ ObserveCancel(r) \/ Claim(r) \/ Leave(r)
            \/ \E c \in Callers : caller[c].target = r /\ run' # run /\ (PushLedger(c) \/ Reclaim(c))
            \/ \E m : run' = [run EXCEPT ![r].mailbox = Append(@, m)]
            => SameWire(r)
         /\ TurnDone(r) \/ TurnFails(r) \/ GraceOver(r) \/ Retry(r) \/ Settle(r) => Wire(run'[r])
<1>0. {"pending", "engine"} \subseteq DOMAIN run[r] /\ Sequence(run[r].engine) /\ DOMAIN run = Runs
  BY DEF Handles, Wires, Wire
<1> USE <1>0 DEF SameWire, Wire
<1>1. Started(r) => SameWire(r)  BY DEF Started
<1>2. StartFails(r) => SameWire(r)  BY DEF StartFails
<1>3. ASSUME Steered(r) PROVE SameWire(r)
  <2>1. PICK a, b : run' = [run EXCEPT ![r].stage = "turn", ![r].unresolved = FALSE, ![r].mailbox = a, ![r].ledger = b]
    BY <1>3 DEF Steered
  <2> QED  BY <2>1
<1>4. SelfContinues(r) => SameWire(r)  BY DEF SelfContinues
<1>5. Quiesce(r) => SameWire(r)  BY DEF Quiesce, Parked
<1>6. ParkedEnds(r) => SameWire(r)  BY DEF ParkedEnds, Ended
<1>7. ObserveCancel(r) => SameWire(r)  BY DEF ObserveCancel
<1>8. ASSUME Claim(r) PROVE SameWire(r)
  <2>1. PICK a, b : run' = [run EXCEPT ![r].stage = "claimed", ![r].orphans = a, ![r].ledger = b]
    BY <1>8 DEF Claim
  <2> QED  BY <2>1
<1>9. Leave(r) => SameWire(r)  BY DEF Leave
<1>10. ASSUME NEW c \in Callers, caller[c].target = r, run' # run, PushLedger(c) \/ Reclaim(c)
       PROVE  SameWire(r)
  <2>1. PICK a : run' = [run EXCEPT ![r].ledger = a]  BY <1>10 DEF PushLedger, Reclaim
  <2> QED  BY <2>1
<1>11. ASSUME NEW m, run' = [run EXCEPT ![r].mailbox = Append(@, m)] PROVE SameWire(r)
  BY <1>11
<1>12. ASSUME TurnDone(r) PROVE Wire(run'[r])
  <2>1. run' = Drained(Parked(r), r) \/ run' = Ended(Drained(run, r), r, "idle")
    BY <1>12 DEF TurnDone
  <2>2. CASE run' = Drained(Parked(r), r)  BY <2>2 DEF Drained, Parked
  <2>3. CASE run' = Ended(Drained(run, r), r, "idle")  BY <2>3 DEF Drained, Ended
  <2> QED  BY <2>1, <2>2, <2>3
<1>13. TurnFails(r) => Wire(run'[r])  BY DEF TurnFails, Drained, Ended
<1>14. GraceOver(r) => Wire(run'[r])  BY DEF GraceOver, Drained, Ended
<1>15. ASSUME Retry(r) \/ Settle(r) PROVE Wire(run'[r])
  <2>1. run' = [run EXCEPT ![r] = Gone(r)]  BY <1>15 DEF Retry, Settle
  <2>2. Wire(Gone(r))  BY EmptySequence DEF Gone, NoRun, NewRun
  <2> QED  BY <2>1, <2>2
<1> QED  BY <1>1, <1>2, <1>3, <1>4, <1>5, <1>6, <1>7, <1>8, <1>9, <1>10, <1>11, <1>12, <1>13, <1>14, <1>15


LEMMA WireOfAsk ==
  ASSUME Handles, Wires, NEW r \in Runs, Ask(r)
  PROVE  Wire(run'[r]) /\ run[r].pending.kind = "none" /\ (Answering(r) => Answering(r)')
<1>0. {"pending", "engine"} \subseteq DOMAIN run[r] /\ Sequence(run[r].engine) /\ DOMAIN run = Runs
  BY DEF Handles, Wires, Wire
<1>1. PICK q, a : /\ a = Append(run[r].engine, [event |-> "asked", of |-> q])
                  /\ run' = [run EXCEPT ![r].pending = q, ![r].engine = a]
  BY DEF Ask
<1>2. Sequence(a) /\ \A e : Contains(run[r].engine, e) => Contains(a, e)
  BY <1>0, <1>1, SequenceFacts, ContainsFacts
<1>3. run[r].pending.kind = "none"  BY DEF Ask, NoQuestion
<1>4. run'[r].engine = a /\ Wire(run'[r])  BY <1>0, <1>1, <1>2 DEF Wire
<1> QED  BY <1>2, <1>3, <1>4 DEF Answering

LEMMA WireOfAnswer ==
  ASSUME Handles, Wires, NEW r \in Runs, current = r, Answer
  PROVE  Wire(run'[r]) /\ (Answering(r) \/ run[r].pending.kind = "input" => Answering(r)')
<1>0. {"pending", "engine"} \subseteq DOMAIN run[r] /\ Sequence(run[r].engine) /\ DOMAIN run = Runs
  BY DEF Handles, Wires, Wire
<1>1. PICK new : new = [event |-> "answered", of |-> run[r].pending]  OBVIOUS
<1>2. PICK a : a = Append(run[r].engine, new)  OBVIOUS
<1>3. run' = [run EXCEPT ![r].pending = NoQuestion, ![r].engine = a]
  BY <1>1, <1>2 DEF Answer
<1>4. Sequence(a) /\ Contains(a, new) /\ \A e : Contains(run[r].engine, e) => Contains(a, e)
  BY <1>0, <1>2, SequenceFacts, ContainsFacts
<1>5. run'[r].engine = a /\ Wire(run'[r])  BY <1>0, <1>3, <1>4 DEF Wire
<1>6. new.event = "answered" /\ new.of = run[r].pending  BY <1>1
<1>7. run[r].pending.kind = "input" => Answering(r)'  BY <1>4, <1>5, <1>6 DEF Answering
<1> QED  BY <1>4, <1>5, <1>7 DEF Answering

LEMMA WireOfInterrupt ==
  ASSUME Handles, Wires, NEW r \in Runs, run' = Interrupted(r)
  PROVE  Wire(run'[r])
<1>0. {"pending", "engine"} \subseteq DOMAIN run[r] /\ Sequence(run[r].engine) /\ DOMAIN run = Runs
  BY DEF Handles, Wires, Wire
<1>1. PICK a : /\ a = IF run[r].pending.kind = "permit"
                      THEN Append(run[r].engine, [event |-> "answered", of |-> run[r].pending])
                      ELSE run[r].engine
               /\ run' = [run EXCEPT ![r].cancelled = TRUE, ![r].pending = NoQuestion, ![r].engine = a]
  BY DEF Interrupted
<1>2. Sequence(a)  BY <1>0, <1>1, SequenceFacts
<1> QED  BY <1>0, <1>1, <1>2 DEF Wire

\* Of the engine's events only the answer to an input takes the answer off the wire.
LEMMA WireOfEvent ==
  ASSUME Handles, Wires, NEW r \in Runs, EngineEvent(r)
  PROVE  /\ Wire(run'[r])
         /\ \/ status' = status /\ misled' = misled
            \/ status' = "working"
            \/ status' = "awaiting" /\ misled' = (current # r) /\ run[r].stage = "turn"
         /\ status' = status /\ misled' = misled /\ run[r].stage = "turn" =>
              \/ run'[r].pending = run[r].pending /\ (Answering(r) => Answering(r)')
              \/ status' = "working"
         /\ status' = "awaiting" /\ ~ (status' = status /\ misled' = misled) /\ current = r =>
              run'[r].pending.kind = "input"
<1>0. {"pending", "engine"} \subseteq DOMAIN run[r] /\ Sequence(run[r].engine) /\ DOMAIN run = Runs
  BY DEF Handles, Wires, Wire
<1>1. PICK e, a : e = Head(run[r].engine) /\ a = Tail(run[r].engine)  OBVIOUS
<1>2. Sequence(a) /\ \A x : Contains(run[r].engine, x) => x = e \/ Contains(a, x)
  BY <1>0, <1>1, SequenceFacts, ContainsFacts DEF EngineEvent
<1>3. PICK rest : rest = [run EXCEPT ![r].engine = a]  OBVIOUS
<1>4. \/ e.event = "asked" /\ run' = rest /\ UNCHANGED <<status, misled>>
      \/ ~ InTurn(r) /\ run' = [rest EXCEPT ![r].pending = NoQuestion] /\ UNCHANGED <<status, misled>>
      \/ /\ Known(e.of) /\ InTurn(r) /\ e.of.kind = "input"
         /\ run' = [rest EXCEPT ![r].unresolved = TRUE] /\ SetStatus("awaiting", r)
      \/ run' = [rest EXCEPT ![r].unresolved = FALSE] /\ SetStatus("working", r)
      \/ /\ ~ (e.event = "answered" /\ InTurn(r) /\ e.of.kind = "input")
         /\ run' = rest /\ UNCHANGED <<status, misled>>
  BY <1>1, <1>3 DEF EngineEvent
<1>5. run'[r].engine = a /\ Wire(run'[r]) /\ (run'[r].pending = run[r].pending \/ ~ InTurn(r))
  <2>1. CASE run' = rest  BY <1>0, <1>2, <1>3, <2>1 DEF Wire
  <2>2. CASE ~ InTurn(r) /\ run' = [rest EXCEPT ![r].pending = NoQuestion]
    BY <1>0, <1>2, <1>3, <2>2 DEF Wire
  <2>3. CASE run' = [rest EXCEPT ![r].unresolved = TRUE]  BY <1>0, <1>2, <1>3, <2>3 DEF Wire
  <2>4. CASE run' = [rest EXCEPT ![r].unresolved = FALSE]  BY <1>0, <1>2, <1>3, <2>4 DEF Wire
  <2> QED  BY <1>4, <2>1, <2>2, <2>3, <2>4
<1>6. \/ status' = status /\ misled' = misled
      \/ status' = "working"
      \/ status' = "awaiting" /\ misled' = (current # r) /\ run[r].stage = "turn"
  <2>1. InTurn(r) => run[r].stage = "turn"  BY DEF InTurn, Stage
  <2>2. UNCHANGED <<status, misled>> => status' = status /\ misled' = misled  OBVIOUS
  <2>3. SetStatus("working", r) => status' = "working"  BY DEF SetStatus
  <2>4. SetStatus("awaiting", r) => status' = "awaiting" /\ misled' = (current # r)
    <3>1. current' = current  BY DEF EngineEvent
    <3> QED  BY <3>1 DEF SetStatus
  <2> QED  BY <1>4, <2>1, <2>2, <2>3, <2>4, Zenon
<1>7. ASSUME status' = status, misled' = misled, run[r].stage = "turn", status' # "working"
      PROVE  Answering(r) => Answering(r)'
  <2>1. InTurn(r)  BY <1>7 DEF InTurn, Stage
  <2>2. \/ e.event = "asked"
        \/ ~ (e.event = "answered" /\ e.of.kind = "input")
        \/ SetStatus("awaiting", r) /\ e.event = "asked"
    <3>1. CASE e.event = "asked"  BY <3>1
    <3>2. CASE e.event # "asked"
      <4>1. \/ run' = [rest EXCEPT ![r].unresolved = FALSE] /\ SetStatus("working", r)
            \/ ~ (e.event = "answered" /\ InTurn(r) /\ e.of.kind = "input")
        BY <1>1, <1>3, <3>2 DEF EngineEvent
      <4> QED  BY <1>7, <2>1, <4>1 DEF SetStatus
    <3> QED  BY <3>1, <3>2
  <2>3. ~ (e.event = "answered" /\ e.of.kind = "input")  BY <2>2
  <2> QED  BY <1>2, <1>5, <2>3 DEF Answering
<1>8. ASSUME status' = "awaiting", ~ (status' = status /\ misled' = misled), current = r
      PROVE  run'[r].pending.kind = "input"
  <2>1. Known(e.of) /\ InTurn(r) /\ e.of.kind = "input"  BY <1>4, <1>8 DEF SetStatus
  <2> QED  BY <1>5, <1>8, <2>1 DEF Known
<1> QED  BY <1>5, <1>6, <1>7, <1>8 DEF InTurn, Stage

LEMMA WiresFromEdit ==
  ASSUME Wires, NEW r \in Runs, \A x \in Runs \ {r} : run'[x] = run[x], Wire(run'[r]),
         Asked(r) => Asked(r)'
  PROVE  Wires' /\ \A x \in Runs : Asked(x) => Asked(x)'
BY DEF Wires, Asked, Answering

LEMMA SameWireAsked ==
  ASSUME NEW r \in Runs, SameWire(r), run'[r].stage = run[r].stage,
         run'[r].cancelled = run[r].cancelled
  PROVE  Asked(r) => Asked(r)'
BY DEF SameWire, Asked, Answering

QuestionInv == Wires /\ TrueQuestion

LEMMA QuestionsOfTasks ==
  ASSUME Types, QuestionInv, NEW r \in Runs, Agent(r) \/ Task(r)
  PROVE  QuestionInv'
<1>0. Handles /\ Wires /\ TrueQuestion  BY DEF Types, QuestionInv
<1>1. current' \in {current, 0} /\ \A x \in Runs \ {r} : run'[x] = run[x]
  <2>1. current' \in {current, 0}  BY TaskSteps DEF RunStep, RunsCalm
  <2>2. \E S : Edit(r, S)  BY <1>0, EditsAtWork, EditsAtEnd DEF Agent, Task
  <2> QED  BY <2>1, <2>2 DEF Edit
\* Writes of the status, but for the engine's events.
<1>2. CASE Steered(r) \/ SelfContinues(r) \/ Quiesce(r) \/ Settle(r)
  <2>1. status' # "awaiting"
    <3>1. CASE Settle(r)
      <4>1. status' = run[r].final /\ run[r].final \in {"idle", "errored"}
        BY <1>0, <3>1 DEF Settle, Handles, Handle
      <4> QED  BY <4>1
    <3>2. CASE Steered(r) \/ SelfContinues(r)  BY <3>2 DEF Steered, SelfContinues, SetStatus
    <3>3. CASE Quiesce(r)  BY <3>3 DEF Quiesce, SetStatus
    <3> QED  BY <1>2, <3>1, <3>2, <3>3
  <2>2. Wire(run'[r])  BY <1>0, <1>2, WireKept DEF SameWire
  <2>3. Wires'  BY <1>0, <1>1, <2>2 DEF Wires
  <2> QED  BY <1>0, <2>1, <2>3, QuestionKept DEF QuestionInv
\* The run comes up, or it ends.
<1>3. CASE \/ Started(r) \/ StartFails(r) \/ Retry(r) \/ TurnFails(r) \/ ParkedEnds(r) \/ GraceOver(r)
           \/ Claim(r) \/ Leave(r)
  <2>1. status' = status /\ misled' = misled
    BY <1>3 DEF Started, StartFails, Retry, TurnFails, ParkedEnds, GraceOver, Claim, Leave
  <2>2. Wire(run'[r])  BY <1>0, <1>3, WireKept DEF SameWire
  <2>3. Asked(r) => Asked(r)'
    <3>1. CASE Started(r)
      <4>1. run[r].stage = "starting"  BY <3>1 DEF Started, Stage
      <4> QED  BY <4>1 DEF Asked
    <3>2. CASE ~ Started(r)
      <4>1. run'[r].stage \in Leaving  BY <1>0, <1>3, <3>2, EditsAtEnd DEF Edit, Leaving
      <4> QED  BY <4>1 DEF Asked, Leaving
    <3> QED  BY <3>1, <3>2
  <2>4. Wires' /\ \A x \in Runs : Asked(x) => Asked(x)'  BY <1>0, <1>1, <2>2, <2>3, WiresFromEdit
  <2> QED  BY <1>0, <1>1, <2>1, <2>4, QuestionKept DEF QuestionInv
<1>4. CASE TurnDone(r)
  <2>1. Wire(run'[r])  BY <1>0, <1>4, WireKept
  <2>2. CASE run[r].steerable /\ ~ run[r].interrupted
    <3>1. status' = "idle"  BY <1>4, <2>2 DEF TurnDone, SetStatus
    <3>2. Wires'  BY <1>0, <1>1, <2>1 DEF Wires
    <3> QED  BY <1>0, <3>1, <3>2, QuestionKept DEF QuestionInv
  <2>3. CASE ~ (run[r].steerable /\ ~ run[r].interrupted)
    <3>1. status' = status /\ misled' = misled /\ run' = Ended(Drained(run, r), r, "idle")
      BY <1>4, <2>3 DEF TurnDone
    <3>2. run'[r].stage = "ended"  BY <1>0, <3>1 DEF Ended, Drained, Handles, Handle
    <3>3. Asked(r)'  BY <3>2 DEF Asked
    <3>4. Wires' /\ \A x \in Runs : Asked(x) => Asked(x)'  BY <1>0, <1>1, <2>1, <3>3, WiresFromEdit
    <3> QED  BY <1>0, <1>1, <3>1, <3>4, QuestionKept DEF QuestionInv
  <2> QED  BY <2>2, <2>3
<1>5. CASE ObserveCancel(r) \/ Ask(r)
  <2>1. status' = status /\ misled' = misled  BY <1>5 DEF ObserveCancel, Ask
  <2>2. run'[r].stage = run[r].stage  BY <1>0, <1>5, MailKept
  <2>3. CASE ObserveCancel(r)
    <3>1. run[r].cancelled /\ run'[r].cancelled
      BY <1>0, <2>3, EditsAtWork DEF ObserveCancel
    <3>2. Asked(r) => Asked(r)'  BY <2>2, <3>1 DEF Asked
    <3>3. Wire(run'[r])  BY <1>0, <2>3, WireKept DEF SameWire
    <3>4. Wires' /\ \A x \in Runs : Asked(x) => Asked(x)'  BY <1>0, <1>1, <3>2, <3>3, WiresFromEdit
    <3> QED  BY <1>0, <1>1, <2>1, <3>4, QuestionKept DEF QuestionInv
  <2>4. CASE Ask(r)
    <3>1. run'[r].cancelled = run[r].cancelled  BY <1>0, <2>4, EditsAtWork
    <3>2. Asked(r) => Asked(r)'  BY <1>0, <2>2, <2>4, <3>1, WireOfAsk DEF Asked
    <3>3. Wires' /\ \A x \in Runs : Asked(x) => Asked(x)'
      BY <1>0, <1>1, <2>4, <3>2, WireOfAsk, WiresFromEdit
    <3> QED  BY <1>0, <1>1, <2>1, <3>3, QuestionKept DEF QuestionInv
  <2> QED  BY <1>5, <2>3, <2>4
<1>6. CASE EngineEvent(r)
  <2>1. run'[r].stage = run[r].stage /\ run'[r].cancelled = run[r].cancelled /\ current' = current
    BY <1>0, <1>6, MailKept, EditsAtWork DEF EngineEvent
  <2>2. Wires'  BY <1>0, <1>1, <1>6, WireOfEvent DEF Wires
  <2>3. CASE status' = "working"
    BY <1>0, <2>2, <2>3, QuestionKept DEF QuestionInv
  <2>4. CASE status' = status /\ misled' = misled /\ status' # "working"
    <3>1. Asked(r) => Asked(r)'
      BY <1>0, <1>6, <2>1, <2>4, WireOfEvent DEF Asked
    <3>2. \A x \in Runs : Asked(x) => Asked(x)'
      BY <1>0, <1>1, <1>6, <3>1, WireOfEvent, WiresFromEdit
    <3> QED  BY <1>0, <1>1, <2>2, <2>4, <3>2, QuestionKept DEF QuestionInv
  <2>5. CASE ~ (status' = status /\ misled' = misled) /\ status' # "working"
    <3>1. status' = "awaiting" /\ misled' = (current # r) /\ run[r].stage = "turn"
      BY <1>0, <1>6, <2>5, WireOfEvent
    <3>2. CASE misled'  BY <1>0, <2>2, <3>2, QuestionKept DEF QuestionInv
    <3>3. CASE ~ misled'
      <4>1. current = r /\ run'[r].pending.kind = "input"
        BY <1>0, <1>6, <2>5, <3>1, <3>3, WireOfEvent
      <4>2. Asked(r)'  BY <2>1, <3>1, <4>1 DEF Asked
      <4>3. Asked(current)'  BY <2>1, <4>1, <4>2 DEF Asked, Answering
      <4> QED  BY <2>2, <4>3 DEF QuestionInv, TrueQuestion
    <3> QED  BY <3>2, <3>3
  <2> QED  BY <2>3, <2>4, <2>5
<1> QED  BY <1>2, <1>3, <1>4, <1>5, <1>6 DEF Agent, Task


LEMMA QuestionsOfCallers ==
  ASSUME Types, QuestionInv, NEW c \in Callers, Call(c)
  PROVE  QuestionInv'
<1>0. Handles /\ CallShape(caller[c]) /\ Wires /\ TrueQuestion  BY DEF Types, Calls, QuestionInv
<1>1. CASE Launch(c)
  <2>1. status' # "awaiting"  BY <1>1 DEF Launch
  <2>2. Wires'
    <3>1. PICK r, new :
            /\ r \in Runs
            /\ \E steerable : new = NewRun(caller[c].msg, steerable, caller[c].retry)
            /\ run' = [run EXCEPT ![r] = new]
      BY <1>1 DEF Launch
    <3>2. Wire(new)  BY <3>1, EmptySequence DEF NewRun, Wire
    <3> QED  BY <1>0, <3>1, <3>2 DEF Wires, Handles
  <2> QED  BY <1>0, <2>1, <2>2, QuestionKept DEF QuestionInv
<1>2. CASE Refuse(c) \/ ShowWorking(c)
  <2>1. /\ run' = run /\ current' = current
        /\ status' # "awaiting" \/ (status' = status /\ misled' = misled)
    BY <1>2 DEF Refuse, ShowWorking
  <2>2. Wires' /\ \A x \in Runs : Asked(x) => Asked(x)'
    BY <1>0, <2>1 DEF Wires, Asked, Answering
  <2> QED  BY <1>0, <2>1, <2>2, QuestionKept DEF QuestionInv
<1>3. CASE \/ NextOrphan(c) \/ Route(c) \/ PushLedger(c) \/ Confirm(c) \/ Reclaim(c)
           \/ Replace(c) \/ StopWaited(c)
  <2>1. status' = status /\ misled' = misled /\ current' = current
    BY <1>3 DEF NextOrphan, Route, PushLedger, Confirm, Reclaim, Replace, StopWaited
  <2>2. CASE run' = run
    <3>1. Wires' /\ \A x \in Runs : Asked(x) => Asked(x)'
      BY <1>0, <2>2 DEF Wires, Asked, Answering
    <3> QED  BY <1>0, <2>1, <3>1, QuestionKept DEF QuestionInv
  <2>3. CASE run' # run
    <3>1. PICK r : r = IF PushLedger(c) \/ Reclaim(c) THEN caller[c].target ELSE current  OBVIOUS
    <3>2. CASE PushLedger(c) \/ Reclaim(c)
      <4>1. r \in Runs /\ Edit(r, {run[r].stage}) /\ run'[r].cancelled = run[r].cancelled
        BY <2>3, <3>1, <3>2, EditsBySenders
      <4>2. SameWire(r)  BY <1>0, <2>3, <3>1, <3>2, <4>1, WireKept
      <4>3. Asked(r) => Asked(r)'  BY <4>1, <4>2, SameWireAsked DEF Edit
      <4>4. Wires' /\ \A x \in Runs : Asked(x) => Asked(x)'
        BY <1>0, <4>1, <4>2, <4>3, WiresFromEdit DEF Edit, SameWire
      <4> QED  BY <1>0, <2>1, <4>4, QuestionKept DEF QuestionInv
    <3>3. CASE ~ (PushLedger(c) \/ Reclaim(c)) /\ Route(c)
      <4>1. r \in Runs /\ Edit(r, {run[r].stage}) /\ run'[r].cancelled = run[r].cancelled
        BY <2>3, <3>1, <3>3, EditsBySenders
      <4>2. \E m : run' = [run EXCEPT ![r].mailbox = Append(@, m)]
        BY <2>3, <3>1, <3>3 DEF Route
      <4>3. SameWire(r)  BY <1>0, <4>1, <4>2, WireKept
      <4>4. Asked(r) => Asked(r)'  BY <4>1, <4>3, SameWireAsked DEF Edit
      <4>5. Wires' /\ \A x \in Runs : Asked(x) => Asked(x)'
        BY <1>0, <4>1, <4>3, <4>4, WiresFromEdit DEF Edit, SameWire
      <4> QED  BY <1>0, <2>1, <4>5, QuestionKept DEF QuestionInv
    <3>4. CASE ~ (PushLedger(c) \/ Reclaim(c)) /\ Replace(c)
      <4>1. r = current /\ current # 0 /\ run' = Interrupted(r)  BY <2>3, <3>1, <3>4 DEF Replace
      <4>2. r \in Runs  BY <4>1, SessionRunsAssumption DEF Types, Registered, Runs
      <4>3. Edit(r, {run[r].stage}) /\ run'[r].cancelled  BY <1>0, <4>1, <4>2, EditsFromOutside
      <4>4. Wire(run'[r])  BY <1>0, <4>1, <4>2, WireOfInterrupt
      <4>5. Asked(r) => Asked(r)'  BY <4>3 DEF Edit, Asked
      <4>6. Wires' /\ \A x \in Runs : Asked(x) => Asked(x)'
        BY <1>0, <4>2, <4>3, <4>4, <4>5, WiresFromEdit DEF Edit
      <4> QED  BY <1>0, <2>1, <4>6, QuestionKept DEF QuestionInv
    <3> QED  BY <1>3, <2>3, <3>2, <3>3, <3>4 DEF NextOrphan, Confirm, StopWaited
  <2> QED  BY <2>2, <2>3
<1> QED  BY <1>1, <1>2, <1>3 DEF Call

LEMMA QuestionsOfOthers ==
  ASSUME Types, QuestionInv,
         (\E how \in {"dispatch", "steer"} : Command(how)) \/ StopCommand \/ DenialStops \/ Answer
  PROVE  QuestionInv'
<1>0. Handles /\ Wires /\ TrueQuestion  BY DEF Types, QuestionInv
<1>1. status' = status /\ misled' = misled /\ current' = current
  BY DEF Command, StopCommand, DenialStops, Answer
<1>2. CASE run' = run
  <2>1. Wires' /\ \A x \in Runs : Asked(x) => Asked(x)'
    BY <1>0, <1>2 DEF Wires, Asked, Answering
  <2> QED  BY <1>0, <1>1, <2>1, QuestionKept DEF QuestionInv
<1>3. CASE run' # run
  <2>1. PICK r : r = current  OBVIOUS
  <2>2. current # 0 /\ (run' = Interrupted(r) \/ Answer)
    BY <1>3, <2>1 DEF Command, StopCommand, DenialStops, Answer
  <2>3. r \in Runs  BY <2>1, <2>2, SessionRunsAssumption DEF Types, Registered, Runs
  <2>4. Wire(run'[r]) /\ (Asked(r) => Asked(r)')
    <3>1. CASE run' = Interrupted(r)
      <4>1. Edit(r, {run[r].stage}) /\ run'[r].cancelled  BY <1>0, <2>3, <3>1, EditsFromOutside
      <4>2. Wire(run'[r])  BY <1>0, <2>3, <3>1, WireOfInterrupt
      <4> QED  BY <4>1, <4>2 DEF Edit, Asked
    <3>2. CASE Answer
      <4>1. Edit(r, {run[r].stage}) /\ run'[r].cancelled = run[r].cancelled
        BY <1>0, <2>1, <2>3, <3>2, EditsFromOutside
      <4>2. Wire(run'[r]) /\ (Answering(r) \/ run[r].pending.kind = "input" => Answering(r)')
        BY <1>0, <2>1, <2>3, <3>2, WireOfAnswer
      <4> QED  BY <4>1, <4>2 DEF Edit, Asked
    <3> QED  BY <2>2, <3>1, <3>2
  <2>5. \A x \in Runs \ {r} : run'[x] = run[x]
    BY <1>0, <2>1, <2>2, <2>3, EditsFromOutside DEF Edit
  <2>6. Wires' /\ \A x \in Runs : Asked(x) => Asked(x)'  BY <1>0, <2>3, <2>4, <2>5, WiresFromEdit
  <2> QED  BY <1>0, <1>1, <2>6, QuestionKept DEF QuestionInv
<1> QED  BY <1>2, <1>3

LEMMA QuestionStep ==
  ASSUME Types, QuestionInv, [Next]_vars
  PROVE  QuestionInv'
<1>1. CASE UNCHANGED vars
  BY <1>1 DEF vars, QuestionInv, Wires, TrueQuestion, Asked, Answering
<1> QED  BY <1>1, QuestionsOfTasks, QuestionsOfCallers, QuestionsOfOthers DEF Next

LEMMA ShownInit == Init => TrueStatus /\ QuestionInv
<1> SUFFICES ASSUME Init PROVE TrueStatus /\ QuestionInv  OBVIOUS
<1>1. status = "idle" /\ current = 0  BY DEF Init
<1>2. Wires
  <2>1. Wire(NoRun)  BY EmptySequence DEF NoRun, NewRun, Wire
  <2> QED  BY <2>1 DEF Init, Wires
<1> QED  BY <1>1, <1>2 DEF TrueStatus, Active, AtRest, QuestionInv, TrueQuestion

LEMMA StatusHolds == Types /\ TrueStatus => StatusIsTrue
<1> SUFFICES ASSUME Types, TrueStatus, ~ misled
             PROVE  IF Active
                    THEN \/ \E r \in Runs : Stage(r, {"leaving"}) \/ caller[r].queue # <<>> \/ caller[r].stage # "idle"
                         \/ current # 0 /\ (~ Stage(current, {"parked"}) \/ run[current].mailbox # <<>>)
                    ELSE current # 0 => ~ Stage(current, {"starting", "turn"})
  BY DEF StatusIsTrue
<1>1. Shows => \/ \E r \in Runs : Stage(r, {"leaving"}) \/ caller[r].queue # <<>> \/ caller[r].stage # "idle"
               \/ current # 0 /\ (~ Stage(current, {"parked"}) \/ run[current].mailbox # <<>>)
  BY DEF Shows, Busy, Waiting, Stage
<1>2. AtRest => (current # 0 => ~ Stage(current, {"starting", "turn"}))  BY DEF AtRest, Stage
<1> QED  BY <1>1, <1>2 DEF TrueStatus

LEMMA QuestionHolds == Types /\ QuestionInv => AwaitingIsAnswerable
<1> SUFFICES ASSUME Types, QuestionInv, status = "awaiting", ~ misled, current # 0,
                    run[current].pending = NoQuestion, ~ run[current].cancelled,
                    Stage(current, Looping)
             PROVE  run[current].engine # <<>>
  BY DEF AwaitingIsAnswerable
<1>1. PICK r : r = current  OBVIOUS
<1>2. r \in Runs  BY <1>1, SessionRunsAssumption DEF Types, Registered, Runs
<1>3. Asked(r)  BY <1>1 DEF QuestionInv, TrueQuestion, Asked, Answering
<1>4. Answering(r)  BY <1>1, <1>3 DEF Asked, Stage, Looping, NoQuestion
<1>5. Sequence(run[r].engine)  BY <1>2 DEF QuestionInv, Wires, Wire
<1>6. run[r].engine # <<>>  BY <1>4, <1>5, ContainsFacts DEF Answering
<1> QED  BY <1>1, <1>6

-----------------------------------------------------------------------------
(* Theorems *)

LEMMA InvInit == Init => RunsInv
<1> SUFFICES ASSUME Init PROVE RunsInv  OBVIOUS
<1>1. Types  BY TypesInit
<1>2. \A c \in Callers : caller[c].stage = "idle"  BY DEF Init, NoCall
<1>3. \A r \in Runs : ~ AtLarge(r)  BY NoHandle DEF Init, AtLarge, UpStages
<1> QED  BY <1>1, <1>2, <1>3 DEF RunsInv, Alone, Committed

LEMMA InvStep == RunsInv /\ [Next]_vars => RunsInv'
<1> SUFFICES ASSUME RunsInv, [Next]_vars PROVE RunsInv'  OBVIOUS
<1>1. ASSUME NEW c \in Callers, Call(c) PROVE RunsInv'
  BY <1>1, SendSteps, LookSteps, ReplaceStep, StopWaitedStep, LaunchStep DEF Call
<1>2. ASSUME NEW r \in Runs, Agent(r) \/ Task(r) PROVE RunsInv'
  <2>0. Types /\ (~ crossed => Alone)  BY DEF RunsInv
  <2>1. RunStep /\ Shown' /\ crossed' = crossed /\ Calls' /\ CallersCalm
    BY <1>2, <2>0, TaskSteps, TaskShows, TaskCalls
  <2> QED  BY <2>0, <2>1, CalmStep DEF RunsInv, RunStep, Types
<1>3. CASE UNCHANGED vars
  BY <1>3 DEF vars, history, bounds, RunsInv, Types, Handles, Calls, Registered, Shown, Alone,
     Committed, AtLarge
<1> QED  BY <1>1, <1>2, <1>3, OutsideSteps DEF Next

\* The inductive invariant: the types, and while no two dispatches crossed, the one
\* that is past its look at the map has stopped whatever agent there was.
THEOREM RunsSafe == Spec => []RunsInv
<1> QED  BY InvInit, InvStep, PTL DEF Spec

\* Handles, callers and the map keep their types: no mailbox runs over, nothing is
\* orphaned but by an exit under way, and no run that has left is still registered.
THEOREM TypeCorrect == Spec => []TypeOK
<1>1. RunsInv => TypeOK
  BY DEF RunsInv, Types, Handles, Handle, Calls, CallShape, Registered, Registrable, Shown, Fates,
     TypeOK, Stage
<1> QED  BY <1>1, RunsSafe, PTL

\* An agent that nobody has stopped can be reached through the map, however starts,
\* ends, stops, steers and redispatches interleave, unless two dispatches crossed.
THEOREM SoleRunIsAlwaysRegistered == Spec => []SoleRunIsRegistered
<1>1. RunsInv => SoleRunIsRegistered
  BY DEF RunsInv, Alone, AtLarge, UpStages, SoleRunIsRegistered, Stage, Looping
<1> QED  BY <1>1, RunsSafe, PTL

\* The inductive invariant behind what is accepted: files and desks in order, and for
\* every message somebody who answers for it, unless it has come to its end.
THEOREM MessagesSafe == Spec => [](RunsInv /\ Filed /\ EveryoneKept)
<1>1. Init => RunsInv /\ Filed /\ EveryoneKept  BY InvInit, FiledInit
<1>2. RunsInv /\ Filed /\ EveryoneKept /\ [Next]_vars => (RunsInv /\ Filed /\ EveryoneKept)'
  <2> SUFFICES ASSUME RunsInv, Filed, EveryoneKept, [Next]_vars
               PROVE  RunsInv' /\ Filed' /\ EveryoneKept'
    OBVIOUS
  <2>1. Types  BY DEF RunsInv
  <2> QED  BY <2>1, InvStep, FiledStep, KeptInvStep
<1> QED  BY <1>1, <1>2, PTL DEF Spec

\* A message taken for the chat is run, visibly refused or failed, dropped by a stop,
\* met one of the marked gaps, or is held by a caller or a run that still sees to it:
\* for any number of messages, runs and stops, however they interleave.
THEOREM AcceptedIsAlwaysKept == Spec => []AcceptedIsKept
<1>1. RunsInv /\ Filed /\ EveryoneKept => AcceptedIsKept  BY KeptIsHeld DEF RunsInv
<1> QED  BY <1>1, MessagesSafe, PTL

\* The inductive invariant behind what the session shows: while it says Working the
\* map's run is busy, a run is on its way out, or, with the map empty, an ended run's
\* caller is about to start another; while it says AwaitingInput the question is open
\* or its answer is on the engine's channel.
THEOREM ShownSafe == Spec => [](RunsInv /\ Filed /\ TrueStatus /\ QuestionInv)
<1>1. Init => RunsInv /\ Filed /\ TrueStatus /\ QuestionInv  BY InvInit, FiledInit, ShownInit
<1>2. RunsInv /\ Filed /\ TrueStatus /\ QuestionInv /\ [Next]_vars
        => (RunsInv /\ Filed /\ TrueStatus /\ QuestionInv)'
  <2> SUFFICES ASSUME RunsInv, Filed, TrueStatus, QuestionInv, [Next]_vars
               PROVE  RunsInv' /\ Filed' /\ TrueStatus' /\ QuestionInv'
    OBVIOUS
  <2>1. Types  BY DEF RunsInv
  <2> QED  BY <2>1, InvStep, FiledStep, StatusStep, QuestionStep
<1> QED  BY <1>1, <1>2, PTL DEF Spec

\* The session says Working or AwaitingInput only while something is under way, and
\* at rest it is at rest, unless the last status was written for a run that had moved
\* on.
THEOREM StatusIsAlwaysTrue == Spec => []StatusIsTrue
<1>1. RunsInv /\ Filed /\ TrueStatus /\ QuestionInv => StatusIsTrue  BY StatusHolds DEF RunsInv
<1> QED  BY <1>1, ShownSafe, PTL

\* AwaitingInput is shown only while an answer can still be given or is on its way, or
\* the run is being stopped or ends.
THEOREM AwaitingIsAlwaysAnswerable == Spec => []AwaitingIsAnswerable
<1>1. RunsInv /\ Filed /\ TrueStatus /\ QuestionInv => AwaitingIsAnswerable
  BY QuestionHolds DEF RunsInv
<1> QED  BY <1>1, ShownSafe, PTL
=============================================================================
