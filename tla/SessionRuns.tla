----------------------------- MODULE SessionRuns -----------------------------
(***************************************************************************)
(* The runs of one chat on the device that hosts it                        *)
(* (crates/engine/src/sessions.rs): messages are dispatched or steered     *)
(* into the live run, a finished turn parks the agent for the next one,    *)
(* questions wait for an answer, stops have a deadline, and a run that     *)
(* ends hands the steers nobody confirmed to a fresh dispatch.             *)
(*                                                                         *)
(* Each run has a task (`drive_run') and a map entry; several callers work *)
(* on the chat at once: the command executor, the task that picks a        *)
(* crashed run up after boot, and for each ended run the task that         *)
(* dispatches what it left.  Steps of different threads interleave where   *)
(* no lock covers both.                                                    *)
(*                                                                         *)
(* The agent's events reach the run's task as they are made; only the      *)
(* engine's own channel of questions and answers is kept as a queue.       *)
(***************************************************************************)
EXTENDS Naturals, FiniteSets, Sequences, SequencesExt

CONSTANTS
  Steering,      \* what supports_steering may answer: subset of BOOLEAN
  MailboxSize,   \* the steering channel's capacity
  Agents,        \* what agents may do: subset of AgentKinds
  Revives,       \* is there a crashed run's message to dispatch at boot? subset of BOOLEAN
  MaxMessages,   \* bound: messages, the one a crash left included
  MaxRuns,       \* bound: runs; no dispatch begins beyond it
  MaxQuestions,  \* bound: questions an agent asks
  MaxStops       \* bound: stop commands

AgentKinds == {"noStart", "retry", "refused", "errors", "continues", "asks"}

ASSUME SessionRunsAssumption ==
  /\ Steering \subseteq BOOLEAN /\ Steering # {}
  /\ MailboxSize \in Nat \ {0}
  /\ Agents \subseteq AgentKinds
  /\ Revives \subseteq BOOLEAN /\ Revives # {}
  /\ MaxMessages \in Nat \ {0} /\ MaxRuns \in Nat /\ MaxQuestions \in Nat /\ MaxStops \in Nat

VARIABLES
  run,        \* run -> its handle and its task
  current,    \* the run the map holds for the chat, 0 if none
  status,     \* the chat's session status
  caller,     \* caller -> where it is in dispatch, steer or interrupt
  denied,     \* a denial's interrupt is spawned and has not run yet
  sent,       \* messages issued so far
  fate,       \* history: message -> what became of it
  misled,     \* history: the last status was written for a run that had moved on
  crossed,    \* history: two dispatches were past their look at the map at once
  questions, stops

Messages == 1 .. MaxMessages
Runs == 1 .. MaxRuns
\* Ended runs call on under their own number.
Executor == 0
Boot == MaxRuns + 1
Callers == {Executor, Boot} \cup Runs

NoQuestion == [kind |-> "none", id |-> 0]

\* A run that has just been put in the map.
NewRun(m, steerable, retry) ==
  [stage |-> "starting", msg |-> m, steerable |-> steerable, retry |-> retry,
   cancelled |-> FALSE, interrupted |-> FALSE, mailbox |-> <<>>, ledger |-> <<>>,
   pending |-> NoQuestion, engine |-> <<>>, unresolved |-> FALSE,
   final |-> "idle", orphans |-> <<>>]

NoRun == [NewRun(0, TRUE, FALSE) EXCEPT !.stage = "none"]

\* All that is left of a run: a ledger its senders may still look at.
Gone(r) == [NoRun EXCEPT !.stage = "gone", !.ledger = run[r].ledger]

NoCall == [stage |-> "idle", how |-> "dispatch", msg |-> 0, target |-> 0,
           queue |-> <<>>, retry |-> FALSE]

Stage(r, stages) == run[r].stage \in stages
Looping == {"turn", "parked"}

history == <<fate, crossed>>
bounds == <<sent, questions, stops>>
vars == <<run, current, status, caller, denied, misled, history, bounds>>

\* A crash may have left a message for the boot pass to dispatch again.
Init ==
  /\ run = [r \in Runs |-> NoRun]
  /\ current = 0
  /\ status = "idle"
  /\ \E revives \in Revives :
       /\ sent = IF revives THEN 1 ELSE 0
       /\ caller = [c \in Callers |->
                      IF c = Boot /\ revives THEN [NoCall EXCEPT !.queue = <<1>>] ELSE NoCall]
  /\ denied = FALSE
  /\ fate = [m \in Messages |-> "none"]
  /\ misled = FALSE /\ crossed = FALSE
  /\ questions = 0 /\ stops = 0

\* A status write by a run's task, which need not be the registered run's.
SetStatus(s, r) == status' = s /\ misled' = (current' # r)

\* What became of messages.
Mark(ms, f) ==
  fate' = [m \in Messages |->
             IF m \in ms /\ fate[m] \in {"none", "misfiled"} THEN f ELSE fate[m]]

\* Entries of a ledger whose sender is no longer there to take them back.
Abandoned(r) ==
  {m \in ToSet(run[r].ledger) :
     ~ \E c \in Callers :
         caller[c].stage = "pushed" /\ caller[c].msg = m /\ caller[c].target = r}

\* A stop drops what it finds; otherwise nobody meant the message to be lost.
Lost(r) == IF run[r].interrupted THEN "stopped" ELSE "evaporated"

-----------------------------------------------------------------------------
(* Sending a message: dispatch and steer *)

\* The executor takes a run or a steer command.
Command(how) ==
  /\ caller[Executor].stage = "idle" /\ sent < MaxMessages
  /\ sent' = sent + 1
  /\ caller' = [caller EXCEPT ![Executor] =
                  [NoCall EXCEPT !.stage = "route", !.how = how, !.msg = sent + 1]]
  /\ UNCHANGED <<run, current, status, denied, misled, history, questions, stops>>

\* The boot pass, or what an ended run left behind, goes through dispatch one by one.
NextOrphan(c) ==
  /\ c # Executor /\ caller[c].stage = "idle" /\ caller[c].queue # <<>>
  /\ caller' = [caller EXCEPT ![c].stage = "route", ![c].how = "dispatch",
                              ![c].msg = Head(caller[c].queue), ![c].queue = Tail(@)]
  /\ UNCHANGED <<run, current, status, denied, misled, history, bounds>>

\* try_send: the agent's end of the mailbox may close once its run is ending.
Accepts(r) == run[r].steerable /\ Len(run[r].mailbox) < MailboxSize
MayRefuse(r) == ~ Accepts(r) \/ ~ Stage(r, {"starting"} \cup Looping)

\* Past its look at the map a dispatch goes on to a fresh run, whatever others do.
Committed(c) ==
  \/ caller[c].stage \in {"replace", "starting"}
  \/ caller[c].stage = "stopping" /\ caller[c].msg # 0

Crossing(c) == crossed \/ \E d \in Callers \ {c} : Committed(d)

Proceed(c, stage, target) ==
  caller' = [caller EXCEPT ![c].stage = stage, ![c].target = target]

\* A mailbox that takes the message; or no live run, or one that does not take it: then
\* a steer becomes a dispatch, and a dispatch replaces the run, if there is one.
Route(c) ==
  /\ caller[c].stage = "route"
  /\ \/ /\ current # 0 /\ Accepts(current)
        /\ run' = [run EXCEPT ![current].mailbox = Append(@, caller[c].msg)]
        /\ Proceed(c, "sent", current)
        /\ UNCHANGED crossed
     \/ /\ current # 0 => MayRefuse(current)
        /\ UNCHANGED run
        /\ IF caller[c].how = "steer" THEN
             /\ caller' = [caller EXCEPT ![c].how = "dispatch"]
             /\ UNCHANGED crossed
           ELSE
             /\ Proceed(c, IF current = 0 THEN "starting" ELSE "replace", 0)
             /\ crossed' = Crossing(c)
  /\ UNCHANGED <<current, status, denied, misled, fate, bounds>>

\* The ledger entry and the transcript entry follow the send.
PushLedger(c) ==
  /\ caller[c].stage = "sent"
  /\ run' = [run EXCEPT ![caller[c].target].ledger = Append(@, caller[c].msg)]
  /\ Proceed(c, "pushed", caller[c].target)
  /\ UNCHANGED <<current, status, denied, misled, history, bounds>>

\* The run is still registered: the send stands, even if the run has claimed its
\* ledger already and this entry came too late for it.
Confirm(c) ==
  LET m == caller[c].msg  r == caller[c].target IN
  /\ caller[c].stage = "pushed" /\ current = r
  /\ Mark(IF Stage(r, {"claimed"}) THEN {m} \cap ToSet(run[r].ledger) ELSE {}, Lost(r))
  /\ Proceed(c, "confirmed", r)
  /\ UNCHANGED <<run, current, status, denied, misled, crossed, bounds>>

Finished(c) == [NoCall EXCEPT !.queue = caller[c].queue]

\* Mutant: the entry stays where it is, for the ended run to find.
ReclaimNothing(c) ==
  /\ caller[c].stage = "pushed" /\ current # caller[c].target
  /\ caller' = [caller EXCEPT ![c] = Finished(c)]
  /\ UNCHANGED <<run, current, status, denied, misled, history, bounds>>

\* It is gone: the entry (there is one of a message) is taken back and the message goes
\* on to a fresh run, or whoever claimed the entry owns the message.
Reclaim(c) ==
  LET m == caller[c].msg  r == caller[c].target IN
  /\ caller[c].stage = "pushed" /\ current # r
  /\ IF Contains(run[r].ledger, m) THEN
       /\ run' = [run EXCEPT ![r].ledger = RemoveFirst(@, m)]
       /\ IF caller[c].how = "steer" THEN
            /\ caller' = [caller EXCEPT ![c].stage = "route", ![c].how = "dispatch"]
            /\ UNCHANGED crossed
          ELSE
            /\ Proceed(c, "replace", 0)
            /\ crossed' = Crossing(c)
     ELSE
       /\ caller' = [caller EXCEPT ![c] = Finished(c)]
       /\ UNCHANGED <<run, crossed>>
  /\ UNCHANGED <<current, status, denied, misled, fate, bounds>>

\* The send is over: Working, whether or not the turn it started still goes on.
ShowWorking(c) ==
  LET r == caller[c].target IN
  /\ caller[c].stage = "confirmed"
  /\ status' = "working"
  /\ misled' = ~ (current = r /\ (~ Stage(r, {"parked"}) \/ run[r].mailbox # <<>>))
  /\ caller' = [caller EXCEPT ![c] = Finished(c)]
  /\ UNCHANGED <<run, current, denied, history, bounds>>

-----------------------------------------------------------------------------
(* Stopping and replacing a run *)

\* Cancel a run and take its open question back; only a permission's denial is told.
Interrupted(r) ==
  [run EXCEPT
    ![r].cancelled = TRUE,
    ![r].pending = NoQuestion,
    ![r].engine = IF run[r].pending.kind = "permit"
                  THEN Append(@, [event |-> "answered", of |-> run[r].pending]) ELSE @]

\* Before it starts afresh a dispatch stops whatever run is registered by now.
Replace(c) ==
  /\ caller[c].stage = "replace"
  /\ IF current = 0 THEN Proceed(c, "starting", 0) /\ UNCHANGED run
     ELSE Proceed(c, "stopping", current) /\ run' = Interrupted(current)
  /\ UNCHANGED <<current, status, denied, misled, history, bounds>>

StopCommand ==
  /\ caller[Executor].stage = "idle" /\ stops < MaxStops /\ current # 0
  /\ stops' = stops + 1
  /\ run' = Interrupted(current)
  /\ Proceed(Executor, "stopping", current)
  /\ UNCHANGED <<current, status, denied, misled, history, sent, questions>>

\* The bounded wait: a run whose loop is going settles within its own deadline, one
\* whose agent is still coming up may not.
StopWaited(c) ==
  /\ caller[c].stage = "stopping"
  /\ current # caller[c].target \/ Stage(caller[c].target, {"starting"})
  /\ IF caller[c].msg = 0 THEN caller' = [caller EXCEPT ![c] = Finished(c)]
     ELSE Proceed(c, "starting", 0)
  /\ UNCHANGED <<run, current, status, denied, misled, history, bounds>>

\* A denial stops the chat's run of the moment.
DenialStops ==
  /\ denied
  /\ denied' = FALSE
  /\ run' = IF current = 0 THEN run ELSE Interrupted(current)
  /\ UNCHANGED <<current, status, caller, misled, history, bounds>>

\* The request cannot be served.  An ended run's task shows Errored and gives up the rest
\* of its queue; with an agent that lacks the model the session shows Idle.  Other errors
\* end a dispatch without a word to the status, except that of a first start's retry.
Refuse(c) ==
  /\ "refused" \in Agents
  /\ caller[c].stage = "starting"
  /\ \/ status' = (IF c \in Runs THEN "errored" ELSE "idle") /\ misled' = (current # 0)
     \/ ~ (c \in Runs /\ caller[c].retry) /\ UNCHANGED <<status, misled>>
  /\ caller' = [caller EXCEPT ![c] = NoCall]
  /\ Mark({caller[c].msg} \cup ToSet(caller[c].queue), "refused")
  /\ UNCHANGED <<run, current, denied, crossed, bounds>>

\* The fresh run replaces the map's entry, whatever it is by now.
Launch(c) ==
  LET r == 1 + Cardinality({x \in Runs : ~ Stage(x, {"none"})}) IN
  /\ caller[c].stage = "starting" /\ r \in Runs
  /\ \E steerable \in Steering :
       run' = [run EXCEPT ![r] = NewRun(caller[c].msg, steerable, caller[c].retry)]
  /\ current' = r
  /\ status' = "working" /\ misled' = FALSE
  /\ caller' = [caller EXCEPT ![c] = Finished(c)]
  /\ UNCHANGED <<denied, history, bounds>>

-----------------------------------------------------------------------------
(* The run's task: start and turns *)

taskVars == <<denied, crossed, bounds>>

Started(r) ==
  /\ Stage(r, {"starting"})
  /\ run' = [run EXCEPT ![r].stage = "turn"]
  /\ Mark({run[r].msg}, "ran")
  /\ UNCHANGED <<current, status, caller, misled, taskVars>>

\* Mutant: a run's end removes whatever run is registered.
UnregisterAny(r) == current' = 0

\* remove_run: only the run's own handle.
Unregister(r) == current' = IF current = r THEN 0 ELSE current

\* The agent does not come up: the handle goes, and its ledger with it.
StartFails(r) ==
  /\ "noStart" \in Agents
  /\ Stage(r, {"starting"})
  /\ run' = [run EXCEPT ![r].stage = "leaving", ![r].final = "errored"]
  /\ Unregister(r)
  /\ fate' = [m \in Messages |->
       IF fate[m] # "none" THEN fate[m]
       ELSE IF m = run[r].msg THEN "failed"
       ELSE IF m \in Abandoned(r) THEN "evaporated" ELSE "none"]
  /\ UNCHANGED <<status, caller, misled, taskVars>>

\* It comes up and dies before its session began: one more try with the same message.
Retry(r) ==
  /\ "retry" \in Agents
  /\ Stage(r, {"starting"}) /\ ~ run[r].retry
  /\ run' = [run EXCEPT ![r] = Gone(r)]
  /\ Unregister(r)
  /\ caller' = [caller EXCEPT ![r].queue = <<run[r].msg>>, ![r].retry = TRUE]
  /\ Mark(Abandoned(r), "evaporated")
  /\ UNCHANGED <<status, misled, taskVars>>

Oldest(ledger) == IF ledger = <<>> THEN {} ELSE {Head(ledger)}

\* The agent takes the next steer: a boundary, and the oldest ledger entry is retired,
\* which is another message's if two senders entered theirs in the other order.
Steered(r) ==
  /\ Stage(r, {"turn", "parked"}) /\ run[r].mailbox # <<>>
  /\ run' = [run EXCEPT
       ![r].stage = "turn",
       ![r].unresolved = FALSE,
       ![r].mailbox = Tail(@),
       ![r].ledger = IF current = r /\ @ # <<>> THEN Tail(@) ELSE @]
  /\ fate' = [m \in Messages |->
       IF m = Head(run[r].mailbox) THEN "ran"
       ELSE IF fate[m] = "none" /\ current = r /\ m \in Oldest(run[r].ledger) THEN "misfiled"
       ELSE fate[m]]
  /\ UNCHANGED <<current, caller, taskVars>>
  /\ SetStatus("working", r)

\* Output nobody asked for, after the gate's second: the parked session resumes.
SelfContinues(r) ==
  /\ "continues" \in Agents
  /\ Stage(r, {"parked"})
  /\ run' = [run EXCEPT ![r].stage = "turn"]
  /\ UNCHANGED <<current, caller, fate, taskVars>>
  /\ SetStatus("working", r)

\* The turn is over and the session stays: idle, child and mailbox warm.
Parked(r) == [run EXCEPT ![r].stage = "parked", ![r].unresolved = FALSE]

\* A turn's end answers its open questions, if the map still holds the run.
Drained(s, r) == [s EXCEPT ![r].pending = IF current = r THEN NoQuestion ELSE @]

Ended(s, r, final) == [s EXCEPT ![r].stage = "ended", ![r].final = final]

\* A Done of the agent, which may also come late, to a session that is parked.
TurnDone(r) ==
  /\ Stage(r, Looping)
  /\ UNCHANGED <<current, caller, fate, taskVars>>
  /\ IF run[r].steerable /\ ~ run[r].interrupted THEN
       /\ run' = Drained(Parked(r), r)
       /\ SetStatus("idle", r)
     ELSE
       /\ run' = Ended(Drained(run, r), r, "idle")
       /\ UNCHANGED <<status, misled>>

\* A Done with an error, or a turn whose stream ends without one.
TurnFails(r) ==
  /\ "errors" \in Agents
  /\ Stage(r, Looping)
  /\ run' = Ended(Drained(run, r), r, "errored")
  /\ UNCHANGED <<current, status, caller, misled, fate, taskVars>>

\* The watchdog: a silent turn with no question of its own unresolved parks.
Quiesce(r) ==
  /\ Stage(r, {"turn"}) /\ run[r].steerable
  /\ ~ run[r].interrupted /\ ~ run[r].unresolved
  /\ run' = Parked(r)
  /\ UNCHANGED <<current, caller, fate, taskVars>>
  /\ SetStatus("idle", r)

\* The reaper's half hour, or the death of the child: a clean end, no question is
\* drained.
ParkedEnds(r) ==
  /\ Stage(r, {"parked"})
  /\ run' = Ended(run, r, "idle")
  /\ UNCHANGED <<current, status, caller, misled, fate, taskVars>>

ObserveCancel(r) ==
  /\ Stage(r, Looping) /\ run[r].cancelled /\ ~ run[r].interrupted
  /\ run' = [run EXCEPT ![r].interrupted = TRUE]
  /\ UNCHANGED <<current, status, caller, misled, fate, taskVars>>

\* Mutant: the deadline is kept for a turn only.
GraceOverInTurn(r) ==
  /\ Stage(r, {"turn"}) /\ run[r].interrupted
  /\ run' = Ended(Drained(run, r), r, "idle")
  /\ UNCHANGED <<current, status, caller, misled, fate, taskVars>>

\* Past the grace period the loop ends the turn itself.
GraceOver(r) ==
  /\ Stage(r, Looping) /\ run[r].interrupted
  /\ run' = Ended(Drained(run, r), r, "idle")
  /\ UNCHANGED <<current, status, caller, misled, fate, taskVars>>

-----------------------------------------------------------------------------
(* The run's task: its exit *)

\* Mutant: the handle is gone before its ledger is read.
ClaimNothing(r) ==
  /\ Stage(r, {"ended"})
  /\ run' = [run EXCEPT ![r].stage = "claimed"]
  /\ UNCHANGED <<current, status, caller, misled, fate, taskVars>>

\* The steers nobody confirmed - if the map still holds this run.
Claim(r) ==
  /\ Stage(r, {"ended"})
  /\ run' = [run EXCEPT ![r].stage = "claimed",
                        ![r].orphans = IF current = r THEN run[r].ledger ELSE <<>>,
                        ![r].ledger = IF current = r THEN <<>> ELSE @]
  /\ Mark(IF current = r THEN {} ELSE Abandoned(r), Lost(r))
  /\ UNCHANGED <<current, status, caller, misled, taskVars>>

\* Mutant: the handle stays behind.
LeaveRegistered(r) ==
  /\ Stage(r, {"claimed"})
  /\ run' = [run EXCEPT ![r].stage = "leaving"]
  /\ UNCHANGED <<current, status, caller, misled, fate, taskVars>>

Leave(r) ==
  /\ Stage(r, {"claimed"})
  /\ run' = [run EXCEPT ![r].stage = "leaving"]
  /\ Unregister(r)
  /\ UNCHANGED <<status, caller, misled, fate, taskVars>>

\* Mutant: the status stays what the last turn made it.
SettleQuietly(r) ==
  /\ Stage(r, {"leaving"})
  /\ IF run[r].interrupted THEN
       /\ Mark(ToSet(run[r].orphans), "stopped")
       /\ UNCHANGED caller
     ELSE
       /\ caller' = [caller EXCEPT ![r].queue = run[r].orphans]
       /\ UNCHANGED fate
  /\ run' = [run EXCEPT ![r] = Gone(r)]
  /\ UNCHANGED <<current, status, misled, taskVars>>

\* The final status; what was claimed is dispatched again unless the run was stopped.
Settle(r) ==
  /\ Stage(r, {"leaving"})
  /\ status' = run[r].final /\ misled' = (current # 0)
  /\ IF run[r].interrupted THEN
       /\ Mark(ToSet(run[r].orphans), "stopped")
       /\ UNCHANGED caller
     ELSE
       /\ caller' = [caller EXCEPT ![r].queue = run[r].orphans]
       /\ UNCHANGED fate
  /\ run' = [run EXCEPT ![r] = Gone(r)]
  /\ UNCHANGED <<current, taskVars>>

-----------------------------------------------------------------------------
(* Questions and answers *)

\* The agent asks through the engine's bridge: the resolver first, the event behind
\* it.  One kind waits for an answer, the other for a permission.
Ask(r) ==
  /\ "asks" \in Agents
  /\ Stage(r, {"turn", "parked"}) /\ run[r].pending = NoQuestion
  /\ questions < MaxQuestions
  /\ questions' = questions + 1
  /\ \E kind \in {"input", "permit"} :
       LET q == [kind |-> kind, id |-> questions + 1] IN
       run' = [run EXCEPT ![r].pending = q,
                          ![r].engine = Append(@, [event |-> "asked", of |-> q])]
  /\ UNCHANGED <<current, status, caller, denied, misled, history, sent, stops>>

\* respond_input, respond_permission and the permission's timeout: only the
\* registered run's question is found; a denial also stops the run.
Answer ==
  /\ current # 0 /\ run[current].pending # NoQuestion
  /\ LET q == run[current].pending IN
     /\ run' = [run EXCEPT ![current].pending = NoQuestion,
                           ![current].engine = Append(@, [event |-> "answered", of |-> q])]
     /\ denied' \in (IF q.kind = "permit" THEN {denied, TRUE} ELSE {denied})
  /\ UNCHANGED <<current, status, caller, misled, history, bounds>>

\* Mutant: the event alone shows the question.
TakenAsIs(q) == TRUE

\* Does the registered run still hold the question's resolver?
Known(q) == current # 0 /\ run[current].pending = q

\* Mutant: an event opens a parked session.
Ungated(r) == TRUE

\* The parked gate: questions and answers belong to a turn.
InTurn(r) == Stage(r, {"turn"})

\* Events of the bridge.  An unknown question is dropped; a parked session declines
\* one and ignores an answer.
EngineEvent(r) ==
  LET e == Head(run[r].engine)
      rest == [run EXCEPT ![r].engine = Tail(@)]
  IN
  /\ Stage(r, Looping) /\ run[r].engine # <<>>
  /\ UNCHANGED <<current, caller, fate, taskVars>>
  /\ CASE e.event = "asked" /\ ~ Known(e.of) ->
            run' = rest /\ UNCHANGED <<status, misled>>
       [] e.event = "asked" /\ Known(e.of) /\ ~ InTurn(r) ->
            run' = [rest EXCEPT ![r].pending = NoQuestion] /\ UNCHANGED <<status, misled>>
       [] e.event = "asked" /\ Known(e.of) /\ InTurn(r) /\ e.of.kind = "input" ->
            run' = [rest EXCEPT ![r].unresolved = TRUE] /\ SetStatus("awaiting", r)
       [] e.event = "answered" /\ InTurn(r) /\ e.of.kind = "input" ->
            run' = [rest EXCEPT ![r].unresolved = FALSE] /\ SetStatus("working", r)
       [] OTHER -> run' = rest /\ UNCHANGED <<status, misled>>

-----------------------------------------------------------------------------

Call(c) ==
  \/ NextOrphan(c) \/ Route(c) \/ PushLedger(c) \/ Confirm(c) \/ Reclaim(c)
  \/ ShowWorking(c) \/ Replace(c) \/ StopWaited(c) \/ Refuse(c) \/ Launch(c)

Agent(r) ==
  \/ Started(r) \/ StartFails(r) \/ Retry(r) \/ Steered(r) \/ SelfContinues(r)
  \/ TurnDone(r) \/ TurnFails(r) \/ ParkedEnds(r) \/ Ask(r)

Task(r) ==
  \/ Quiesce(r) \/ ObserveCancel(r) \/ GraceOver(r) \/ EngineEvent(r)
  \/ Claim(r) \/ Leave(r) \/ Settle(r)

Next ==
  \/ \E how \in {"dispatch", "steer"} : Command(how)
  \/ StopCommand \/ DenialStops \/ Answer
  \/ \E c \in Callers : Call(c)
  \/ \E r \in Runs : Agent(r) \/ Task(r)

Spec == Init /\ [][Next]_vars

(* Callers and run tasks get on with their work, the grace period runs out, an     *)
(* agent comes up or its handshake times out, and it takes its mail.  Nothing says  *)
(* that it ends a turn, that somebody answers its question or that a parked session *)
(* is reaped.                                                                       *)
Fairness ==
  /\ \A c \in Callers : WF_vars(Call(c))
  /\ WF_vars(DenialStops)
  /\ \A r \in Runs :
       /\ WF_vars(Started(r) \/ StartFails(r))
       /\ WF_vars(Steered(r))
       /\ WF_vars(ObserveCancel(r) \/ GraceOver(r))
       /\ WF_vars(Claim(r) \/ Leave(r) \/ Settle(r))

FairSpec == Spec /\ Fairness

-----------------------------------------------------------------------------
(* Properties *)

Stages == {"none", "starting", "turn", "parked", "ended", "claimed", "leaving", "gone"}

Active == status \in {"working", "awaiting"}

\* Every handle and every caller is in a state its code can be in: no mailbox beyond
\* its capacity, nothing orphaned but by an exit under way, and the map never holds a
\* run whose exit is past its removal.
TypeOK ==
  /\ current \in 0 .. MaxRuns
  /\ status \in {"idle", "working", "awaiting", "errored"}
  /\ current # 0 => Stage(current, {"starting", "turn", "parked", "ended", "claimed"})
  /\ \A r \in Runs :
       /\ Stage(r, Stages)
       /\ Len(run[r].mailbox) <= MailboxSize
       /\ run[r].orphans # <<>> => Stage(r, {"claimed", "leaving"})
       /\ run[r].interrupted => run[r].cancelled
  /\ \A c \in Callers : caller[c].stage \in {"sent", "pushed", "confirmed"} => caller[c].target \in Runs
  /\ \A m \in Messages : fate[m] \in {"none", "ran", "failed", "refused", "stopped", "evaporated", "misfiled"}

\* Who still answers for a message.
Held(m) ==
  \/ \E c \in Callers : caller[c].msg = m \/ Contains(caller[c].queue, m)
  \/ \E r \in Runs :
       \/ Stage(r, {"starting"}) /\ run[r].msg = m
       \/ ~ Stage(r, {"none", "gone"}) /\ Contains(run[r].ledger \o run[r].orphans, m)

\* A message taken for the chat is run, visibly refused or failed, dropped by a stop,
\* or held by somebody who will still see to it - unless it met one of the gaps the
\* model marks: a start that fails with steers in the ledger, an entry that comes
\* after the exit's claim, a run whose map entry was overwritten, an entry retired for
\* another message's boundary.
AcceptedIsKept == \A m \in 1 .. sent : fate[m] # "none" \/ Held(m)

\* sessions.rs:435: "an accepted message can never silently evaporate from a
\* transcript that shows it as sent."
NothingEvaporates == \A m \in Messages : fate[m] # "evaporated"

\* An agent that nobody has stopped is the one the map holds, so that a stop, a steer
\* or an answer can reach it - as long as no two dispatches got past their look at the
\* map together.
SoleRunIsRegistered ==
  \A r \in Runs :
    Stage(r, {"starting"} \cup Looping) /\ ~ run[r].cancelled => current = r \/ crossed

\* The session says Working or AwaitingInput only while a run is coming up, in a
\* turn, on its way out or about to take a message, and at rest it is at rest - as
\* long as the last status was not written for a run that had moved on.
StatusIsTrue ==
  ~ misled =>
    IF Active
    THEN \/ \E r \in Runs : Stage(r, {"leaving"}) \/ caller[r].queue # <<>> \/ caller[r].stage # "idle"
         \/ current # 0 /\ (~ Stage(current, {"parked"}) \/ run[current].mailbox # <<>>)
    ELSE current # 0 => ~ Stage(current, {"starting", "turn"})

\* AwaitingInput means that an answer can still be given or is on its way, or that
\* the run is being stopped or ends.
AwaitingIsAnswerable ==
  status = "awaiting" /\ ~ misled /\ current # 0 =>
    \/ run[current].pending # NoQuestion
    \/ run[current].engine # <<>>
    \/ run[current].cancelled
    \/ ~ Stage(current, Looping)

\* A stop ends its run: with an agent that ignores it, with a question open.
StopEnds == \A r \in Runs : run[r].cancelled ~> Stage(r, {"gone"})

\* The bound is met: a message, or one before it, would need a run beyond MaxRuns.
OutOfRuns(m) ==
  /\ \A r \in Runs : ~ Stage(r, {"none"})
  /\ \E c \in Callers :
       caller[c].stage = "starting" /\ (caller[c].msg = m \/ Contains(caller[c].queue, m))

\* Every message taken for the chat is settled in the end: run, refused, failed or
\* dropped by a stop.  Nobody waits for somebody who waits for him.
MessagesSettle == \A m \in Messages : sent >= m ~> fate[m] # "none" \/ OutOfRuns(m)
==============================================================================
