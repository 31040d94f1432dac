---------------------------- MODULE CommandLedger ----------------------------
(***************************************************************************)
(* The durable commands of one chat on the device that hosts it: the       *)
(* pending entries in its document (crates/doc/src/commands.rs), the       *)
(* processed ledger in sqlite (crates/sync/src/store.rs) and the executor  *)
(* that drains them (crates/engine/src/doc_host.rs), with what it does to  *)
(* the chat's run (crates/engine/src/sessions.rs).                         *)
(*                                                                         *)
(* A command is its position in the document's list.  Its status is kept   *)
(* three times: in the open handle's document ("live"), in the document of *)
(* an evicted handle whose drain is still running ("orphan"), and in what  *)
(* a later open finds, snapshot and room ("stored").                       *)
(*                                                                         *)
(* Messages are numbered in the order they enter the transcript;           *)
(* `streaming' is the reply being written, 0 if there is none.             *)
(***************************************************************************)
EXTENDS Naturals, Sequences

CONSTANTS
  Kinds,          \* command kinds in use: subset of "run", "steer", "interrupt"
  Ttl,            \* COMMAND_DEFAULT_TTL_MS, in ticks
  Disturbances,   \* subset of "crash" and "evict"
  MaxCommands,    \* bound: commands ever queued
  MaxTime,        \* bound: ticks of the clock
  MaxMessages,    \* bound: no reply begins beyond this message
  MaxDisturbed    \* bound: crashes and evictions in a behaviour

ASSUME CommandLedgerAssumption ==
  /\ Kinds \subseteq {"run", "steer", "interrupt"}
  /\ Disturbances \subseteq {"crash", "evict"}
  /\ Ttl \in Nat /\ MaxCommands \in Nat /\ MaxTime \in Nat
  /\ MaxMessages \in Nat /\ MaxDisturbed \in Nat

VARIABLES
  cmds,        \* the command list of the document
  status,      \* document -> command -> status
  processed,   \* the processed ledger
  drain,       \* drainer -> what its loop is doing
  open,        \* a handle is open
  changed,     \* the open handle's change signal
  now,
  messages, running, streaming,   \* transcript length, live run, its open reply
  effects,     \* history: commands whose side effect happened, in order
  overlapped,  \* history: two drains of the chat were once at work together
  disturbed

Ids == 1 .. MaxCommands
Statuses == {"pending", "applied", "rejected", "expired", "superseded"}

\* The task of the open handle, and that of an evicted one.
Drainers == {"task", "orphan"}
DocOf(w) == IF w = "orphan" THEN "orphan" ELSE "live"

Idle == [stage |-> "idle", cmd |-> 0, verdict |-> "none", skipped |-> {}]
Scanning == [Idle EXCEPT !.stage = "scan"]

TookEffect(c) == \E i \in DOMAIN effects : effects[i] = c

AllPending == [c \in Ids |-> "pending"]

Stage(w, stage) == drain[w].stage = stage

\* A pass over the commands begins; nothing asks whether another is under way.
StartDrain(w) ==
  /\ drain' = [drain EXCEPT ![w] = Scanning]
  /\ overlapped' = (overlapped \/ \E v \in Drainers \ {w} : ~ Stage(v, "idle"))

runVars == <<messages, running, streaming>>
vars == <<cmds, status, processed, drain, open, changed, now, runVars,
          effects, overlapped, disturbed>>

Init ==
  /\ cmds = <<>>
  /\ status = [doc \in {"live", "orphan", "stored"} |-> AllPending]
  /\ processed = {}
  /\ drain = [w \in Drainers |-> Idle]
  /\ open = FALSE
  /\ changed = FALSE
  /\ now = 0
  /\ messages = 0 /\ running = FALSE /\ streaming = 0
  /\ effects = <<>>
  /\ overlapped = FALSE
  /\ disturbed = 0

-----------------------------------------------------------------------------
(* Commands come in, time passes *)

\* Any device queues a command and stamps it with its own clock and with the last
\* message it has seen (read of an interrupt only).
QueueCommand(kind) ==
  /\ Len(cmds) < MaxCommands
  /\ \E at \in 0 .. MaxTime, seen \in IF kind = "interrupt" THEN 0 .. messages ELSE {0} :
       cmds' = Append(cmds, [kind |-> kind, at |-> at, basedOn |-> seen])
  /\ changed' = open
  /\ UNCHANGED <<status, processed, drain, open, now, runVars, effects, overlapped, disturbed>>

Tick ==
  /\ now < MaxTime
  /\ now' = now + 1
  /\ UNCHANGED <<cmds, status, processed, drain, open, changed, runVars, effects, overlapped,
                 disturbed>>

-----------------------------------------------------------------------------
(* The handle and its task *)

\* Mutant: the task starts by waiting for a change.
OpenQuietly ==
  /\ ~ open
  /\ open' = TRUE
  /\ status' = [status EXCEPT !["live"] = status["stored"]]
  /\ changed' = FALSE
  /\ UNCHANGED <<cmds, processed, drain, now, runVars, effects, overlapped, disturbed>>

\* The task's initial pass: the snapshot may already carry pending commands.
Open ==
  /\ ~ open
  /\ open' = TRUE
  /\ status' = [status EXCEPT !["live"] = status["stored"]]
  /\ StartDrain("task")
  /\ changed' = FALSE
  /\ UNCHANGED <<cmds, processed, now, runVars, effects, disturbed>>

\* The change signal only wakes the task between two passes, and keeps a change
\* that comes during one.
Wake ==
  /\ open /\ changed
  /\ drain["task"].stage = "idle"
  /\ StartDrain("task")
  /\ changed' = FALSE
  /\ UNCHANGED <<cmds, status, processed, open, now, runVars, effects, disturbed>>

-----------------------------------------------------------------------------
(* drain_commands: find, evaluate, mark, execute, resolve *)

Candidates(w) ==
  {c \in 1 .. Len(cmds) : /\ status[DocOf(w)][c] = "pending"
                          /\ c \notin drain[w].skipped
                          /\ c \notin processed}

ScanVars == <<cmds, status, processed, open, now, runVars, effects, overlapped, disturbed>>

FindPending(w) ==
  /\ Stage(w, "scan")
  /\ \E c \in Candidates(w) :
       /\ \A other \in Candidates(w) : c <= other
       /\ drain' = [drain EXCEPT ![w].stage = "found", ![w].cmd = c]
  /\ UNCHANGED <<changed, ScanVars>>

\* Nothing is left to do; an evicted handle is dropped with its document.
EndDrain(w) ==
  /\ Stage(w, "scan")
  /\ Candidates(w) = {}
  /\ drain' = [drain EXCEPT ![w] = Idle]
  /\ status' = IF w = "orphan" THEN [status EXCEPT ![w] = AllPending] ELSE status
  /\ UNCHANGED <<cmds, processed, open, changed, now, runVars, effects, overlapped, disturbed>>

\* Mutant: any pending command of the same kind takes over, newer or not.
SupersededByAny(doc, c, newer) ==
  /\ cmds[c].kind \in {"steer", "interrupt"}
  /\ cmds[newer].kind = cmds[c].kind
  /\ status[doc][newer] = "pending"
  /\ newer # c

\* A newer pending command of the same kind takes over a steer or an interrupt.
SupersededBy(doc, c, newer) ==
  /\ cmds[c].kind \in {"steer", "interrupt"}
  /\ cmds[newer].kind = cmds[c].kind
  /\ status[doc][newer] = "pending"
  /\ cmds[newer].at > cmds[c].at

\* An interrupt aimed at an older message than the last one.
AimsAtPastTurn(c) ==
  cmds[c].kind = "interrupt" /\ cmds[c].basedOn \in 1 .. messages - 1

Verdict(doc, c) ==
  CASE c \in processed -> "skip"
    [] c \notin processed /\ now >= cmds[c].at + Ttl -> "expired"
    [] OTHER -> IF (\E n \in 1 .. Len(cmds) : SupersededBy(doc, c, n)) \/ AimsAtPastTurn(c)
                THEN "superseded" ELSE "execute"

EvaluateCommand(w) ==
  /\ Stage(w, "found")
  /\ drain' = [drain EXCEPT ![w].stage = "marking",
                            ![w].verdict = Verdict(DocOf(w), drain[w].cmd)]
  /\ UNCHANGED <<changed, ScanVars>>

\* Mutant: a command that is to be executed is not marked first.
MarkUnlessExecuting(w) ==
  /\ Stage(w, "marking")
  /\ processed' = IF drain[w].verdict = "execute" THEN processed
                                                  ELSE processed \cup {drain[w].cmd}
  /\ drain' = [drain EXCEPT ![w] =
                 CASE @.verdict = "skip" ->
                        [Scanning EXCEPT !.skipped = drain[w].skipped \cup {drain[w].cmd}]
                   [] @.verdict = "execute" -> [@ EXCEPT !.stage = "executing"]
                   [] OTHER -> [@ EXCEPT !.stage = "resolving"]]
  /\ UNCHANGED <<cmds, status, open, changed, now, runVars, effects, overlapped, disturbed>>

\* The ledger is written before anything happens, whatever the verdict; nobody
\* looks at whether it already held the command.
MarkProcessed(w) ==
  /\ Stage(w, "marking")
  /\ processed' = processed \cup {drain[w].cmd}
  /\ drain' = [drain EXCEPT ![w] =
                 CASE @.verdict = "skip" ->
                        [Scanning EXCEPT !.skipped = drain[w].skipped \cup {drain[w].cmd}]
                   [] @.verdict = "execute" -> [@ EXCEPT !.stage = "executing"]
                   [] OTHER -> [@ EXCEPT !.stage = "resolving"]]
  /\ UNCHANGED <<cmds, status, open, changed, now, runVars, effects, overlapped, disturbed>>

\* A steer, or a run dispatched while a steerable run is live, goes to that run as
\* its next message.
RouteSteer ==
  /\ running
  /\ messages' = messages + 1
  /\ UNCHANGED <<running, streaming>>

\* Otherwise a fresh run, after any live one was interrupted.
Dispatch ==
  /\ messages' = messages + 1
  /\ running' = TRUE
  /\ streaming' = 0

Interrupt ==
  /\ running' = FALSE
  /\ streaming' = 0
  /\ UNCHANGED messages

\* The side effect; it goes through the open handle, reopened if need be.
Execute(w) ==
  LET c == drain[w].cmd
  IN  /\ Stage(w, "executing")
      /\ open
      /\ IF cmds[c].kind = "interrupt" THEN Interrupt ELSE RouteSteer \/ Dispatch
      /\ effects' = Append(effects, c)
      /\ drain' = [drain EXCEPT ![w].stage = "resolving", ![w].verdict = "applied"]
      /\ changed' = TRUE
      /\ UNCHANGED <<cmds, status, processed, open, now, overlapped, disturbed>>

\* Mutant: the engine fails after the message was routed or the run started.
RefuseTooLate(w) ==
  /\ Stage(w, "executing")
  /\ cmds[drain[w].cmd].kind # "interrupt"
  /\ RouteSteer \/ Dispatch
  /\ effects' = Append(effects, drain[w].cmd)
  /\ drain' = [drain EXCEPT ![w].stage = "resolving", ![w].verdict = "rejected"]
  /\ changed' = TRUE
  /\ UNCHANGED <<cmds, status, processed, open, now, overlapped, disturbed>>

\* No harness, no model, no run config: the engine refuses, before or after it
\* stopped the live run it was going to replace.
Refuse(w) ==
  /\ Stage(w, "executing")
  /\ cmds[drain[w].cmd].kind # "interrupt"
  /\ Interrupt \/ UNCHANGED runVars
  /\ drain' = [drain EXCEPT ![w].stage = "resolving", ![w].verdict = "rejected"]
  /\ changed' = (changed \/ (open /\ running' # running))
  /\ UNCHANGED <<cmds, status, processed, open, now, effects, overlapped, disturbed>>

\* The outcome is written into the document of the handle the drain was started on.
ResolveCommand(w) ==
  /\ Stage(w, "resolving")
  /\ status' = [status EXCEPT ![DocOf(w)][drain[w].cmd] = drain[w].verdict]
  /\ drain' = [drain EXCEPT ![w] = [Scanning EXCEPT !.skipped = drain[w].skipped]]
  /\ changed' = (changed \/ DocOf(w) = "live")
  /\ UNCHANGED <<cmds, processed, open, now, runVars, effects, overlapped, disturbed>>

DrainStep(w) ==
  \/ FindPending(w) \/ EndDrain(w) \/ EvaluateCommand(w) \/ MarkProcessed(w)
  \/ Execute(w) \/ Refuse(w) \/ ResolveCommand(w)

-----------------------------------------------------------------------------
(* The chat's run writes its transcript *)

RunStepVars == <<cmds, status, processed, drain, open, now, effects, overlapped, disturbed>>

BeginReply ==
  /\ running /\ streaming = 0 /\ messages < MaxMessages
  /\ messages' = messages + 1
  /\ streaming' = messages + 1
  /\ changed' = open
  /\ UNCHANGED <<running, RunStepVars>>

\* The harness took a routed message: the reply is split at that point.
SplitReply ==
  /\ running /\ streaming # 0 /\ messages > streaming
  /\ streaming' = 0
  /\ changed' = open
  /\ UNCHANGED <<messages, running, RunStepVars>>

EndRun ==
  /\ running
  /\ running' = FALSE
  /\ streaming' = 0
  /\ changed' = open
  /\ UNCHANGED <<messages, RunStepVars>>

-----------------------------------------------------------------------------
(* Persistence, eviction, crash *)

Merge(base, over) == [c \in Ids |-> IF over[c] = "pending" THEN base[c] ELSE over[c]]

\* Snapshot or room: the outcomes in a document become what a later open finds.
\* What an evicted handle still pushes reaches the open one through the room.
Persist(w) ==
  LET doc == DocOf(w)
      merged == Merge(status["stored"], status[doc])
  IN  /\ IF w = "orphan" THEN ~ Stage(w, "idle") ELSE open
      /\ merged # status["stored"]
      /\ status' = [status EXCEPT !["stored"] = merged,
                                  !["live"] = IF open THEN Merge(@, status[doc]) ELSE @]
      /\ changed' = open
      /\ UNCHANGED <<cmds, processed, drain, open, now, runVars, effects, overlapped, disturbed>>

Disturb(kind) ==
  /\ kind \in Disturbances
  /\ disturbed < MaxDisturbed
  /\ disturbed' = disturbed + 1

\* Pinned: a run is writing into the document, or a pending command nobody has
\* taken up.
Pinned ==
  running \/ \E c \in 1 .. Len(cmds) : status["live"][c] = "pending" /\ c \notin processed

\* A handle nobody has opened for EVICT_MIN_IDLE_MS leaves the map after a last
\* snapshot.  Its task is at rest or in a call it awaits, which keeps the handle
\* alive, out of reach of everybody else.
Evict ==
  /\ Disturb("evict")
  /\ open /\ ~ Pinned
  /\ Stage("orphan", "idle")
  /\ Stage("task", "idle") \/ Stage("task", "executing")
  /\ open' = FALSE
  /\ status' = [status EXCEPT !["orphan"] = IF Stage("task", "idle") THEN @ ELSE status["live"],
                              !["stored"] = Merge(@, status["live"]),
                              !["live"] = AllPending]
  /\ drain' = [drain EXCEPT !["orphan"] = drain["task"], !["task"] = Idle]
  /\ changed' = FALSE
  /\ UNCHANGED <<cmds, processed, now, runVars, effects, overlapped>>

\* The process dies: the ledger and what was stored survive.
Crash ==
  /\ Disturb("crash")
  /\ open' = FALSE
  /\ drain' = [w \in Drainers |-> Idle]
  /\ status' = [status EXCEPT !["live"] = AllPending, !["orphan"] = AllPending]
  /\ changed' = FALSE
  /\ running' = FALSE /\ streaming' = 0
  /\ UNCHANGED <<cmds, processed, now, messages, effects, overlapped>>

-----------------------------------------------------------------------------

Next ==
  \/ \E kind \in Kinds : QueueCommand(kind)
  \/ Tick \/ Open \/ Wake
  \/ \E w \in Drainers : DrainStep(w) \/ Persist(w)
  \/ BeginReply \/ SplitReply \/ EndRun
  \/ Evict \/ Crash

Spec == Init /\ [][Next]_vars

\* The task and its drain run as long as the process does, and what a command asks
\* of the sessions engine returns.
Fairness ==
  /\ WF_vars(Open) /\ WF_vars(Wake)
  /\ \A w \in Drainers : WF_vars(DrainStep(w))

FairSpec == Spec /\ Fairness

-----------------------------------------------------------------------------
(* Properties *)

LedgerTypeOK ==
  /\ Len(cmds) <= MaxCommands
  /\ status \in [{"live", "orphan", "stored"} -> [Ids -> Statuses]]
  /\ processed \subseteq 1 .. Len(cmds)
  /\ \A w \in Drainers :
       /\ drain[w].stage \in {"idle", "scan", "found", "marking", "executing", "resolving"}
       /\ drain[w].cmd \in 0 .. Len(cmds)
  /\ streaming \in 0 .. messages
  /\ streaming # 0 => running
  /\ \A i \in DOMAIN effects : effects[i] \in processed

\* Commands take effect at most once and in the order they were queued, whatever
\* crashes, restarts and reopenings lie between them ...
ExecutesInOrder ==
  \A i, j \in DOMAIN effects : i < j => effects[i] < effects[j]

\* ... as long as no two drains were ever at work on the chat together.
SoleDrainExecutesInOrder == ~ overlapped => ExecutesInOrder

\* What the chat's devices are told of a command is what happened to it, in every
\* copy of the document, as long as no two drains were at work together.
SoleDrainIsHonest ==
  ~ overlapped =>
    \A doc \in DOMAIN status, c \in 1 .. Len(cmds) :
      /\ status[doc][c] = "applied" => TookEffect(c)
      /\ status[doc][c] \in {"rejected", "expired", "superseded"} => ~ TookEffect(c)

\* A steer is only dropped in favour of a newer one that was not dropped itself.
SupersededHasHeir ==
  \A c \in 1 .. Len(cmds) :
    status["stored"][c] = "superseded" /\ cmds[c].kind = "steer" =>
      \E n \in 1 .. Len(cmds) :
        /\ cmds[n].kind = "steer" /\ cmds[n].at > cmds[c].at
        /\ status["stored"][n] # "superseded"

\* A command that reaches the host is settled, unless the process dies on it.
CommandsSettle ==
  \A c \in Ids :
    c \in 1 .. Len(cmds) ~> status["live"][c] # "pending" \/ disturbed > 0

\* A stop is only dropped once the turn it was issued on is over, or for a newer stop.
StopReachesItsTurn ==
  [][\A c \in 1 .. Len(cmds) :
       /\ cmds[c].kind = "interrupt"
       /\ status["live"][c] = "pending" /\ status'["live"][c] = "superseded"
       => \/ streaming = 0 \/ streaming # cmds[c].basedOn
          \/ \E n \in 1 .. Len(cmds) : cmds[n].kind = "interrupt" /\ cmds[n].at > cmds[c].at]_vars

=============================================================================
