------------------------- MODULE CommandLedgerProofs -------------------------
(***************************************************************************)
(* Proofs about CommandLedger for any commands, clocks and bounds: its     *)
(* types, that commands take effect in order and are reported as they      *)
(* happened while no two drains overlap, and that a superseded steer has   *)
(* an heir.                                                                *)
(***************************************************************************)
EXTENDS CommandLedger, TLAPS, WellFoundedInduction

Stages == {"idle", "scan", "found", "marking", "executing", "resolving"}
Verdicts == {"none", "skip", "expired", "superseded", "execute", "applied", "rejected"}
Docs == {"live", "orphan", "stored"}

Command == [kind : Kinds, at : 0 .. MaxTime, basedOn : Nat]
Drain == [stage : Stages, cmd : Nat, verdict : Verdicts, skipped : SUBSET Nat]

Types ==
  /\ cmds \in Seq(Command)
  /\ Len(cmds) <= MaxCommands
  /\ status \in [Docs -> [Ids -> Statuses]]
  /\ processed \subseteq 1 .. Len(cmds)
  /\ drain \in [Drainers -> Drain]
  /\ messages \in Nat /\ streaming \in 0 .. messages
  /\ running \in BOOLEAN /\ (streaming # 0 => running)
  /\ open \in BOOLEAN /\ overlapped \in BOOLEAN
  /\ effects \in Seq(Nat)

\* What the stages of a drain promise, and that every trace of a command, in a
\* document, in a set of skipped ones or in the effects, is backed by the ledger.
DrainShape(w) ==
  /\ Stage(w, "found") \/ Stage(w, "marking") => drain[w].cmd \in 1 .. Len(cmds)
  /\ Stage(w, "executing") \/ Stage(w, "resolving") => drain[w].cmd \in processed
  /\ drain[w].cmd \in 0 .. Len(cmds)
  /\ drain[w].skipped \subseteq processed
  /\ Stage(w, "marking") => drain[w].verdict \in {"skip", "expired", "superseded", "execute"}
  /\ Stage(w, "resolving") => drain[w].verdict \in {"applied", "rejected", "expired", "superseded"}

Backed ==
  /\ \A w \in Drainers : DrainShape(w)
  /\ \A document \in Docs, c \in Ids : status[document][c] # "pending" => c \in processed
  /\ \A i \in DOMAIN effects : effects[i] \in processed

\* Without an overlap the ledger is a prefix of the command list, and the one drain
\* at work is at its end.
OneAtWork == \E w \in Drainers : Stage(w, "idle")

LedgerIsPrefix == \A c \in processed : \A b \in 1 .. c : b \in processed

AtEnd(w) ==
  /\ Stage(w, "found") \/ Stage(w, "marking") =>
       drain[w].cmd \notin processed /\ \A b \in 1 .. drain[w].cmd - 1 : b \in processed
  /\ Stage(w, "executing") =>
       /\ \A i \in DOMAIN effects : effects[i] < drain[w].cmd
       /\ \A document \in Docs : status[document][drain[w].cmd] = "pending"
  /\ Stage(w, "resolving") => (drain[w].verdict = "applied" <=> TookEffect(drain[w].cmd))

Honest ==
  \A document \in Docs, c \in Ids :
    /\ status[document][c] = "applied" => TookEffect(c)
    /\ status[document][c] \in {"rejected", "expired", "superseded"} => ~ TookEffect(c)

InOrder ==
  /\ OneAtWork
  /\ LedgerIsPrefix
  /\ \A w \in Drainers : AtEnd(w)
  /\ ExecutesInOrder
  /\ Honest

SoleInv == Types /\ Backed /\ (~ overlapped => InOrder)

\* A steer that is superseded, or about to be, has a newer one.
NewerSteer(c) ==
  \E n \in 1 .. Len(cmds) : cmds[n].kind = "steer" /\ cmds[n].at > cmds[c].at

-----------------------------------------------------------------------------
(***************************************************************************)
(* Types.  The ledger keeps its type because a drain only marks a command  *)
(* of the list, so the stages are needed too.                              *)
(***************************************************************************)

\* What Stage says, of a drain that has its type.
LEMMA StageOf ==
  ASSUME Types, NEW w \in Drainers
  PROVE  drain[w] \in Drain
BY DEF Types

\* No step leaves the types.
LEMMA TypesStep ==
  ASSUME Types, Backed, [Next]_vars
  PROVE  Types'
<1> USE DEF Types
<1>1. ASSUME NEW kind \in Kinds, QueueCommand(kind) PROVE Types'
  <2>1. PICK c \in Command : cmds' = Append(cmds, c)
    <3>1. PICK at \in 0 .. MaxTime, seen \in IF kind = "interrupt" THEN 0 .. messages ELSE {0} :
            cmds' = Append(cmds, [kind |-> kind, at |-> at, basedOn |-> seen])
      BY <1>1 DEF QueueCommand
    <3>2. seen \in Nat
      OBVIOUS
    <3>3. QED
      BY <3>1, <3>2 DEF Command
  <2>2. /\ cmds' \in Seq(Command)
        /\ Len(cmds') = Len(cmds) + 1
        /\ Len(cmds) \in Nat
    BY <2>1
  <2>3. Len(cmds') <= MaxCommands
    BY <1>1, <2>2, CommandLedgerAssumption DEF QueueCommand
  <2>4. processed' \subseteq 1 .. Len(cmds')
    BY <1>1, <2>2 DEF QueueCommand
  <2>5. QED
    BY <1>1, <2>2, <2>3, <2>4 DEF QueueCommand, runVars
<1>2. CASE Tick
  BY <1>2 DEF Tick, runVars
<1>a. Idle \in Drain /\ Scanning \in Drain
  BY DEF Idle, Scanning, Drain, Stages, Verdicts
<1>d. ASSUME running' = FALSE, streaming' = 0, messages' = messages
      PROVE  /\ messages' \in Nat /\ streaming' \in 0 .. messages'
             /\ running' \in BOOLEAN /\ (streaming' # 0 => running')
  <2>1. messages' \in Nat /\ streaming' \in 0 .. messages'
    BY <1>d
  <2>2. QED
    BY <1>d, <2>1
<1>3. CASE Open
  <2>1. status' \in [Docs -> [Ids -> Statuses]]
    BY <1>3 DEF Open, Docs
  <2>2. drain' \in [Drainers -> Drain] /\ overlapped' \in BOOLEAN
    BY <1>3, <1>a DEF Open, StartDrain
  <2>3. QED
    BY <1>3, <2>1, <2>2 DEF Open, runVars
<1>4. CASE Wake
  <2>1. drain' \in [Drainers -> Drain] /\ overlapped' \in BOOLEAN
    BY <1>4, <1>a DEF Wake, StartDrain
  <2>2. QED
    BY <1>4, <2>1 DEF Wake, runVars
<1>5. ASSUME NEW w \in Drainers, FindPending(w) PROVE Types'
  <2>1. PICK c \in Candidates(w) : drain' = [drain EXCEPT ![w].stage = "found", ![w].cmd = c]
    BY <1>5 DEF FindPending
  <2>2. c \in Nat
    BY <2>1 DEF Candidates
  <2>3. drain' \in [Drainers -> Drain]
    BY <2>1, <2>2 DEF Drain, Stages
  <2>4. QED
    BY <1>5, <2>3 DEF FindPending, ScanVars, runVars
<1>6. ASSUME NEW w \in Drainers, EndDrain(w) PROVE Types'
  <2>1. status' \in [Docs -> [Ids -> Statuses]]
    BY <1>6 DEF EndDrain, Docs, AllPending, Statuses
  <2>2. drain' \in [Drainers -> Drain]
    BY <1>6, <1>a DEF EndDrain
  <2>3. QED
    BY <1>6, <2>1, <2>2 DEF EndDrain, runVars
<1>7. ASSUME NEW w \in Drainers, EvaluateCommand(w) PROVE Types'
  <2>1. Verdict(DocOf(w), drain[w].cmd) \in Verdicts
    BY DEF Verdict, Verdicts
  <2>2. drain' \in [Drainers -> Drain]
    BY <1>7, <2>1 DEF EvaluateCommand, Drain, Stages
  <2>3. QED
    BY <1>7, <2>2 DEF EvaluateCommand, ScanVars, runVars
<1>8. ASSUME NEW w \in Drainers, MarkProcessed(w) PROVE Types'
  <2>1. drain[w].cmd \in 1 .. Len(cmds)
    BY <1>8 DEF MarkProcessed, Backed, DrainShape
  <2>2. processed' \subseteq 1 .. Len(cmds)
    BY <1>8, <2>1 DEF MarkProcessed
  <2>3. drain[w] \in Drain
    BY StageOf
  <2>4. drain[w].skipped \cup {drain[w].cmd} \in SUBSET Nat
    BY <2>3 DEF Drain
  <2>5. [Scanning EXCEPT !.skipped = drain[w].skipped \cup {drain[w].cmd}] \in Drain
    BY <1>a, <2>4 DEF Drain
  <2>6. /\ [drain[w] EXCEPT !.stage = "executing"] \in Drain
        /\ [drain[w] EXCEPT !.stage = "resolving"] \in Drain
    BY <2>3 DEF Drain, Stages
  <2>7. drain' \in [Drainers -> Drain]
    BY <1>8, <2>5, <2>6 DEF MarkProcessed
  <2>8. QED
    BY <1>8, <2>2, <2>7 DEF MarkProcessed, runVars
<1>9. ASSUME NEW w \in Drainers, Execute(w) PROVE Types'
  <2>1. drain' \in [Drainers -> Drain]
    BY <1>9 DEF Execute, Drain, Stages, Verdicts
  <2>2. drain[w].cmd \in Nat
    BY StageOf DEF Drain
  <2>3. effects' \in Seq(Nat)
    BY <1>9, <2>2 DEF Execute
  <2>4. /\ messages' \in Nat /\ streaming' \in 0 .. messages'
        /\ running' \in BOOLEAN /\ (streaming' # 0 => running')
    <3>1. CASE Interrupt
      BY <3>1, <1>d DEF Interrupt
    <3>2. CASE RouteSteer
      BY <3>2 DEF RouteSteer
    <3>3. CASE Dispatch
      BY <3>3 DEF Dispatch
    <3>4. QED
      BY <1>9, <3>1, <3>2, <3>3 DEF Execute
  <2>5. UNCHANGED <<cmds, status, processed, open, overlapped>>
    BY <1>9 DEF Execute
  <2>6. QED
    BY <2>1, <2>3, <2>4, <2>5
<1>10. ASSUME NEW w \in Drainers, Refuse(w) PROVE Types'
  <2>1. drain' \in [Drainers -> Drain]
    BY <1>10 DEF Refuse, Drain, Stages, Verdicts
  <2>2. /\ messages' \in Nat /\ streaming' \in 0 .. messages'
        /\ running' \in BOOLEAN /\ (streaming' # 0 => running')
    <3>1. CASE Interrupt
      BY <3>1, <1>d DEF Interrupt
    <3>2. CASE UNCHANGED runVars
      BY <3>2 DEF runVars
    <3>3. QED
      BY <1>10, <3>1, <3>2 DEF Refuse
  <2>3. QED
    BY <1>10, <2>1, <2>2 DEF Refuse
<1>11. ASSUME NEW w \in Drainers, ResolveCommand(w) PROVE Types'
  <2>1. drain[w].verdict \in Statuses /\ drain[w].skipped \in SUBSET Nat
    BY <1>11, StageOf DEF ResolveCommand, Backed, DrainShape, Statuses, Drain
  <2>2. status' \in [Docs -> [Ids -> Statuses]]
    BY <1>11, <2>1 DEF ResolveCommand
  <2>3. [Scanning EXCEPT !.skipped = drain[w].skipped] \in Drain
    BY <1>a, <2>1 DEF Drain
  <2>4. drain' \in [Drainers -> Drain]
    BY <1>11, <2>3 DEF ResolveCommand
  <2>5. QED
    BY <1>11, <2>2, <2>4 DEF ResolveCommand, runVars
<1>b. ASSUME NEW base \in [Ids -> Statuses], NEW over \in [Ids -> Statuses]
      PROVE  Merge(base, over) \in [Ids -> Statuses]
  BY <1>b DEF Merge
<1>12. ASSUME NEW w \in Drainers, Persist(w) PROVE Types'
  <2>1. DocOf(w) \in Docs
    BY DEF DocOf, Docs
  <2>2. status' \in [Docs -> [Ids -> Statuses]]
    BY <1>12, <1>b, <2>1 DEF Persist, Docs
  <2>3. QED
    BY <1>12, <2>2 DEF Persist, runVars
<1>13. CASE BeginReply
  BY <1>13 DEF BeginReply, RunStepVars
<1>14. CASE SplitReply
  BY <1>14 DEF SplitReply, RunStepVars
<1>15. CASE EndRun
  <2>1. UNCHANGED <<cmds, status, processed, drain, open, effects, overlapped>>
    BY <1>15 DEF EndRun, RunStepVars
  <2>2. QED
    BY <1>15, <1>d, <2>1 DEF EndRun
<1>c. AllPending \in [Ids -> Statuses]
  BY DEF AllPending, Statuses
<1>16. CASE Evict
  <2>1. Merge(status["stored"], status["live"]) \in [Ids -> Statuses]
    BY <1>b DEF Docs
  <2>2. status' \in [Docs -> [Ids -> Statuses]]
    BY <1>16, <1>c, <2>1 DEF Evict, Docs
  <2>3. drain' \in [Drainers -> Drain]
    BY <1>16, <1>a DEF Evict, Drainers
  <2>4. QED
    BY <1>16, <2>2, <2>3 DEF Evict, Disturb, runVars
<1>17. CASE Crash
  <2>1. status' \in [Docs -> [Ids -> Statuses]]
    BY <1>17, <1>c DEF Crash, Docs
  <2>2. drain' \in [Drainers -> Drain]
    BY <1>17, <1>a DEF Crash
  <2>3. UNCHANGED <<cmds, processed, effects, overlapped>> /\ open' = FALSE
    BY <1>17 DEF Crash
  <2>4. QED
    BY <1>17, <1>d, <2>1, <2>2, <2>3 DEF Crash
<1>18. CASE UNCHANGED vars
  BY <1>18 DEF vars, runVars
<1>19. QED
  BY <1>1, <1>2, <1>3, <1>4, <1>5, <1>6, <1>7, <1>8, <1>9, <1>10, <1>11, <1>12, <1>13,
     <1>14, <1>15, <1>16, <1>17, <1>18 DEF Next, DrainStep

\* A drain that is idle or scanning promises nothing but what it skips.
LEMMA RestingShape ==
  ASSUME NEW w \in Drainers, NEW skipped,
         \/ drain'[w] \in {Idle, Scanning}
         \/ drain'[w] = [Scanning EXCEPT !.skipped = skipped],
         skipped \subseteq processed', Len(cmds') \in Nat
  PROVE  DrainShape(w)'
<1>1. CASE drain'[w] \in {Idle, Scanning}
  BY <1>1 DEF DrainShape, Stage, Idle, Scanning
<1>2. CASE drain'[w] = [Scanning EXCEPT !.skipped = skipped]
  BY <1>2 DEF DrainShape, Stage, Scanning, Idle
<1>3. QED
  BY <1>1, <1>2

\* A drain that did not move stays backed: the list and the ledger only grow.
LEMMA UnmovedShape ==
  ASSUME NEW w \in Drainers, NEW v \in Drainers, DrainShape(v), drain'[w] = drain[v],
         Len(cmds) \in Nat, Len(cmds') \in Nat, Len(cmds) <= Len(cmds'),
         processed \subseteq processed'
  PROVE  DrainShape(w)'
BY DEF DrainShape, Stage

BackedStatus == \A document \in Docs, c \in Ids : status[document][c] # "pending" => c \in processed
BackedEffects == \A i \in DOMAIN effects : effects[i] \in processed

\* No step makes a status, a skip or an effect the ledger does not back.
LEMMA BackedStep ==
  ASSUME Types, Backed, [Next]_vars
  PROVE  Backed'
<1> DEFINE Shapes == \A w \in Drainers : DrainShape(w)
<1>0. /\ Shapes /\ BackedStatus /\ BackedEffects
      /\ Len(cmds) \in Nat
      /\ drain \in [Drainers -> Drain]
      /\ status \in [Docs -> [Ids -> Statuses]]
      /\ effects \in Seq(Nat)
  BY DEF Backed, BackedStatus, BackedEffects, Types
<1>z. SUFFICES Shapes' /\ BackedStatus' /\ BackedEffects'
  BY DEF Backed, BackedStatus, BackedEffects
<1>l. Len(cmds') \in Nat
  BY TypesStep DEF Types
<1> HIDE DEF Shapes
<1>s. ASSUME UNCHANGED <<processed, status>> PROVE BackedStatus'
  BY <1>0, <1>s DEF BackedStatus
<1>e. ASSUME UNCHANGED <<processed, effects>> PROVE BackedEffects'
  BY <1>0, <1>e DEF BackedEffects
<1>d. ASSUME UNCHANGED <<processed, drain>>, Len(cmds) <= Len(cmds') PROVE Shapes'
  BY <1>0, <1>d, <1>l, UnmovedShape DEF Shapes
<1>1. ASSUME NEW kind \in Kinds, QueueCommand(kind) PROVE Shapes' /\ BackedStatus' /\ BackedEffects'
  <2>1. Len(cmds) <= Len(cmds')
    BY <1>1, <1>0 DEF QueueCommand, Types
  <2>2. QED
    BY <1>1, <1>s, <1>e, <1>d, <2>1 DEF QueueCommand
<1>2. CASE Tick
  BY <1>2, <1>0, <1>s, <1>e, <1>d DEF Tick
<1> DEFINE Unmoved(v) == drain'[v] = drain[v]
           Resting(v) == \/ drain'[v] \in {Idle, Scanning}
                         \/ \E skipped \in SUBSET processed' :
                              drain'[v] = [Scanning EXCEPT !.skipped = skipped]
<1>m. ASSUME processed \subseteq processed', Len(cmds) <= Len(cmds'),
             \A v \in Drainers : Unmoved(v) \/ Resting(v) \/ DrainShape(v)'
      PROVE  Shapes'
  <2>1. ASSUME NEW v \in Drainers, Unmoved(v) PROVE DrainShape(v)'
    BY <1>0, <1>m, <1>l, <2>1, UnmovedShape DEF Shapes
  <2>2. ASSUME NEW v \in Drainers, Resting(v) PROVE DrainShape(v)'
    <3>1. CASE drain'[v] \in {Idle, Scanning}
      BY <3>1, <1>l, RestingShape
    <3>2. CASE \E skipped \in SUBSET processed' :
                 drain'[v] = [Scanning EXCEPT !.skipped = skipped]
      BY <3>2, <1>l, RestingShape
    <3>3. QED
      BY <2>2, <3>1, <3>2
  <2>3. QED
    BY <1>m, <2>1, <2>2 DEF Shapes
<1> HIDE DEF Unmoved, Resting
<1>3. CASE Open
  <2>1. \A v \in Drainers : Unmoved(v) \/ Resting(v)
    BY <1>3, <1>0 DEF Open, StartDrain, Drainers, Unmoved, Resting
  <2>u. UNCHANGED <<cmds, processed>>
    BY <1>3 DEF Open
  <2>2. Shapes'
    BY <1>0, <1>m, <2>1, <2>u
  <2>3. BackedStatus'
    BY <1>3, <1>0 DEF Open, BackedStatus, Docs
  <2>4. QED
    BY <1>3, <1>e, <2>2, <2>3 DEF Open
<1>4. CASE Wake
  <2>1. \A v \in Drainers : Unmoved(v) \/ Resting(v)
    BY <1>4, <1>0 DEF Wake, StartDrain, Drainers, Unmoved, Resting
  <2>u. UNCHANGED <<cmds, processed>>
    BY <1>4 DEF Wake
  <2>2. Shapes'
    BY <1>0, <1>m, <2>1, <2>u
  <2>3. QED
    BY <1>4, <1>s, <1>e, <2>2 DEF Wake
<1>5. ASSUME NEW w \in Drainers, FindPending(w) PROVE Shapes' /\ BackedStatus' /\ BackedEffects'
  <2>1. PICK c \in Candidates(w) : drain' = [drain EXCEPT ![w].stage = "found", ![w].cmd = c]
    BY <1>5 DEF FindPending
  <2>2. c \in 1 .. Len(cmds)
    BY DEF Candidates
  <2>u. UNCHANGED <<cmds, processed, status, effects>>
    BY <1>5 DEF FindPending, ScanVars
  <2>3. drain'[w] = [drain[w] EXCEPT !.stage = "found", !.cmd = c]
    BY <1>0, <2>1 DEF Drain
  <2>4. DrainShape(w)'
    BY <1>0, <2>2, <2>3, <2>u DEF DrainShape, Stage, Shapes, Drain
  <2>5. \A v \in Drainers : Unmoved(v) \/ DrainShape(v)'
    BY <1>0, <2>1, <2>4 DEF Unmoved
  <2>6. QED
    BY <1>0, <1>s, <1>e, <1>m, <2>5, <2>u
<1>6. ASSUME NEW w \in Drainers, EndDrain(w) PROVE Shapes' /\ BackedStatus' /\ BackedEffects'
  <2>1. \A v \in Drainers : Unmoved(v) \/ Resting(v)
    BY <1>6, <1>0 DEF EndDrain, Unmoved, Resting
  <2>2. Shapes'
    BY <1>6, <1>0, <1>m, <2>1 DEF EndDrain
  <2>3. BackedStatus'
    BY <1>6, <1>0 DEF EndDrain, BackedStatus, AllPending
  <2>4. QED
    BY <1>6, <1>e, <2>2, <2>3 DEF EndDrain
<1>7. ASSUME NEW w \in Drainers, EvaluateCommand(w) PROVE Shapes' /\ BackedStatus' /\ BackedEffects'
  <2>1. Verdict(DocOf(w), drain[w].cmd) \in {"skip", "expired", "superseded", "execute"}
    BY DEF Verdict
  <2>u. UNCHANGED <<cmds, processed, status, effects>>
    BY <1>7 DEF EvaluateCommand, ScanVars
  <2>2. drain'[w] = [drain[w] EXCEPT !.stage = "marking", !.verdict = Verdict(DocOf(w), drain[w].cmd)]
    BY <1>7, <1>0 DEF EvaluateCommand, Drain
  <2>3. DrainShape(w)'
    BY <1>7, <1>0, <2>1, <2>2, <2>u DEF EvaluateCommand, DrainShape, Stage, Shapes, Drain
  <2>4. \A v \in Drainers : Unmoved(v) \/ DrainShape(v)'
    BY <1>7, <1>0, <2>3 DEF EvaluateCommand, Unmoved
  <2>5. QED
    BY <1>0, <1>s, <1>e, <1>m, <2>4, <2>u
<1>8. ASSUME NEW w \in Drainers, MarkProcessed(w) PROVE Shapes' /\ BackedStatus' /\ BackedEffects'
  <2>u. UNCHANGED <<cmds, status, effects>> /\ processed' = processed \cup {drain[w].cmd}
    BY <1>8 DEF MarkProcessed
  <2>1. /\ drain[w].cmd \in 1 .. Len(cmds)
        /\ drain[w].skipped \subseteq processed
        /\ drain[w].verdict \in {"skip", "expired", "superseded", "execute"}
    BY <1>8, <1>0 DEF MarkProcessed, DrainShape, Shapes
  <2>2. ASSUME drain[w].verdict = "skip" PROVE DrainShape(w)'
    <3>1. drain'[w] = [Scanning EXCEPT !.skipped = drain[w].skipped \cup {drain[w].cmd}]
      BY <1>8, <1>0, <2>2 DEF MarkProcessed
    <3>2. QED
      BY <1>l, <2>1, <2>u, <3>1, RestingShape
  <2>3. ASSUME drain[w].verdict = "execute" PROVE DrainShape(w)'
    <3>1. drain'[w] = [drain[w] EXCEPT !.stage = "executing"]
      BY <1>8, <1>0, <2>3 DEF MarkProcessed
    <3>2. QED
      BY <1>0, <2>1, <2>u, <3>1 DEF DrainShape, Stage, Drain
  <2>4. ASSUME drain[w].verdict \in {"expired", "superseded"} PROVE DrainShape(w)'
    <3>1. drain'[w] = [drain[w] EXCEPT !.stage = "resolving"]
      BY <1>8, <1>0, <2>4 DEF MarkProcessed
    <3>2. QED
      BY <1>0, <2>1, <2>4, <2>u, <3>1 DEF DrainShape, Stage, Drain
  <2>5. DrainShape(w)'
    BY <2>1, <2>2, <2>3, <2>4
  <2>6. \A v \in Drainers : Unmoved(v) \/ DrainShape(v)'
    BY <1>8, <1>0, <2>5 DEF MarkProcessed, Unmoved
  <2>7. QED
    BY <1>0, <1>m, <2>6, <2>u DEF BackedStatus, BackedEffects
<1>9. ASSUME NEW w \in Drainers, Execute(w) PROVE Shapes' /\ BackedStatus' /\ BackedEffects'
  <2>u. UNCHANGED <<cmds, status, processed>>
    BY <1>9 DEF Execute
  <2>1. drain[w].cmd \in processed
    BY <1>9, <1>0 DEF Execute, DrainShape, Shapes
  <2>2. drain'[w] = [drain[w] EXCEPT !.stage = "resolving", !.verdict = "applied"]
    BY <1>9, <1>0 DEF Execute, Drain
  <2>3. DrainShape(w)'
    BY <1>0, <2>1, <2>2, <2>u DEF DrainShape, Stage, Shapes, Drain
  <2>4. \A v \in Drainers : Unmoved(v) \/ DrainShape(v)'
    BY <1>9, <1>0, <2>3 DEF Execute, Unmoved
  <2>5. BackedEffects'
    <3>1. effects' = Append(effects, drain[w].cmd) /\ drain[w].cmd \in Nat
      BY <1>9, <1>0 DEF Execute, Drain
    <3>2. QED
      BY <1>0, <2>1, <2>u, <3>1 DEF BackedEffects
  <2>6. QED
    BY <1>0, <1>s, <1>m, <2>4, <2>5, <2>u
<1>10. ASSUME NEW w \in Drainers, Refuse(w) PROVE Shapes' /\ BackedStatus' /\ BackedEffects'
  <2>u. UNCHANGED <<cmds, status, processed, effects>>
    BY <1>10 DEF Refuse
  <2>1. drain[w].cmd \in processed
    BY <1>10, <1>0 DEF Refuse, DrainShape, Shapes
  <2>2. drain'[w] = [drain[w] EXCEPT !.stage = "resolving", !.verdict = "rejected"]
    BY <1>10, <1>0 DEF Refuse, Drain
  <2>3. DrainShape(w)'
    BY <1>0, <2>1, <2>2, <2>u DEF DrainShape, Stage, Shapes, Drain
  <2>4. \A v \in Drainers : Unmoved(v) \/ DrainShape(v)'
    BY <1>10, <1>0, <2>3 DEF Refuse, Unmoved
  <2>5. QED
    BY <1>0, <1>s, <1>e, <1>m, <2>4, <2>u
<1>11. ASSUME NEW w \in Drainers, ResolveCommand(w) PROVE Shapes' /\ BackedStatus' /\ BackedEffects'
  <2>u. UNCHANGED <<cmds, processed, effects>>
    BY <1>11 DEF ResolveCommand
  <2>1. drain[w].cmd \in processed /\ drain[w].skipped \subseteq processed
    BY <1>11, <1>0 DEF ResolveCommand, DrainShape, Shapes
  <2>2. \A v \in Drainers : Unmoved(v) \/ Resting(v)
    BY <1>11, <1>0, <2>1, <2>u DEF ResolveCommand, Unmoved, Resting
  <2>3. BackedStatus'
    BY <1>11, <1>0, <2>1, <2>u DEF ResolveCommand, BackedStatus
  <2>4. QED
    BY <1>0, <1>e, <1>m, <2>2, <2>3, <2>u
<1>12. ASSUME NEW w \in Drainers, Persist(w) PROVE Shapes' /\ BackedStatus' /\ BackedEffects'
  <2>u. UNCHANGED <<cmds, processed, effects, drain>>
    BY <1>12 DEF Persist
  <2>1. DocOf(w) \in Docs
    BY DEF DocOf, Docs
  <2>2. BackedStatus'
    BY <1>12, <1>0, <2>1, <2>u DEF Persist, Merge, BackedStatus, Docs
  <2>3. QED
    BY <1>0, <1>e, <1>d, <2>2, <2>u
<1>13. CASE BeginReply \/ SplitReply \/ EndRun
  <2>1. UNCHANGED <<cmds, processed, status, drain, effects>>
    BY <1>13 DEF BeginReply, SplitReply, EndRun, RunStepVars
  <2>2. QED
    BY <1>0, <1>s, <1>e, <1>d, <2>1
<1>14. CASE Evict
  <2>u. UNCHANGED <<cmds, processed, effects>>
    BY <1>14 DEF Evict
  <2>1. drain'["orphan"] = drain["task"] /\ drain'["task"] = Idle
    BY <1>14, <1>0 DEF Evict, Drainers
  <2>2. DrainShape("orphan")'
    BY <1>0, <2>1, <2>u, UnmovedShape DEF Drainers, Shapes
  <2>3. \A v \in Drainers : Resting(v) \/ DrainShape(v)'
    BY <2>1, <2>2 DEF Drainers, Resting
  <2>4. BackedStatus'
    BY <1>14, <1>0, <2>u DEF Evict, Merge, AllPending, BackedStatus, Docs
  <2>5. QED
    BY <1>0, <1>e, <1>m, <2>3, <2>4, <2>u
<1>15. CASE Crash
  <2>u. UNCHANGED <<cmds, processed, effects>> /\ drain' = [w \in Drainers |-> Idle]
    BY <1>15 DEF Crash
  <2>1. \A v \in Drainers : Resting(v)
    BY <2>u DEF Resting
  <2>2. BackedStatus'
    BY <1>15, <1>0, <2>u DEF Crash, AllPending, BackedStatus, Docs
  <2>3. QED
    BY <1>0, <1>e, <1>m, <2>1, <2>2, <2>u
<1>16. CASE UNCHANGED vars
  BY <1>16, <1>0, <1>s, <1>e, <1>d DEF vars
<1>17. QED
  BY <1>1, <1>2, <1>3, <1>4, <1>5, <1>6, <1>7, <1>8, <1>9, <1>10, <1>11, <1>12, <1>13,
     <1>14, <1>15, <1>16 DEF Next, DrainStep
-----------------------------------------------------------------------------
(***************************************************************************)
(* Order and honesty of a drain that is alone.                             *)
(***************************************************************************)

\* While one drain moves, the other rests, and moves nothing.
LEMMA OthersRest ==
  ASSUME OneAtWork, NEW w \in Drainers, ~ Stage(w, "idle"),
         \A v \in Drainers \ {w} : drain'[v] = drain[v]
  PROVE  OneAtWork' /\ \A v \in Drainers \ {w} : AtEnd(v)'
<1>1. \A v \in Drainers \ {w} : Stage(v, "idle")
  BY DEF OneAtWork, Drainers
<1>2. \A v \in Drainers \ {w} : Stage(v, "idle")'
  BY <1>1 DEF Stage
<1>3. OneAtWork'
  BY <1>2 DEF OneAtWork, Drainers
<1>4. \A v \in Drainers \ {w} : AtEnd(v)'
  BY <1>2 DEF AtEnd, Stage
<1>5. QED
  BY <1>3, <1>4

\* Nothing that order is about changed for a drain that did not move.
LEMMA UnmovedAtEnd ==
  ASSUME NEW w \in Drainers, AtEnd(w), drain'[w] = drain[w], UNCHANGED <<processed, effects>>,
         Stage(w, "executing") =>
           \A document \in Docs : status'[document][drain[w].cmd] = "pending"
  PROVE  AtEnd(w)'
BY DEF AtEnd, Stage, TookEffect

\* A drain that idles or scans has no command to be at the end of.
LEMMA RestingAtEnd ==
  ASSUME NEW w \in Drainers, drain'[w].stage \in {"idle", "scan"}
  PROVE  AtEnd(w)'
BY DEF AtEnd, Stage

\* The two resting records, by their stage.
LEMMA RestingStages == Idle.stage = "idle" /\ Scanning.stage = "scan"
BY DEF Idle, Scanning

\* A command the ledger does not hold comes after everything that took effect.
LEMMA EffectsBelow ==
  ASSUME Types, Backed, LedgerIsPrefix, NEW c \in 1 .. Len(cmds), c \notin processed
  PROVE  \A i \in DOMAIN effects : effects[i] < c
<1> SUFFICES ASSUME NEW i \in DOMAIN effects PROVE effects[i] < c
  OBVIOUS
<1>1. effects[i] \in processed
  BY DEF Backed
<1>2. effects[i] \in Nat /\ Len(cmds) \in Nat
  BY DEF Types
<1>3. ~ (c <= effects[i])
  BY <1>1, <1>2 DEF LedgerIsPrefix
<1>4. QED
  BY <1>2, <1>3

\* The ledger stays a prefix while it does not change and the list only grows.
LEMMA PrefixKept ==
  ASSUME LedgerIsPrefix, UNCHANGED processed
  PROVE  LedgerIsPrefix'
BY DEF LedgerIsPrefix

\* Order is about the history of effects alone.
LEMMA HistoryKept ==
  ASSUME ExecutesInOrder, UNCHANGED effects
  PROVE  ExecutesInOrder'
BY DEF ExecutesInOrder

\* Honesty is about the statuses and the effects alone.
LEMMA HonestKept ==
  ASSUME Honest, UNCHANGED <<status, effects>>
  PROVE  Honest'
BY DEF Honest, TookEffect

\* Order and honesty survive every step after which no two drains overlapped.
LEMMA InOrderStep ==
  ASSUME Types, Backed, [Next]_vars, ~ overlapped => InOrder, ~ overlapped'
  PROVE  InOrder'
<1>0. /\ drain \in [Drainers -> Drain]
      /\ status \in [Docs -> [Ids -> Statuses]]
      /\ effects \in Seq(Nat)
      /\ Len(cmds) \in Nat /\ Len(cmds) <= MaxCommands
      /\ 1 .. Len(cmds) \subseteq Ids
      /\ processed \subseteq 1 .. Len(cmds)
      /\ MaxCommands \in Nat
  BY CommandLedgerAssumption DEF Types, Ids
<1>o. ~ overlapped
  <2>1. CASE \E w \in Drainers : DrainStep(w) \/ Persist(w)
    BY <2>1 DEF DrainStep, Persist, FindPending, EndDrain, EvaluateCommand, MarkProcessed,
                Execute, Refuse, ResolveCommand, ScanVars
  <2>2. CASE Open \/ Wake
    BY <2>2 DEF Open, Wake, StartDrain
  <2>3. CASE \/ \E kind \in Kinds : QueueCommand(kind)
             \/ Tick \/ BeginReply \/ SplitReply \/ EndRun \/ Evict \/ Crash
    BY <2>3 DEF QueueCommand, Tick, BeginReply, SplitReply, EndRun, Evict, Crash, RunStepVars
  <2>4. CASE UNCHANGED vars
    BY <2>4 DEF vars
  <2>5. QED
    BY <2>1, <2>2, <2>3, <2>4 DEF Next
<1>i. /\ OneAtWork /\ LedgerIsPrefix /\ (\A w \in Drainers : AtEnd(w))
      /\ ExecutesInOrder /\ Honest
  BY <1>o DEF InOrder
<1>z. SUFFICES OneAtWork' /\ LedgerIsPrefix' /\ (\A w \in Drainers : AtEnd(w)')
               /\ ExecutesInOrder' /\ Honest'
  BY DEF InOrder
<1>k. ASSUME UNCHANGED <<processed, drain, effects, status>>
      PROVE  OneAtWork' /\ LedgerIsPrefix' /\ (\A w \in Drainers : AtEnd(w)')
               /\ ExecutesInOrder' /\ Honest'
  <2>1. OneAtWork'
    BY <1>i, <1>k DEF OneAtWork, Stage
  <2>2. \A w \in Drainers : AtEnd(w)'
    BY <1>i, <1>k DEF AtEnd, Stage, TookEffect
  <2>3. QED
    BY <1>i, <1>k, <2>1, <2>2, PrefixKept, HistoryKept, HonestKept
<1>1. ASSUME NEW kind \in Kinds, QueueCommand(kind)
      PROVE  OneAtWork' /\ LedgerIsPrefix' /\ (\A w \in Drainers : AtEnd(w)')
               /\ ExecutesInOrder' /\ Honest'
  BY <1>1, <1>k DEF QueueCommand
<1>2. CASE Tick \/ BeginReply \/ SplitReply \/ EndRun
  BY <1>2, <1>k DEF Tick, BeginReply, SplitReply, EndRun, RunStepVars
<1>3. CASE Open \/ Wake
  <2>u. UNCHANGED <<processed, effects>>
    BY <1>3 DEF Open, Wake
  <2>1. Stage("orphan", "idle") /\ drain'["orphan"] = drain["orphan"]
        /\ drain'["task"] = Scanning
    BY <1>3, <1>0 DEF Open, Wake, StartDrain, Drainers
  <2>2. Stage("orphan", "idle")'
    BY <2>1 DEF Stage
  <2>3. OneAtWork'
    BY <2>2 DEF OneAtWork, Drainers
  <2>4. \A w \in Drainers : AtEnd(w)'
    BY <2>1, <2>2, RestingAtEnd, RestingStages DEF Drainers, Stage
  <2>5. Honest'
    <3>1. \A document \in Docs : \E other \in Docs : status'[document] = status[other]
      BY <1>3, <1>0 DEF Open, Wake, Docs
    <3>2. QED
      BY <1>i, <2>u, <3>1 DEF Honest, TookEffect
  <2>6. QED
    BY <1>i, <2>u, <2>3, <2>4, <2>5, PrefixKept, HistoryKept
<1>4. ASSUME NEW w \in Drainers, FindPending(w)
      PROVE  OneAtWork' /\ LedgerIsPrefix' /\ (\A v \in Drainers : AtEnd(v)')
               /\ ExecutesInOrder' /\ Honest'
  <2>u. UNCHANGED <<processed, effects, status>>
    BY <1>4 DEF FindPending, ScanVars
  <2>1. PICK c \in Candidates(w) :
          /\ \A other \in Candidates(w) : c <= other
          /\ drain' = [drain EXCEPT ![w].stage = "found", ![w].cmd = c]
    BY <1>4 DEF FindPending
  <2>2. c \in 1 .. Len(cmds) /\ c \notin processed
    BY DEF Candidates
  <2>3. \A b \in 1 .. c - 1 : b \in processed
    <3> SUFFICES ASSUME NEW b \in 1 .. c - 1, b \notin processed PROVE FALSE
      OBVIOUS
    <3>1. b \in 1 .. Len(cmds) /\ ~ (c <= b)
      BY <1>0, <2>2
    <3>2. DocOf(w) \in Docs
      BY DEF DocOf, Docs
    <3>3. status[DocOf(w)][b] = "pending" /\ b \notin drain[w].skipped
      BY <1>0, <3>1, <3>2 DEF Backed, DrainShape
    <3>4. b \in Candidates(w)
      BY <3>1, <3>3 DEF Candidates
    <3>5. QED
      BY <2>1, <3>1, <3>4
  <2>4. drain'[w].stage = "found" /\ drain'[w].cmd = c
    BY <1>0, <2>1 DEF Drain
  <2>5. AtEnd(w)'
    BY <2>u, <2>2, <2>3, <2>4 DEF AtEnd, Stage
  <2>6. OneAtWork' /\ \A v \in Drainers \ {w} : AtEnd(v)'
    BY <1>4, <1>0, <1>i, <2>1, OthersRest DEF FindPending, Stage
  <2>7. QED
    BY <1>i, <2>u, <2>5, <2>6, PrefixKept, HistoryKept, HonestKept
<1>5. ASSUME NEW w \in Drainers, EndDrain(w)
      PROVE  OneAtWork' /\ LedgerIsPrefix' /\ (\A v \in Drainers : AtEnd(v)')
               /\ ExecutesInOrder' /\ Honest'
  <2>u. UNCHANGED <<processed, effects>>
    BY <1>5 DEF EndDrain
  <2>1. drain'[w] = Idle /\ \A v \in Drainers \ {w} : drain'[v] = drain[v]
    BY <1>5, <1>0 DEF EndDrain
  <2>2. OneAtWork' /\ \A v \in Drainers \ {w} : AtEnd(v)'
    BY <1>5, <1>i, <2>1, OthersRest DEF EndDrain, Stage
  <2>3. AtEnd(w)'
    BY <2>1, RestingAtEnd, RestingStages
  <2>4. Honest'
    BY <1>5, <1>0, <1>i, <2>u DEF EndDrain, AllPending, Honest, TookEffect
  <2>5. QED
    BY <1>i, <2>u, <2>2, <2>3, <2>4, PrefixKept, HistoryKept
<1>6. ASSUME NEW w \in Drainers, EvaluateCommand(w)
      PROVE  OneAtWork' /\ LedgerIsPrefix' /\ (\A v \in Drainers : AtEnd(v)')
               /\ ExecutesInOrder' /\ Honest'
  <2>u. UNCHANGED <<processed, effects, status>>
    BY <1>6 DEF EvaluateCommand, ScanVars
  <2>1. /\ Stage(w, "found")
        /\ drain'[w].stage = "marking" /\ drain'[w].cmd = drain[w].cmd
        /\ \A v \in Drainers \ {w} : drain'[v] = drain[v]
    BY <1>6, <1>0 DEF EvaluateCommand, Drain
  <2>2. OneAtWork' /\ \A v \in Drainers \ {w} : AtEnd(v)'
    BY <1>i, <2>1, OthersRest DEF Stage
  <2>3. AtEnd(w)'
    BY <1>i, <2>u, <2>1 DEF AtEnd, Stage
  <2>4. QED
    BY <1>i, <2>u, <2>2, <2>3, PrefixKept, HistoryKept, HonestKept
<1>7. ASSUME NEW w \in Drainers, MarkProcessed(w)
      PROVE  OneAtWork' /\ LedgerIsPrefix' /\ (\A v \in Drainers : AtEnd(v)')
               /\ ExecutesInOrder' /\ Honest'
  <2> DEFINE c == drain[w].cmd
  <2>u. UNCHANGED <<effects, status>> /\ processed' = processed \cup {c}
    BY <1>7 DEF MarkProcessed
  <2>1. /\ Stage(w, "marking")
        /\ c \in 1 .. Len(cmds) /\ c \notin processed
        /\ \A b \in 1 .. c - 1 : b \in processed
        /\ \A v \in Drainers \ {w} : drain'[v] = drain[v]
    BY <1>7, <1>0, <1>i DEF MarkProcessed, AtEnd, Backed, DrainShape
  <2>2. OneAtWork' /\ \A v \in Drainers \ {w} : AtEnd(v)'
    BY <1>i, <2>1, OthersRest DEF Stage
  <2>3. LedgerIsPrefix'
    BY <1>i, <1>0, <2>u, <2>1 DEF LedgerIsPrefix
  <2>4. \A i \in DOMAIN effects : effects[i] < c
    BY <1>i, <2>1, EffectsBelow
  <2>5. ~ TookEffect(c)
    BY <1>0, <2>1, <2>4 DEF TookEffect
  <2>6. \A document \in Docs : status[document][c] = "pending"
    BY <1>0, <2>1 DEF Backed
  <2>7. /\ drain[w].verdict = "skip" => drain'[w].stage = "scan"
        /\ drain[w].verdict = "execute" => drain'[w].stage = "executing" /\ drain'[w].cmd = c
        /\ drain[w].verdict \in {"expired", "superseded"} =>
             /\ drain'[w].stage = "resolving" /\ drain'[w].cmd = c
             /\ drain'[w].verdict = drain[w].verdict
    BY <1>7, <1>0 DEF MarkProcessed, Drain, Scanning, Idle
  <2>8. AtEnd(w)'
    <3>1. drain[w].verdict \in {"skip", "expired", "superseded", "execute"}
      BY <2>1 DEF Backed, DrainShape
    <3>2. QED
      BY <2>u, <2>4, <2>5, <2>6, <2>7, <3>1 DEF AtEnd, Stage, TookEffect
  <2>9. QED
    BY <1>i, <2>u, <2>2, <2>3, <2>8, HistoryKept, HonestKept
<1>8. ASSUME NEW w \in Drainers, Execute(w)
      PROVE  OneAtWork' /\ LedgerIsPrefix' /\ (\A v \in Drainers : AtEnd(v)')
               /\ ExecutesInOrder' /\ Honest'
  <2> DEFINE c == drain[w].cmd
  <2>u. UNCHANGED <<processed, status>> /\ effects' = Append(effects, c)
    BY <1>8 DEF Execute
  <2>1. /\ Stage(w, "executing")
        /\ drain'[w].stage = "resolving" /\ drain'[w].cmd = c /\ drain'[w].verdict = "applied"
        /\ \A v \in Drainers \ {w} : drain'[v] = drain[v]
    BY <1>8, <1>0 DEF Execute, Drain
  <2>2. OneAtWork' /\ \A v \in Drainers \ {w} : AtEnd(v)'
    BY <1>i, <2>1, OthersRest DEF Stage
  <2>3. /\ \A i \in DOMAIN effects : effects[i] < c
        /\ \A document \in Docs : status[document][c] = "pending"
    BY <1>i, <2>1 DEF AtEnd
  <2>4. c \in Nat
    BY <1>0 DEF Drain
  <2>5. /\ Len(effects) \in Nat /\ DOMAIN effects = 1 .. Len(effects)
        /\ DOMAIN effects' = 1 .. Len(effects) + 1
        /\ \A i \in DOMAIN effects : effects'[i] = effects[i] /\ effects[i] \in Nat
        /\ effects'[Len(effects) + 1] = c
    BY <1>0, <2>u, <2>4
  <2>6. ExecutesInOrder'
    BY <1>i, <2>3, <2>5 DEF ExecutesInOrder
  <2>7. \A d \in Ids : TookEffect(d)' <=> TookEffect(d) \/ d = c
    BY <2>5 DEF TookEffect
  <2>8. \E i \in DOMAIN effects' : effects'[i] = c
    BY <2>5
  <2>9. AtEnd(w)'
    BY <2>1, <2>8 DEF AtEnd, Stage, TookEffect
  <2>10. Honest'
    BY <1>i, <2>u, <2>3, <2>7 DEF Honest
  <2>11. QED
    BY <1>i, <2>u, <2>2, <2>6, <2>9, <2>10, PrefixKept
<1>9. ASSUME NEW w \in Drainers, Refuse(w)
      PROVE  OneAtWork' /\ LedgerIsPrefix' /\ (\A v \in Drainers : AtEnd(v)')
               /\ ExecutesInOrder' /\ Honest'
  <2>u. UNCHANGED <<processed, effects, status>>
    BY <1>9 DEF Refuse
  <2>1. /\ Stage(w, "executing")
        /\ drain'[w].stage = "resolving" /\ drain'[w].cmd = drain[w].cmd
        /\ drain'[w].verdict = "rejected"
        /\ \A v \in Drainers \ {w} : drain'[v] = drain[v]
    BY <1>9, <1>0 DEF Refuse, Drain
  <2>2. OneAtWork' /\ \A v \in Drainers \ {w} : AtEnd(v)'
    BY <1>i, <2>1, OthersRest DEF Stage
  <2>3. ~ TookEffect(drain[w].cmd)
    BY <1>0, <1>i, <2>1 DEF AtEnd, TookEffect, Drain
  <2>4. AtEnd(w)'
    BY <2>u, <2>1, <2>3 DEF AtEnd, Stage, TookEffect
  <2>5. QED
    BY <1>i, <2>u, <2>2, <2>4, PrefixKept, HistoryKept, HonestKept
<1>10. ASSUME NEW w \in Drainers, ResolveCommand(w)
       PROVE  OneAtWork' /\ LedgerIsPrefix' /\ (\A v \in Drainers : AtEnd(v)')
                /\ ExecutesInOrder' /\ Honest'
  <2>u. UNCHANGED <<processed, effects>>
        /\ status' = [status EXCEPT ![DocOf(w)][drain[w].cmd] = drain[w].verdict]
    BY <1>10 DEF ResolveCommand
  <2>1. /\ Stage(w, "resolving")
        /\ drain'[w].stage = "scan"
        /\ \A v \in Drainers \ {w} : drain'[v] = drain[v]
    BY <1>10, <1>0 DEF ResolveCommand, Scanning, Idle
  <2>2. OneAtWork' /\ \A v \in Drainers \ {w} : AtEnd(v)'
    BY <1>i, <2>1, OthersRest DEF Stage
  <2>3. AtEnd(w)'
    BY <2>1, RestingAtEnd
  <2>4. drain[w].verdict = "applied" <=> TookEffect(drain[w].cmd)
    BY <1>i, <2>1 DEF AtEnd
  <2>5. Honest'
    BY <1>0, <1>i, <2>u, <2>4 DEF Honest, TookEffect
  <2>6. QED
    BY <1>i, <2>u, <2>2, <2>3, <2>5, PrefixKept, HistoryKept
<1>11. ASSUME NEW w \in Drainers, Persist(w)
       PROVE  OneAtWork' /\ LedgerIsPrefix' /\ (\A v \in Drainers : AtEnd(v)')
                /\ ExecutesInOrder' /\ Honest'
  <2>u. UNCHANGED <<processed, effects, drain>>
    BY <1>11 DEF Persist
  <2>1. DocOf(w) \in Docs
    BY DEF DocOf, Docs
  <2>2. \A document \in Docs, c \in Ids :
          \E other \in Docs : status'[document][c] = status[other][c]
    BY <1>11, <1>0, <2>1 DEF Persist, Merge, Docs
  <2>3. Honest'
    BY <1>i, <2>u, <2>2 DEF Honest, TookEffect
  <2>4. OneAtWork'
    BY <1>i, <2>u DEF OneAtWork, Stage
  <2>5. ASSUME NEW v \in Drainers PROVE AtEnd(v)'
    <3>1. ASSUME Stage(v, "executing"), NEW document \in Docs
          PROVE  status'[document][drain[v].cmd] = "pending"
      <4>1. drain[v].cmd \in Ids
        BY <1>0, <3>1 DEF Backed, DrainShape
      <4>2. QED
        BY <1>i, <2>2, <3>1, <4>1 DEF AtEnd
    <3>2. QED
      BY <1>i, <2>u, <3>1, UnmovedAtEnd
  <2>6. QED
    BY <1>i, <2>u, <2>3, <2>4, <2>5, PrefixKept, HistoryKept
<1>12. CASE Evict
  <2>u. UNCHANGED <<processed, effects>>
    BY <1>12 DEF Evict
  <2>1. drain'["orphan"] = drain["task"] /\ drain'["task"] = Idle
        /\ (Stage("task", "idle") \/ Stage("task", "executing"))
    BY <1>12, <1>0 DEF Evict, Drainers
  <2>2. OneAtWork'
    BY <2>1 DEF OneAtWork, Stage, Idle, Drainers
  <2>3. \A document \in Docs, c \in Ids :
          status'[document][c] = "pending"
            \/ \E other \in Docs : status'[document][c] = status[other][c]
    BY <1>12, <1>0 DEF Evict, Merge, AllPending, Docs
  <2>4. Honest'
    BY <1>i, <2>u, <2>3 DEF Honest, TookEffect
  <2>5. AtEnd("task")'
    BY <2>1, RestingAtEnd, RestingStages DEF Drainers
  <2>6. AtEnd("orphan")'
    <3>1. CASE Stage("task", "idle")
      BY <2>1, <3>1, RestingAtEnd DEF Stage, Drainers
    <3>2. CASE Stage("task", "executing")
      <4>1. drain["task"].cmd \in Ids
        BY <1>0, <3>2 DEF Backed, DrainShape, Drainers
      <4>2. /\ \A i \in DOMAIN effects : effects[i] < drain["task"].cmd
            /\ \A document \in Docs : status[document][drain["task"].cmd] = "pending"
        BY <1>i, <3>2 DEF AtEnd, Drainers
      <4>3. \A document \in Docs : status'[document][drain["task"].cmd] = "pending"
        BY <2>3, <4>1, <4>2
      <4>4. drain'["orphan"].stage = "executing"
        BY <2>1, <3>2 DEF Stage
      <4>5. QED
        BY <2>u, <2>1, <4>2, <4>3, <4>4 DEF AtEnd, Stage
    <3>3. QED
      BY <2>1, <3>1, <3>2
  <2>7. QED
    BY <1>i, <2>u, <2>2, <2>4, <2>5, <2>6, PrefixKept, HistoryKept DEF Drainers
<1>13. CASE Crash
  <2>u. UNCHANGED <<processed, effects>> /\ drain' = [w \in Drainers |-> Idle]
    BY <1>13 DEF Crash
  <2>1. OneAtWork'
    BY <2>u DEF OneAtWork, Stage, Idle, Drainers
  <2>2. \A w \in Drainers : AtEnd(w)'
    BY <2>u, RestingAtEnd, RestingStages
  <2>3. Honest'
    BY <1>13, <1>0, <1>i, <2>u DEF Crash, AllPending, Honest, TookEffect, Docs
  <2>4. QED
    BY <1>i, <2>u, <2>1, <2>2, <2>3, PrefixKept, HistoryKept
<1>14. CASE UNCHANGED vars
  BY <1>14, <1>k DEF vars
<1>15. QED
  BY <1>1, <1>2, <1>3, <1>4, <1>5, <1>6, <1>7, <1>8, <1>9, <1>10, <1>11, <1>12, <1>13,
     <1>14 DEF Next, DrainStep

\* The inductive invariant: the types, what the ledger backs, and order and honesty
\* as long as no two drains overlapped.
THEOREM LedgerSafe == Spec => []SoleInv
<1>1. Init => SoleInv
  <2> SUFFICES ASSUME Init PROVE SoleInv
    OBVIOUS
  <2>1. Types
    <3>1. /\ cmds \in Seq(Command) /\ Len(cmds) = 0 /\ effects \in Seq(Nat)
      BY DEF Init
    <3>2. drain \in [Drainers -> Drain]
      BY DEF Init, Idle, Drain, Stages, Verdicts
    <3>3. status \in [Docs -> [Ids -> Statuses]]
      BY DEF Init, AllPending, Docs, Statuses
    <3>4. messages \in Nat /\ streaming \in 0 .. messages /\ (streaming # 0 => running)
      BY DEF Init
    <3>5. running \in BOOLEAN /\ open \in BOOLEAN /\ overlapped \in BOOLEAN
      BY DEF Init
    <3>6. Len(cmds) <= MaxCommands /\ processed \subseteq 1 .. Len(cmds)
      BY <3>1, CommandLedgerAssumption DEF Init
    <3>7. QED
      BY <3>1, <3>2, <3>3, <3>4, <3>5, <3>6 DEF Types
  <2>2. Backed
    BY DEF Init, Backed, DrainShape, Stage, AllPending, Idle, Docs
  <2>3. InOrder
    <3>1. OneAtWork /\ \A w \in Drainers : AtEnd(w)
      BY DEF Init, OneAtWork, AtEnd, Stage, Idle, Drainers
    <3>2. LedgerIsPrefix /\ ExecutesInOrder
      BY DEF Init, LedgerIsPrefix, ExecutesInOrder
    <3>3. Honest
      BY DEF Init, Honest, AllPending, Docs
    <3>4. QED
      BY <3>1, <3>2, <3>3 DEF InOrder
  <2>4. QED
    BY <2>1, <2>2, <2>3 DEF SoleInv
<1>2. SoleInv /\ [Next]_vars => SoleInv'
  BY TypesStep, BackedStep, InOrderStep DEF SoleInv
<1>3. QED
  BY <1>1, <1>2, PTL DEF Spec

\* The types of the ledger, and that nothing takes effect that is not in it first:
\* what a crash between marking and executing rests on.
THEOREM TypeCorrect == Spec => []LedgerTypeOK
<1>1. SoleInv => LedgerTypeOK
  <2> SUFFICES ASSUME SoleInv PROVE LedgerTypeOK
    OBVIOUS
  <2>1. Types /\ Backed
    BY DEF SoleInv
  <2>2. \A w \in Drainers : /\ drain[w].stage \in Stages
                           /\ drain[w].cmd \in 0 .. Len(cmds)
    BY <2>1 DEF Types, Backed, DrainShape, Drain
  <2>3. QED
    BY <2>1, <2>2 DEF Types, Backed, LedgerTypeOK, Stages, Docs
<1>2. QED
  BY <1>1, LedgerSafe, PTL

\* Whatever the commands, clocks, crashes and evictions: while no two drains of the
\* chat overlapped, commands took effect at most once and in the order of the list.
THEOREM OrderIsKept == Spec => []SoleDrainExecutesInOrder
<1>1. SoleInv => SoleDrainExecutesInOrder
  BY DEF SoleInv, InOrder, SoleDrainExecutesInOrder
<1>2. QED
  BY <1>1, LedgerSafe, PTL

\* The status of a command in any copy of the document is what became of it.
THEOREM OutcomesAreHonest == Spec => []SoleDrainIsHonest
<1>1. SoleInv => SoleDrainIsHonest
  <2> SUFFICES ASSUME SoleInv, ~ overlapped PROVE SoleDrainIsHonest
    BY DEF SoleDrainIsHonest
  <2>1. DOMAIN status = Docs /\ 1 .. Len(cmds) \subseteq Ids
    BY CommandLedgerAssumption DEF SoleInv, Types, Ids
  <2>2. Honest
    BY DEF SoleInv, InOrder
  <2>3. QED
    BY <2>1, <2>2 DEF Honest, SoleDrainIsHonest
<1>2. QED
  BY <1>1, LedgerSafe, PTL

-----------------------------------------------------------------------------
(***************************************************************************)
(* The heir of a superseded steer.  Whoever supersedes it may be           *)
(* superseded in turn, but the newest steer of all cannot be.              *)
(***************************************************************************)

\* A nonempty set of natural numbers has a least element.
LEMMA LeastOf ==
  ASSUME NEW T \in SUBSET Nat, T # {}
  PROVE  \E x \in T : \A y \in T : x <= y
<1>1. PICK x \in T : \A y \in T : ~ (<<y, x>> \in OpToRel(<, Nat))
  BY NatLessThanWellFounded, WFMin
<1>2. ASSUME NEW y \in T PROVE ~ (y < x)
  BY <1>1, Zenon DEF OpToRel
<1>3. ASSUME NEW y \in T PROVE x <= y
  BY <1>2
<1>4. QED
  BY <1>3

\* Of the steers newer than a given one, there is one no steer is newer than.
LEMMA NewestSteer ==
  ASSUME Types, NEW c \in 1 .. Len(cmds), NewerSteer(c)
  PROVE  \E n \in 1 .. Len(cmds) :
           /\ cmds[n].kind = "steer" /\ cmds[n].at > cmds[c].at
           /\ ~ NewerSteer(n)
<1> DEFINE Age(n) == MaxTime - cmds[n].at
           Ages == {Age(n) : n \in {m \in 1 .. Len(cmds) : cmds[m].kind = "steer"}}
<1>0. MaxTime \in Nat
  BY CommandLedgerAssumption
<1>1. \A n \in 1 .. Len(cmds) : cmds[n].at \in 0 .. MaxTime
  <2>1. \A n \in 1 .. Len(cmds) : cmds[n] \in Command
    BY DEF Types
  <2>2. \A x \in Command : x.at \in 0 .. MaxTime
    BY DEF Command
  <2>3. QED
    BY <2>1, <2>2
<1>2. Ages \in SUBSET Nat /\ Ages # {}
  <2>1. \A n \in 1 .. Len(cmds) : Age(n) \in Nat
    BY <1>0, <1>1
  <2>2. \E n \in 1 .. Len(cmds) : cmds[n].kind = "steer"
    BY DEF NewerSteer
  <2>3. QED
    BY <2>1, <2>2
<1>3. PICK least \in Ages : \A age \in Ages : least <= age
  BY <1>2, LeastOf
<1>4. PICK n \in 1 .. Len(cmds) : cmds[n].kind = "steer" /\ Age(n) = least
  BY <1>3
<1>5. \A m \in 1 .. Len(cmds) : cmds[m].kind = "steer" => cmds[m].at <= cmds[n].at
  <2> SUFFICES ASSUME NEW m \in 1 .. Len(cmds), cmds[m].kind = "steer"
               PROVE  cmds[m].at <= cmds[n].at
    OBVIOUS
  <2>1. Age(n) <= Age(m)
    BY <1>3, <1>4
  <2>2. QED
    BY <1>0, <1>1, <2>1
<1>6. cmds[n].at > cmds[c].at
  <2>1. PICK m \in 1 .. Len(cmds) : cmds[m].kind = "steer" /\ cmds[m].at > cmds[c].at
    BY DEF NewerSteer
  <2>2. QED
    BY <1>1, <1>5, <2>1
<1>7. ~ NewerSteer(n)
  BY <1>1, <1>5 DEF NewerSteer
<1>8. QED
  BY <1>4, <1>6, <1>7

SupersededInDoc ==
  \A document \in Docs, c \in 1 .. Len(cmds) :
    status[document][c] = "superseded" /\ cmds[c].kind = "steer" => NewerSteer(c)

SupersededInDrain(w) ==
  /\ Stage(w, "marking") \/ Stage(w, "resolving")
  /\ drain[w].verdict = "superseded"
  /\ cmds[drain[w].cmd].kind = "steer"
  => NewerSteer(drain[w].cmd)

HeirInv == SupersededInDoc /\ \A w \in Drainers : SupersededInDrain(w)

\* No step supersedes a steer without a newer one.
LEMMA HeirStep ==
  ASSUME Types, Backed, HeirInv, [Next]_vars
  PROVE  HeirInv'
<1>0. /\ drain \in [Drainers -> Drain]
      /\ status \in [Docs -> [Ids -> Statuses]]
      /\ cmds \in Seq(Command) /\ Len(cmds) \in Nat /\ Len(cmds) <= MaxCommands
      /\ 1 .. Len(cmds) \subseteq Ids
      /\ processed \subseteq 1 .. Len(cmds)
  BY CommandLedgerAssumption DEF Types, Ids
<1>h. SupersededInDoc /\ \A w \in Drainers : SupersededInDrain(w)
  BY DEF HeirInv
<1>1. ASSUME NEW kind \in Kinds, QueueCommand(kind) PROVE HeirInv'
  <2>u. UNCHANGED <<status, drain, processed>>
    BY <1>1 DEF QueueCommand
  <2>1. /\ Len(cmds') = Len(cmds) + 1
        /\ \A c \in 1 .. Len(cmds) : cmds'[c] = cmds[c]
    BY <1>1, <1>0 DEF QueueCommand
  <2>2. ASSUME NEW c \in 1 .. Len(cmds), NewerSteer(c)
        PROVE  \E n \in 1 .. Len(cmds') : cmds'[n].kind = "steer" /\ cmds'[n].at > cmds'[c].at
    BY <1>0, <2>1, <2>2 DEF NewerSteer
  <2>3. SupersededInDoc'
    <3> SUFFICES ASSUME NEW document \in Docs, NEW c \in 1 .. Len(cmds'),
                        status[document][c] = "superseded", cmds'[c].kind = "steer"
                 PROVE  \E n \in 1 .. Len(cmds') : cmds'[n].kind = "steer" /\ cmds'[n].at > cmds'[c].at
      BY <2>u DEF SupersededInDoc, NewerSteer
    <3>1. Len(cmds') <= MaxCommands
      BY <2>1, TypesStep DEF Types
    <3>2. c \in processed
      <4>1. c \in Ids
        BY <1>0, <2>1, <3>1, CommandLedgerAssumption DEF Ids
      <4>2. status[document][c] # "pending"
        OBVIOUS
      <4>3. QED
        BY <4>1, <4>2 DEF Backed
    <3>3. c \in 1 .. Len(cmds)
      BY <1>0, <3>2
    <3>4. QED
      BY <1>h, <2>1, <2>2, <3>3 DEF SupersededInDoc
  <2>4. ASSUME NEW w \in Drainers PROVE SupersededInDrain(w)'
    <3> SUFFICES ASSUME Stage(w, "marking") \/ Stage(w, "resolving"),
                        drain[w].verdict = "superseded", cmds'[drain[w].cmd].kind = "steer"
                 PROVE  \E n \in 1 .. Len(cmds') :
                          cmds'[n].kind = "steer" /\ cmds'[n].at > cmds'[drain[w].cmd].at
      BY <2>u DEF SupersededInDrain, NewerSteer, Stage
    <3>1. drain[w].cmd \in 1 .. Len(cmds)
      BY <1>0 DEF Backed, DrainShape
    <3>2. QED
      BY <1>h, <2>1, <2>2, <3>1 DEF SupersededInDrain
  <2>5. QED
    BY <2>3, <2>4 DEF HeirInv
<1>u. ASSUME ~ \E kind \in Kinds : QueueCommand(kind) PROVE cmds' = cmds
  BY <1>u DEF Next, Tick, Open, Wake, DrainStep, FindPending, EndDrain, EvaluateCommand,
       MarkProcessed, Execute, Refuse, ResolveCommand, Persist, BeginReply, SplitReply, EndRun,
       Evict, Crash, ScanVars, RunStepVars, vars
\* What a document says comes from another copy of it, or is pending.
<1>d. ASSUME cmds' = cmds,
             \A document \in Docs, c \in Ids :
               \/ status'[document][c] # "superseded"
               \/ \E other \in Docs : status'[document][c] = status[other][c]
      PROVE  SupersededInDoc'
  BY <1>0, <1>h, <1>d DEF SupersededInDoc, NewerSteer
<1>w. ASSUME NEW w \in Drainers, cmds' = cmds,
             \/ drain'[w] = drain[w]
             \/ drain'[w].stage \notin {"marking", "resolving"}
             \/ drain'[w].verdict # "superseded"
      PROVE  SupersededInDrain(w)'
  BY <1>h, <1>w DEF SupersededInDrain, NewerSteer, Stage
<1>s. ASSUME cmds' = cmds, UNCHANGED status PROVE SupersededInDoc'
  BY <1>d, <1>s
<1>2. CASE Tick \/ BeginReply \/ SplitReply \/ EndRun
  <2>1. UNCHANGED <<cmds, status, drain>>
    BY <1>2 DEF Tick, BeginReply, SplitReply, EndRun, RunStepVars
  <2>2. QED
    BY <1>s, <1>w, <2>1 DEF HeirInv
<1>3. CASE Open \/ Wake
  <2>1. cmds' = cmds
    BY <1>3 DEF Open, Wake
  <2>2. \A w \in Drainers : drain'[w] = drain[w] \/ drain'[w] = Scanning
    BY <1>3, <1>0 DEF Open, Wake, StartDrain, Drainers
  <2>3. \A document \in Docs : \E other \in Docs : status'[document] = status[other]
    BY <1>3, <1>0 DEF Open, Wake, Docs
  <2>4. QED
    BY <1>d, <1>w, <2>1, <2>2, <2>3, RestingStages DEF HeirInv
<1>4. ASSUME NEW w \in Drainers, FindPending(w) \/ Execute(w) \/ Refuse(w) PROVE HeirInv'
  <2>1. UNCHANGED <<cmds, status>>
    BY <1>4 DEF FindPending, Execute, Refuse, ScanVars
  <2>2. drain'[w].stage = "found" \/ drain'[w].verdict # "superseded"
    BY <1>4, <1>0 DEF FindPending, Execute, Refuse, Drain
  <2>3. \A v \in Drainers \ {w} : drain'[v] = drain[v]
    BY <1>4, <1>0 DEF FindPending, Execute, Refuse
  <2>4. QED
    BY <1>s, <1>w, <2>1, <2>2, <2>3 DEF HeirInv
<1>5. ASSUME NEW w \in Drainers, EndDrain(w) PROVE HeirInv'
  <2>1. cmds' = cmds /\ drain' = [drain EXCEPT ![w] = Idle]
    BY <1>5 DEF EndDrain
  <2>2. \A v \in Drainers : drain'[v] = drain[v] \/ drain'[v] = Idle
    BY <1>0, <2>1
  <2>3. \A document \in Docs, c \in Ids :
          status'[document][c] # "superseded" \/ status'[document][c] = status[document][c]
    BY <1>5, <1>0 DEF EndDrain, AllPending
  <2>4. QED
    BY <1>d, <1>w, <2>1, <2>2, <2>3, RestingStages DEF HeirInv
<1>6. ASSUME NEW w \in Drainers, EvaluateCommand(w) PROVE HeirInv'
  <2> DEFINE c == drain[w].cmd
  <2>1. UNCHANGED <<cmds, status>>
    BY <1>6 DEF EvaluateCommand, ScanVars
  <2>2. /\ drain'[w].stage = "marking" /\ drain'[w].cmd = c
        /\ drain'[w].verdict = Verdict(DocOf(w), c)
        /\ \A v \in Drainers \ {w} : drain'[v] = drain[v]
    BY <1>6, <1>0 DEF EvaluateCommand, Drain
  <2>3. ASSUME Verdict(DocOf(w), c) = "superseded", cmds[c].kind = "steer"
        PROVE  NewerSteer(c)
    BY <2>3 DEF Verdict, SupersededBy, AimsAtPastTurn, NewerSteer
  <2>4. SupersededInDrain(w)'
    BY <2>1, <2>2, <2>3 DEF SupersededInDrain, NewerSteer
  <2>5. QED
    BY <1>s, <1>w, <2>1, <2>2, <2>4 DEF HeirInv
<1>7. ASSUME NEW w \in Drainers, MarkProcessed(w) PROVE HeirInv'
  <2>1. UNCHANGED <<cmds, status>> /\ Stage(w, "marking")
    BY <1>7 DEF MarkProcessed
  <2>2. /\ drain'[w].stage \in {"scan", "executing"}
             \/ (drain'[w].cmd = drain[w].cmd /\ drain'[w].verdict = drain[w].verdict)
        /\ \A v \in Drainers \ {w} : drain'[v] = drain[v]
    <3>1. drain[w] \in Drain
      BY <1>0
    <3>2. \/ drain'[w] = [Scanning EXCEPT !.skipped = drain[w].skipped \cup {drain[w].cmd}]
          \/ drain'[w] = [drain[w] EXCEPT !.stage = "executing"]
          \/ drain'[w] = [drain[w] EXCEPT !.stage = "resolving"]
      BY <1>7, <1>0 DEF MarkProcessed
    <3>3. \A v \in Drainers \ {w} : drain'[v] = drain[v]
      BY <1>7, <1>0 DEF MarkProcessed
    <3>4. CASE drain'[w] = [Scanning EXCEPT !.skipped = drain[w].skipped \cup {drain[w].cmd}]
      <4>1. drain'[w].stage = "scan"
        BY <3>4 DEF Scanning, Idle
      <4>2. QED
        BY <3>3, <4>1
    <3>5. CASE drain'[w] = [drain[w] EXCEPT !.stage = "executing"]
      <4>1. drain'[w].stage = "executing"
        BY <3>1, <3>5 DEF Drain
      <4>2. QED
        BY <3>3, <4>1
    <3>6. CASE drain'[w] = [drain[w] EXCEPT !.stage = "resolving"]
      <4>1. drain'[w].cmd = drain[w].cmd /\ drain'[w].verdict = drain[w].verdict
        BY <3>1, <3>6 DEF Drain
      <4>2. QED
        BY <3>3, <4>1
    <3>7. QED
      BY <3>2, <3>4, <3>5, <3>6
  <2>3. SupersededInDrain(w)'
    BY <1>h, <2>1, <2>2 DEF SupersededInDrain, NewerSteer, Stage
  <2>4. QED
    BY <1>s, <1>w, <2>1, <2>2, <2>3 DEF HeirInv
<1>8. ASSUME NEW w \in Drainers, ResolveCommand(w) PROVE HeirInv'
  <2> DEFINE c == drain[w].cmd
  <2>1. /\ cmds' = cmds /\ Stage(w, "resolving")
        /\ status' = [status EXCEPT ![DocOf(w)][c] = drain[w].verdict]
    BY <1>8 DEF ResolveCommand
  <2>2. /\ drain'[w].stage = "scan"
        /\ \A v \in Drainers \ {w} : drain'[v] = drain[v]
    BY <1>8, <1>0 DEF ResolveCommand, Scanning, Idle
  <2>3. drain[w].verdict = "superseded" /\ cmds[c].kind = "steer" => NewerSteer(c)
    BY <1>h, <2>1 DEF SupersededInDrain
  <2>4. \A document \in Docs, d \in Ids :
          \/ status'[document][d] = status[document][d]
          \/ d = c /\ status'[document][d] = drain[w].verdict
    BY <1>0, <2>1
  <2>5. SupersededInDoc'
    BY <1>0, <1>h, <2>1, <2>3, <2>4 DEF SupersededInDoc, NewerSteer
  <2>6. QED
    BY <1>w, <2>1, <2>2, <2>5 DEF HeirInv
<1>9. ASSUME NEW w \in Drainers, Persist(w) PROVE HeirInv'
  <2>1. UNCHANGED <<cmds, drain>>
    BY <1>9 DEF Persist
  <2>2. DocOf(w) \in Docs
    BY DEF DocOf, Docs
  <2>3. \A document \in Docs, c \in Ids :
          \E other \in Docs : status'[document][c] = status[other][c]
    BY <1>9, <1>0, <2>2 DEF Persist, Merge, Docs
  <2>4. QED
    BY <1>d, <1>w, <2>1, <2>3 DEF HeirInv
<1>10. CASE Evict
  <2>1. /\ cmds' = cmds
        /\ drain'["orphan"] = drain["task"] /\ drain'["task"] = Idle
        /\ (Stage("task", "idle") \/ Stage("task", "executing"))
    BY <1>10, <1>0 DEF Evict, Drainers
  <2>2. \A w \in Drainers : drain'[w].stage \notin {"marking", "resolving"}
    BY <2>1, RestingStages DEF Drainers, Stage
  <2>3. \A document \in Docs, c \in Ids :
          \/ status'[document][c] # "superseded"
          \/ \E other \in Docs : status'[document][c] = status[other][c]
    BY <1>10, <1>0 DEF Evict, Merge, AllPending, Docs
  <2>4. QED
    BY <1>d, <1>w, <2>1, <2>2, <2>3 DEF HeirInv
<1>11. CASE Crash
  <2>1. cmds' = cmds /\ drain' = [w \in Drainers |-> Idle]
    BY <1>11 DEF Crash
  <2>2. \A document \in Docs, c \in Ids :
          \/ status'[document][c] # "superseded"
          \/ \E other \in Docs : status'[document][c] = status[other][c]
    BY <1>11, <1>0 DEF Crash, AllPending, Docs
  <2>3. QED
    BY <1>d, <1>w, <2>1, <2>2, RestingStages DEF HeirInv
<1>12. CASE UNCHANGED vars
  <2>1. UNCHANGED <<cmds, status, drain>>
    BY <1>12 DEF vars
  <2>2. QED
    BY <1>s, <1>w, <2>1 DEF HeirInv
<1>13. QED
  BY <1>1, <1>2, <1>3, <1>4, <1>5, <1>6, <1>7, <1>8, <1>9, <1>10, <1>11, <1>12
     DEF Next, DrainStep

\* Overlapping drains or not, and whatever the devices' clocks say: of the steers of
\* a chat the newest is never superseded, so none is dropped for nothing.
THEOREM SupersededIsReplaced == Spec => []SupersededHasHeir
<1>1. Init => HeirInv
  BY DEF Init, HeirInv, SupersededInDoc, SupersededInDrain, AllPending, Docs, Stage, Idle
<1>2. SoleInv /\ HeirInv /\ [Next]_vars => HeirInv'
  BY HeirStep DEF SoleInv
<1>3. SoleInv /\ HeirInv => SupersededHasHeir
  <2> SUFFICES ASSUME SoleInv, HeirInv, NEW c \in 1 .. Len(cmds),
                      status["stored"][c] = "superseded", cmds[c].kind = "steer"
               PROVE  \E n \in 1 .. Len(cmds) :
                        /\ cmds[n].kind = "steer" /\ cmds[n].at > cmds[c].at
                        /\ status["stored"][n] # "superseded"
    BY DEF SupersededHasHeir
  <2>1. Types /\ SupersededInDoc
    BY DEF SoleInv, HeirInv
  <2>2. PICK n \in 1 .. Len(cmds) : /\ cmds[n].kind = "steer" /\ cmds[n].at > cmds[c].at
                                   /\ ~ NewerSteer(n)
    BY <2>1, NewestSteer DEF SupersededInDoc, Docs
  <2>3. status["stored"][n] # "superseded"
    BY <2>1, <2>2 DEF SupersededInDoc, Docs
  <2>4. QED
    BY <2>2, <2>3
<1>4. QED
  BY <1>1, <1>2, <1>3, LedgerSafe, PTL DEF Spec

=============================================================================
