----------------------------- MODULE TrimmedLog ------------------------------
(***************************************************************************)
(* What a chat2 room's log promises to the sockets that read it, without   *)
(* sequence counters, tables or blobs: a sequence whose entries are        *)
(* written once, in order, and only ever forgotten as a prefix.            *)
(*                                                                         *)
(* Entry s of `log' is {e} while the update e can still be read, and {}    *)
(* once a checkpoint has taken its place.                                  *)
(***************************************************************************)
EXTENDS Naturals

CONSTANTS
  Entry,       \* what can be written
  Key(_)       \* the dedupe key of an entry: no two readable entries share it

VARIABLES
  length,      \* how many entries were ever written
  log          \* the entries, a function on 1 .. length

vars == <<length, log>>

Init ==
  /\ length = 0
  /\ log = [s \in {} |-> {}]

Write(e) ==
  /\ \A s \in 1 .. length : \A f \in log[s] : Key(f) # Key(e)
  /\ length' = length + 1
  /\ log' = [s \in 1 .. length + 1 |-> IF s = length + 1 THEN {e} ELSE log[s]]

Forget(n) ==
  /\ log' = [s \in 1 .. length |-> IF s <= n THEN {} ELSE log[s]]
  /\ UNCHANGED length

Next == (\E e \in Entry : Write(e)) \/ (\E n \in 0 .. length : Forget(n))

Spec == Init /\ [][Next]_vars

=============================================================================
