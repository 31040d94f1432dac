---------------------------- MODULE SequenceParts ----------------------------
(* Parts of a sequence. *)
EXTENDS Naturals, Sequences

\* The entries of a sequence at some positions, in their order.
KeepAt(s, I) ==
  LET kept[n \in 0 .. Len(s)] ==
        IF n = 0 THEN <<>>
        ELSE IF n \in I THEN Append(kept[n - 1], s[n]) ELSE kept[n - 1]
  IN  kept[Len(s)]

=============================================================================
