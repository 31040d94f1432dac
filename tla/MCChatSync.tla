------------------------------ MODULE MCChatSync -----------------------------
(* Bounded instances of ChatSync: the values of its structured constants. *)
EXTENDS ChatSync

MCOps == Devices \X (0 .. MaxCommits)

MCBatchIds == Devices \X (1 .. MaxCommits + MaxFaults + 1)

=============================================================================
