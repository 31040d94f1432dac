---------------------------- MODULE MCRegistrySync ---------------------------
(* Bounded instances of RegistrySync: the values of its structured constants. *)
EXTENDS RegistrySync

MCRank == [d \in Devices |-> CHOOSE r \in 0 .. Ranks - 1 : SetToSeq(Devices)[r + 1] = d]

=============================================================================
