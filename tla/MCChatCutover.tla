---------------------------- MODULE MCChatCutover ----------------------------
(* A bounded instance of ChatCutover: the values of its structured constants. *)
EXTENDS ChatCutover

\* Every command is issued on a reader.
MCIssuedBy == [c \in Commands |-> CHOOSE r \in Readers : TRUE]

=============================================================================
