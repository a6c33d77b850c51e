----------------------------- MODULE MCSlaveNode -----------------------------
(***************************************************************************)
(* A small instance of SlaveNode for TLC.  The state space is finite.         *)
(***************************************************************************)
EXTENDS SlaveNode

CONSTANTS ta, tb, p1, p2

TwoCallers  == {ta, tb}
TwoPayloads == {p1, p2}

(* The two threads share an identifier. *)
SharedId == [t \in TwoCallers |-> {16}]

=============================================================================
