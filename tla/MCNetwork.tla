------------------------------ MODULE MCNetwork ------------------------------
(***************************************************************************)
(* A small instance of Network for TLC: two threads of the slave with an   *)
(* identifier each, and tables that are empty, of one and three slots with *)
(* a repeated identifier, and refused.  The state space is finite.         *)
(***************************************************************************)
EXTENDS Network

CONSTANTS ta, tb, p1, p2

TwoCallers == {ta, tb}

OwnIds == [t \in TwoCallers |-> IF t = ta THEN {16} ELSE {17}]

Slot(i, d) == [id |-> i, delay |-> d]

Tables == {<< >>, <<Slot(16, 0)>>, <<Slot(16, 10), Slot(17, 0), Slot(16, 5)>>,
           <<Slot(17, 0), Slot(64, 0)>>}

=============================================================================
