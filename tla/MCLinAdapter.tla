---------------------------- MODULE MCLinAdapter ----------------------------
(***************************************************************************)
(* A small instance of LinAdapter for TLC: both channels are small, so     *)
(* that each of the two hops drops.                                        *)
(***************************************************************************)
EXTENDS LinAdapter

Policy(p) == [policy |-> p]
Depth(n) == [depth |-> n]

(* Every policy; no option, depths that mean the default, and an option    *)
(* that is given twice.                                                    *)
SomeRequests == {<< >>, <<Policy("Block"), Depth(0)>>,
                 <<Policy("Block"), Depth(-1), Policy("DropOldest"), Depth(1)>>}

(* The diagnostic request, an identifier that is too large, and "bad". *)
SomeTexts == {60, 64, NotANumber}

=============================================================================
