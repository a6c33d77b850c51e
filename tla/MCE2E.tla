------------------------------- MODULE MCE2E -------------------------------
(***************************************************************************)
(* Small instances of E2E for TLC.                                         *)
(***************************************************************************)
EXTENDS E2E

CONSTANTS ta, tb, own, foreign

OneThread  == {ta}
TwoThreads == {ta, tb}

OneProtector  == {own}
TwoProtectors == {own, foreign}

(* A configuration is named after its protector. *)
Identity == [p \in {own, foreign} |-> p]

=============================================================================
