------------------------------- MODULE MCChan -------------------------------
(***************************************************************************)
(* A small instance of Chan for TLC.  Nothing is bounded beyond the        *)
(* constants: the buffer is bounded by Capacity and there is no counter.   *)
(***************************************************************************)
EXTENDS Chan

CONSTANTS t1, t2, t3, m1, m2

ThreeThreads == {t1, t2, t3}

TwoMessages == {m1, m2}

=============================================================================
