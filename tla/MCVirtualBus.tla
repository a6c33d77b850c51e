---------------------------- MODULE MCVirtualBus ----------------------------
(***************************************************************************)
(* Small instances of VirtualBus for TLC.                                  *)
(***************************************************************************)
EXTENDS VirtualBus, TLC

CONSTANTS ma, mb, d1, short, long

TwoMasters == {ma, mb}
OneMaster  == {ma}
OneDrainer == {d1}

(* One ordinary identifier, the diagnostic request, and one too large. *)
NormalId == 16
DiagId   == 60
BadId    == 64

TwoPayloads == {short, long}
OnePayload  == {short}
PayloadSize == [p \in {short, long} |-> IF p = short THEN 1 ELSE 2]

AllFrames == {[id |-> DiagId, all |-> TRUE]}
OnlyDiag  == {[id |-> DiagId, all |-> FALSE]}

Opt(filters, policy, depth) == [filters |-> filters, policy |-> policy, depth |-> depth]

(* Every policy, a wildcard by absence, a wildcard filter and an exact     *)
(* filter, at depth 1: the channels fill up.                               *)
MixedOptions == {Opt({}, "Block", 1), Opt(OnlyDiag, "DropNewest", 1),
                 Opt(AllFrames, "DropOldest", 1)}

BlockOptions == {Opt({}, "Block", 1), Opt(AllFrames, "DropOldest", 1)}

OldestOptions == {Opt(AllFrames, "DropOldest", 1)}

OneSchedule == {<<DiagId>>}

Symmetry == Permutations(TwoMasters)

=============================================================================
