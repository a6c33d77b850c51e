-------------------------------- MODULE MCLdf --------------------------------
(***************************************************************************)
(* Small files for LdfDocument: two signals of 3 and 12 bits, two frames,  *)
(* payloads that hold all of a signal, part of it or nothing, and lines of *)
(* every kind, with numbers out of range, for the malformed files.         *)
(***************************************************************************)
EXTENDS LdfDocument

SomePayloads == {<< >>, <<165>>, <<201, 60>>}

AnyLine ==
    {[kind |-> "section", name |-> s, brace |-> b] : s \in {"Frames", "Schedule_tables"},
                                                     b \in BOOLEAN}
    \cup {[kind |-> k] : k \in {"open", "close", "other"}}
    \cup {[kind |-> "master", node |-> "M"], [kind |-> "slaves", nodes |-> <<"S1", "S2">>]}
    \cup {[kind |-> "signal", name |-> "s1", width |-> w] : w \in {-1, 100}}
    \cup {[kind |-> "frame", name |-> "f1", id |-> i] : i \in {BadNumber, 200, 272}}
    \cup {[kind |-> "ref", name |-> "s1", offset |-> BadNumber]}
    \cup {[kind |-> "table", name |-> "U"], [kind |-> "slot", name |-> "f1", delay |-> 5]}

=============================================================================
