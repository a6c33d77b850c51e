----------------------------- MODULE MCFramePath -----------------------------
(***************************************************************************)
(* A small instance of FramePath for TLC.  The state space is finite.      *)
(***************************************************************************)
EXTENDS FramePath

Edge == {0, 1, 254, 255}

(* Every remainder of a base64 group, and one byte too many. *)
Responses == UNION {[1..n -> {0, 1, 255}] : n \in 1..3} \cup {<<170, 171, 172, 0, 255, 1, 2, 3>>,
                                                            [i \in 1..9 |-> 28 * i]}

(* One enhanced and two classic identifiers, one of them diagnostic. *)
Types == [id \in 0..63 |-> IF id \in {16} THEN "enhanced" ELSE "classic"]

LogArgs == <<"--protocol", "LIN", "--format", "json">>

ManyArgs == {<< >>, <<"--protocol", "LIN">>, LogArgs, <<"--protocol">>, <<"--protocol", "CAN">>,
             <<"--verbose", "--protocol", "LIN">>, <<"--protocol", "--format", "json">>,
             <<"--protocol", "CAN", "--protocol", "LIN">>, <<"--format", "xml", "--protocol", "LIN">>,
             <<"--format", "text">>, <<"--format", "xml", "--format", "json">>, <<"--format">>}

Array(items) == [form |-> "array", items |-> items]
Text(items) == [form |-> "text", items |-> items]

(* Arrays that are empty, too long, or go wrong at an element; texts with  *)
(* and without pads, with foreign characters, and cut inside a group.      *)
DataFields == {[form |-> "none", items |-> << >>], Array(<< >>), Array([i \in 1..9 |-> i]),
               Array(<<1, 300, 2>>), Array(<<1, Tool!NoNumber, 2>>), Array(<<Tool!NoNumber>>),
               Array([i \in 1..8 |-> i]), Text(<<42, 42, 63>>), Text(<<42, 65, 42, 62, 64>>),
               Text(<<63>>), Text(<<0, 16, 64, 64, 63>>)}

Handwritten == {Tool!NoInput} \cup
    [id : {16, 60, 64, 272, Tool!NoNumber}, data : DataFields,
     ct : {Tool!NoNumber, 0, 1, 2}, checksum : {Tool!NoNumber, 300}]

=============================================================================
