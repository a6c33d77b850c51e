------------------------------ MODULE LdfParser ------------------------------
(***************************************************************************)
(* lin::ldf::parse and DB::decode (src/ldf/parser.cpp).  The parser reads  *)
(* the file line by line; each nested loop of the code is a mode here, and *)
(* consuming a line is one step.  Comments and empty lines are gone before *)
(* it starts.                                                              *)
(*                                                                         *)
(* A line is a record whose kind says which of the code's string tests it  *)
(* passes: [kind |-> "section", name, brace] for Nodes, Signals, Frames    *)
(* and Schedule_tables with or without the "{" behind it, "open" for a     *)
(* lone "{", "close" for a lone "}", "header" (LIN_speed and the versions) *)
(* "master", "slaves", "signal", "frame" (the first line of a frame),      *)
(* "ref" (a signal in a frame), "table" (the first line of a table),       *)
(* "slot" (frame delay N ms) and "other", which passes no test.  A master  *)
(* line has its two times and a slaves line two names; offsets are not     *)
(* negative.  Numbers the code fails to convert are BadNumber.             *)
(***************************************************************************)
EXTENDS Integers, Sequences, FiniteSetsExt

CONSTANTS
    MaxID,      \* kLINMaxID
    BadNumber,  \* text in which stoll finds no number
    Junk        \* a name with a ':' in it, which no signal can have

ASSUME LdfAssumption ==
    /\ MaxID \in 0..254
    /\ BadNumber \notin Int

VARIABLES
    mode,       \* which loop of the parser is running
    fresh,      \* the section's first line has just been read
    open,       \* the frame or the table being read, [name, id, items]
    header,     \* protocol_version, language_version and speed
    nodes,      \* master_node and slave_nodes
    signals,    \* signals_: bit_width by name
    frames,     \* frames_: [name, refs] by id
    schedules   \* schedules_: entries by name

db == <<header, nodes, signals, frames, schedules>>
parser == <<mode, fresh, open, db>>

Sections == {"Nodes", "Signals", "Frames", "Schedule_tables"}

NothingOpen == [name |-> "", id |-> 0, items |-> << >>]

Put(map, key, value) ==
    [k \in DOMAIN map \cup {key} |-> IF k = key THEN value ELSE map[k]]

Init ==
    /\ mode = "top"
    /\ fresh = FALSE
    /\ open = NothingOpen
    /\ header = << >>
    /\ nodes = [master |-> "", slaves |-> << >>]
    /\ signals = << >>
    /\ frames = << >>
    /\ schedules = << >>

-----------------------------------------------------------------------------
(* Conversions *)

(* A failed parse_int leaves the default 0; an id is cut to 8 bits. *)
Number(v) == IF v = BadNumber THEN 0 ELSE v

FrameId(v) == Number(v) % 256

(* Mutant: only negative widths are corrected. *)
ClampNoUpper(w) == IF w < 0 THEN 0 ELSE w

(* The width is kept in [0, 64]. *)
Clamp(w) == IF w < 0 THEN 0 ELSE IF w > 64 THEN 64 ELSE w

(* Mutant: any identifier that a byte can hold. *)
ResolveAnyId(name) == {id \in DOMAIN frames : frames[id].name = name}

(* The frame a slot names: the first in the map's order that has the name, *)
(* if its identifier is in range.                                          *)
Resolve(name) ==
    LET ids == {id \in DOMAIN frames : frames[id].name = name}
    IN  {id \in ids : id <= MaxID /\ \A other \in ids : id <= other}

-----------------------------------------------------------------------------
(* parse_top *)

TopLine(l) ==
    /\ mode = "top"
    /\ IF l.kind = "section"
       THEN mode' = l.name /\ fresh' = TRUE
       ELSE UNCHANGED <<mode, fresh>>
    /\ header' = IF l.kind = "header" THEN Put(header, l.field, l.value) ELSE header
    /\ UNCHANGED <<open, nodes, signals, frames, schedules>>

(* Inside a section a lone "}" leads back to the top. *)
InSection(section, l) ==
    /\ mode = section
    /\ mode' = IF l.kind = "close" THEN "top" ELSE section
    /\ fresh' = FALSE
    /\ UNCHANGED open

(* parse_nodes *)
NodesLine(l) ==
    /\ InSection("Nodes", l)
    /\ nodes' = CASE l.kind = "master" -> [nodes EXCEPT !.master = l.node]
                  [] l.kind = "slaves" -> [nodes EXCEPT !.slaves = @ \o l.nodes]
                  [] OTHER -> nodes
    /\ UNCHANGED <<header, signals, frames, schedules>>

(* parse_signals: every line with a ':' and three parts behind it, which   *)
(* the first line of a frame and the Master line have too.                 *)
SignalsLine(l) ==
    /\ InSection("Signals", l)
    /\ signals' = CASE l.kind = "signal" -> Put(signals, l.name, Clamp(Number(l.width)))
                    [] l.kind = "frame" -> Put(signals, l.name, Clamp(Number(l.id)))
                    [] l.kind = "master" -> Put(signals, "Master", 0)
                    [] OTHER -> signals
    /\ UNCHANGED <<header, nodes, frames, schedules>>

-----------------------------------------------------------------------------
(* parse_frames, outside a frame: what has a '{' but no ':' is skipped. *)

FramesLine(l) ==
    /\ mode = "Frames"
    /\ l.kind # "frame"
    /\ InSection("Frames", l)
    /\ UNCHANGED db

OpenFrame(l) ==
    /\ mode = "Frames"
    /\ l.kind = "frame"
    /\ mode' = "frame"
    /\ fresh' = FALSE
    /\ open' = [name |-> l.name, id |-> FrameId(l.id), items |-> << >>]
    /\ UNCHANGED db

(* Every line with a ',' is a signal reference; one that has a ':' before  *)
(* the ',' refers to a name that no signal has.                            *)
RefOf(l) ==
    IF l.kind = "ref" THEN [name |-> l.name, offset |-> Number(l.offset)]
    ELSE [name |-> Junk, offset |-> 0]

FrameLine(l) ==
    /\ mode = "frame"
    /\ l.kind # "close"
    /\ open' = IF l.kind \in {"ref", "signal", "frame", "master", "slaves"}
               THEN [open EXCEPT !.items = Append(@, RefOf(l))]
               ELSE open
    /\ UNCHANGED <<mode, fresh, db>>

(* db.frames_[fr.id] = fr *)
StoreFrame ==
    /\ frames' = Put(frames, open.id, [name |-> open.name, refs |-> open.items])
    /\ UNCHANGED <<header, nodes, signals, schedules>>

CloseFrame(l) ==
    /\ mode = "frame"
    /\ l.kind = "close"
    /\ StoreFrame
    /\ mode' = "Frames"
    /\ open' = NothingOpen
    /\ UNCHANGED fresh

-----------------------------------------------------------------------------
(* parse_schedule_tables, outside a table: a line that ends in '{' opens   *)
(* one, whatever comes before it, unless it is the section's own "{".      *)

(* Mutant: the section's own "{" opens a table. *)
OpensTableAtBrace(l) ==
    \/ l.kind \in {"table", "frame", "open"}
    \/ l.kind = "section" /\ l.brace

OpensTable(l) ==
    \/ l.kind \in {"table", "frame"}
    \/ l.kind = "section" /\ l.brace
    \/ l.kind = "open" /\ ~fresh

TableName(l) == CASE l.kind \in {"table", "section"} -> l.name
                  [] l.kind = "frame" -> Junk
                  [] OTHER -> ""

TablesLine(l) ==
    /\ mode = "Schedule_tables"
    /\ ~OpensTable(l)
    /\ InSection("Schedule_tables", l)
    /\ UNCHANGED db

OpenTable(l) ==
    /\ mode = "Schedule_tables"
    /\ OpensTable(l)
    /\ mode' = "table"
    /\ fresh' = FALSE
    /\ open' = [name |-> TableName(l), id |-> 0, items |-> << >>]
    /\ UNCHANGED db

(* A slot of a frame that is not known, yet or at all, is left out. *)
TableLine(l) ==
    /\ mode = "table"
    /\ l.kind # "close"
    /\ IF l.kind = "slot" /\ Resolve(l.name) # {}
       THEN \E id \in Resolve(l.name) :
                open' = [open EXCEPT !.items =
                            Append(@, [id |-> id, delay |-> Number(l.delay)])]
       ELSE UNCHANGED open
    /\ UNCHANGED <<mode, fresh, db>>

(* db.schedules_[table_name] = entries *)
StoreTable ==
    /\ schedules' = Put(schedules, open.name, open.items)
    /\ UNCHANGED <<header, nodes, signals, frames>>

CloseTable(l) ==
    /\ mode = "table"
    /\ l.kind = "close"
    /\ StoreTable
    /\ mode' = "Schedule_tables"
    /\ open' = NothingOpen
    /\ UNCHANGED fresh

-----------------------------------------------------------------------------
Line(l) ==
    \/ TopLine(l) \/ NodesLine(l) \/ SignalsLine(l)
    \/ FramesLine(l) \/ OpenFrame(l) \/ FrameLine(l) \/ CloseFrame(l)
    \/ TablesLine(l) \/ OpenTable(l) \/ TableLine(l) \/ CloseTable(l)

(* All loops end with the lines; a frame or table being read is stored. *)
EndOfFile ==
    /\ mode # "done"
    /\ CASE mode = "frame" -> StoreFrame
         [] mode = "table" -> StoreTable
         [] OTHER -> UNCHANGED db
    /\ mode' = "done"
    /\ open' = NothingOpen
    /\ UNCHANGED fresh

-----------------------------------------------------------------------------
(* DB::decode *)

(* 1 << n *)
TwoTo[n \in Nat] == IF n = 0 THEN 1 ELSE 2 * TwoTo[n - 1]

(* Mutant: bits are counted from the most significant one. *)
BitMsbFirst(data, i) == (data[i \div 8 + 1] \div TwoTo[7 - (i % 8)]) % 2

(* Bit i of the payload, LSB first. *)
Bit(data, i) == (data[i \div 8 + 1] \div TwoTo[i % 8]) % 2

(* val after each round of the loop, which sets bit i - 1 in round i until *)
(* the payload ends.                                                       *)
Rounds(data, offset, width) ==
    LET val[i \in 1..width] ==
            (IF i = 1 THEN 0 ELSE val[i - 1])
            + (IF offset + i - 1 < 8 * Len(data)
               THEN Bit(data, offset + i - 1) * TwoTo[i - 1] ELSE 0)
    IN  val

Extract(data, offset, width) == IF width = 0 THEN 0 ELSE Rounds(data, offset, width)[width]

(* By name the value of every signal of the frame that is declared; of two *)
(* references to one signal the last counts.                               *)
Decode(id, data) ==
    IF id \notin DOMAIN frames THEN << >>
    ELSE LET refs == frames[id].refs
             Last(name) == Max({i \in DOMAIN refs : refs[i].name = name})
         IN  [name \in {refs[i].name : i \in DOMAIN refs} \cap DOMAIN signals |->
                 Extract(data, refs[Last(name)].offset, signals[name])]

-----------------------------------------------------------------------------
(* Type invariant, for any sequence of lines: a width never lets decode    *)
(* shift by 64 or more, and a frame's identifier fits its byte.            *)
TypeOK ==
    /\ mode \in Sections \cup {"top", "frame", "table", "done"}
    /\ fresh \in BOOLEAN
    /\ open.id \in 0..255
    /\ \A s \in DOMAIN signals : signals[s] \in 0..64
    /\ DOMAIN frames \subseteq 0..255

(* Whatever the file says, each slot of each schedule is one that          *)
(* send_header takes: an identifier in range, of a frame the file declares.*)
ScheduleIdsValid ==
    \A t \in DOMAIN schedules : \A i \in DOMAIN schedules[t] :
        schedules[t][i].id \in DOMAIN frames \cap 0..MaxID

=============================================================================
