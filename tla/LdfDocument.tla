----------------------------- MODULE LdfDocument -----------------------------
(***************************************************************************)
(* LDF files for the parser.  A writer that knows the grammar of the file  *)
(* produces it line by line, the parser (LdfParser) consumes each line,    *)
(* and wanted collects what the lines declare.  At any point the file may  *)
(* end, and at any point the writer may start to produce arbitrary lines.  *)
(***************************************************************************)
EXTENDS LdfParser

CONSTANTS
    SignalNames, Widths, Offsets,
    FrameNames, Ids,
    Delays,     \* they fit 32 bits
    Payloads,   \* payloads to decode: sequences of bytes
    Lines,      \* the lines of malformed files
    MaxLines    \* bound of the state space

Numerals == Int \cup {BadNumber}

(* A number in a line is any integer, or text that is none. *)
LineOK(l) ==
    /\ l.kind = "section" => l.name \in Sections
    /\ l.kind = "signal" => l.width \in Numerals
    /\ l.kind = "frame" => l.id \in Numerals
    /\ l.kind = "slot" => l.delay \in Numerals

(* In a well-formed file they are numbers the protocol allows: a frame has *)
(* at most 64 bits.                                                        *)
ASSUME DocumentAssumption ==
    /\ Widths \subseteq 0..64 /\ Ids \subseteq 0..MaxID
    /\ Offsets \subseteq 0..63 /\ Delays \subseteq Nat
    /\ \A data \in Payloads : data \in Seq(0..255)
    /\ \A l \in Lines : LineOK(l)

VARIABLES
    at,      \* where the writer is: a section, or "frame", "table", "top"
    brace,   \* the section still needs its "{"
    wf,      \* the file is well-formed so far
    count,   \* lines written
    wanted   \* what the lines declare

writer == <<at, brace, wf, count, wanted>>
vars == <<parser, writer>>

Nothing == [header |-> << >>, nodes |-> [master |-> "", slaves |-> << >>],
            signals |-> << >>, frames |-> << >>, schedules |-> << >>, last |-> "none"]

DocInit ==
    /\ Init
    /\ at = "top"
    /\ brace = FALSE
    /\ wf = TRUE
    /\ count = 0
    /\ wanted = Nothing

(* One line goes from the writer to the parser. *)
Emit(l) ==
    /\ count < MaxLines
    /\ count' = count + 1
    /\ Line(l)

Goes(to) == at' = to /\ UNCHANGED <<brace, wf>>

Stays == UNCHANGED <<at, brace, wf>>

Ready(where) == wf /\ at = where /\ ~brace

WriteHeader ==
    /\ Ready("top")
    /\ Emit([kind |-> "header", field |-> "speed", value |-> 19])
    /\ wanted' = [wanted EXCEPT !.header = Put(@, "speed", 19)]
    /\ Stays

WriteSection(s, sameLine) ==
    /\ Ready("top")
    /\ Emit([kind |-> "section", name |-> s, brace |-> sameLine])
    /\ at' = s
    /\ brace' = ~sameLine
    /\ UNCHANGED <<wf, wanted>>

WriteBrace ==
    /\ wf /\ brace
    /\ Emit([kind |-> "open"])
    /\ brace' = FALSE
    /\ UNCHANGED <<at, wf, wanted>>

WriteClose ==
    /\ wf /\ ~brace /\ at # "top"
    /\ Emit([kind |-> "close"])
    /\ Goes(CASE at = "frame" -> "Frames"
              [] at = "table" -> "Schedule_tables"
              [] OTHER -> "top")
    /\ UNCHANGED wanted

(* Lines the parser has no use for, AssignFrameId for one. *)
WriteOther ==
    /\ wf /\ ~brace
    /\ Emit([kind |-> "other"])
    /\ Stays
    /\ UNCHANGED wanted

WriteNodes ==
    /\ Ready("Nodes")
    /\ \/ /\ Emit([kind |-> "master", node |-> "M"])
          /\ wanted' = [wanted EXCEPT !.nodes.master = "M"]
       \/ /\ Emit([kind |-> "slaves", nodes |-> <<"S1", "S2">>])
          /\ wanted' = [wanted EXCEPT !.nodes.slaves = @ \o <<"S1", "S2">>]
    /\ Stays

WriteSignal(name, width) ==
    /\ Ready("Signals")
    /\ name \notin DOMAIN wanted.signals
    /\ Emit([kind |-> "signal", name |-> name, width |-> width])
    /\ wanted' = [wanted EXCEPT !.signals = Put(@, name, width)]
    /\ Stays

(* Names and identifiers of frames are unique in a well-formed file. *)
WriteFrame(name, id) ==
    /\ Ready("Frames")
    /\ id \notin DOMAIN wanted.frames
    /\ \A i \in DOMAIN wanted.frames : wanted.frames[i].name # name
    /\ Emit([kind |-> "frame", name |-> name, id |-> id])
    /\ wanted' = [wanted EXCEPT !.frames = Put(@, id, [name |-> name, refs |-> << >>]),
                                !.last = id]
    /\ Goes("frame")

WriteRef(name, offset) ==
    /\ Ready("frame")
    /\ \A i \in DOMAIN wanted.frames[wanted.last].refs :
          wanted.frames[wanted.last].refs[i].name # name
    /\ Emit([kind |-> "ref", name |-> name, offset |-> offset])
    /\ wanted' = [wanted EXCEPT !.frames[wanted.last].refs =
                      Append(@, [name |-> name, offset |-> offset])]
    /\ Stays

WriteTable ==
    /\ Ready("Schedule_tables")
    /\ "T" \notin DOMAIN wanted.schedules
    /\ Emit([kind |-> "table", name |-> "T"])
    /\ wanted' = [wanted EXCEPT !.schedules = Put(@, "T", << >>)]
    /\ Goes("table")

(* Slots name frames that were declared before. *)
WriteSlot(id, delay) ==
    /\ Ready("table")
    /\ Emit([kind |-> "slot", name |-> wanted.frames[id].name, delay |-> delay])
    /\ wanted' = [wanted EXCEPT !.schedules["T"] = Append(@, [id |-> id, delay |-> delay])]
    /\ Stays

(* From here on the file is anything, and the writer keeps no account. *)
WriteAnything(l) ==
    /\ Emit(l)
    /\ at' = "top" /\ brace' = FALSE
    /\ wf' = FALSE
    /\ wanted' = Nothing

DocNext ==
    \/ WriteHeader \/ WriteBrace \/ WriteClose \/ WriteOther \/ WriteNodes \/ WriteTable
    \/ \E s \in Sections, sameLine \in BOOLEAN : WriteSection(s, sameLine)
    \/ \E n \in SignalNames : \/ \E w \in Widths : WriteSignal(n, w)
                              \/ \E o \in Offsets : WriteRef(n, o)
    \/ \E n \in FrameNames, id \in Ids : WriteFrame(n, id)
    \/ \E id \in DOMAIN wanted.frames, d \in Delays : WriteSlot(id, d)
    \/ \E l \in Lines : WriteAnything(l)
    \/ EndOfFile /\ UNCHANGED writer

Spec == DocInit /\ [][DocNext]_vars

-----------------------------------------------------------------------------
(* The database is exactly what the lines of a well-formed file declare,   *)
(* braces on the same line or the next, sections in any order (frames      *)
(* before the slots that name them) and repeated, and also when the file   *)
(* is cut after any line.                                                  *)
DeclaredIsParsed ==
    wf /\ mode = "done" =>
        /\ header = wanted.header
        /\ nodes = wanted.nodes
        /\ signals = wanted.signals
        /\ frames = wanted.frames
        /\ schedules = wanted.schedules

(* The bytes from position n on as one little-endian number. *)
Suffixes(data) ==
    LET value[n \in 1..Len(data)] ==
            data[n] + 256 * (IF n = Len(data) THEN 0 ELSE value[n + 1])
    IN  value

AsNumber(data) == IF data = << >> THEN 0 ELSE Suffixes(data)[1]

(* decode reads every declared signal as the slice of the payload that the *)
(* file gives it, the payload taken as a little-endian number; a signal    *)
(* that reaches past the end of a short payload has zeros there.           *)
DecodeIsSlice ==
    wf /\ mode = "done" => \A id \in DOMAIN wanted.frames, data \in Payloads :
        LET refs == wanted.frames[id].refs
            known == {i \in DOMAIN refs : refs[i].name \in DOMAIN wanted.signals}
        IN  /\ DOMAIN Decode(id, data) = {refs[i].name : i \in known}
            /\ \A i \in known :
                  Decode(id, data)[refs[i].name]
                    = (AsNumber(data) \div TwoTo[refs[i].offset])
                        % TwoTo[wanted.signals[refs[i].name]]

=============================================================================
