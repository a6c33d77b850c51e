------------------------------- MODULE Convert -------------------------------
(***************************************************************************)
(* One invocation of the command line tool (cli/main.cpp, cli/json.hpp):   *)
(* its arguments are read from left to right, `convert' parses a lin.Frame *)
(* from JSON on standard input, validates it and prints a relay.Message.   *)
(*                                                                         *)
(* JSON is its fields: what the extract_ functions find behind a key.  The *)
(* texts of version, status and capabilities are one word each.            *)
(***************************************************************************)
EXTENDS Integers, Sequences

CONSTANTS
    Commands,   \* argv[1], "" when there is none
    Arguments,  \* the rest of argv: sequences of strings
    AccumSize   \* the values of accum in base64_decode, 2^32 in the code

VARIABLES
    tool,      \* where main is
    command, argv,
    arg,       \* the index i of the argument loops
    option,    \* fmt or protocol, whichever the command has
    input,     \* the JSON object on standard input
    frame,     \* f in cmd_convert
    output,    \* what was printed
    code       \* the exit code, -1 before the tool exits

toolVars == <<tool, command, argv, arg, option, input, frame, output, code>>

(* No digits behind the key, no key, or a number that does not fit.        *)
NoNumber == -1

NoFrame == [id |-> 0, data |-> << >>, ct |-> "classic", checksum |-> 0]
NoInput == [id |-> NoNumber, data |-> [form |-> "none", items |-> << >>],
            ct |-> NoNumber, checksum |-> NoNumber]
NoMessage == [id |-> NoNumber, payload |-> << >>, ct |-> "none", checksum |-> 0]

ToolInit ==
    /\ tool = "idle"
    /\ command = "" /\ argv = << >> /\ arg = 1 /\ option = ""
    /\ input = NoInput /\ frame = NoFrame /\ output = NoMessage
    /\ code = -1

-----------------------------------------------------------------------------
(* Base64.  A character is its six bits; Junk is any character outside the *)
(* alphabet, line breaks included.                                         *)
Pad == 64
Junk == 65

(* 2^n, for shifts by less than a byte. *)
Power(n) == <<1, 2, 4, 8, 16, 32, 64, 128>>[n + 1]

(* accum is shifted left by the six bits v; once bits are eight or more,   *)
(* the upper eight of them are a byte.                                     *)
SixBits(s, v) ==
    LET a == (s.accum * 64 + v) % AccumSize
        b == s.bits + 6
    IN  IF b < 8 THEN [accum |-> a, bits |-> b, out |-> s.out, over |-> s.over]
        ELSE [accum |-> a, bits |-> b - 8,
              out |-> Append(s.out, (a \div Power(b - 8)) % 256), over |-> s.over]

(* Mutant: a pad character is read as zero bits. *)
DecodeCharPadIsZero(s, c) == IF c = Junk THEN s ELSE SixBits(s, c % 64)

(* One round of the loop in base64_decode.  The first pad ends it; other   *)
(* characters outside the alphabet are skipped.                            *)
DecodeChar(s, c) ==
    IF s.over \/ c = Pad THEN [s EXCEPT !.over = TRUE]
    ELSE IF c = Junk THEN s
    ELSE SixBits(s, c)

DecodeStart == [accum |-> 0, bits |-> 0, out |-> << >>, over |-> FALSE]

(* The loop's variables after each character. *)
Decoding(chars) ==
    LET state[i \in 1..Len(chars)] ==
            DecodeChar(IF i = 1 THEN DecodeStart ELSE state[i - 1], chars[i])
    IN  state

base64_decode(chars) == IF chars = << >> THEN << >> ELSE Decoding(chars)[Len(chars)].out

(* Three bytes, absent ones zero, make four characters, the last ones pads *)
(* for absent bytes.                                                       *)
base64_encode(data) ==
    LET ByteOr0(i) == IF i <= Len(data) THEN data[i] ELSE 0
        Group(g) == ByteOr0(3 * g + 1) * 65536 + ByteOr0(3 * g + 2) * 256 + ByteOr0(3 * g + 3)
        Char(g, k) == IF k > 1 /\ 3 * g + k > Len(data) THEN Pad
                      ELSE (Group(g) \div <<262144, 4096, 64, 1>>[k + 1]) % 64
    IN  [j \in 1..4 * ((Len(data) + 2) \div 3) |-> Char((j - 1) \div 4, (j - 1) % 4)]

-----------------------------------------------------------------------------
(* Mutant: an element that is no byte is left out and the loop goes on. *)
GoodPrefixSkips(items) == SelectSeq(items, LAMBDA b : b \in 0..255)

(* An array up to its first element that is not a number or above 255:     *)
(* the loop breaks there and keeps what it has.                            *)
GoodPrefix(items) ==
    LET good == {n \in 0..Len(items) : \A i \in 1..n : items[i] \in 0..255}
    IN  SubSeq(items, 1, CHOOSE n \in good : \A k \in good : k <= n)

(* extract_bytes into an empty vector. *)
extract_bytes(field) ==
    CASE field.form = "text" -> base64_decode(field.items)
      [] field.form = "array" -> GoodPrefix(field.items)
      [] OTHER -> << >>

(* parse_frame_json.  The identifier and the checksum are cast to uint8_t. *)
parse_frame_json(json) ==
    [id |-> json.id % 256,
     data |-> extract_bytes(json.data),
     ct |-> IF json.ct = 1 THEN "enhanced" ELSE "classic",
     checksum |-> IF json.checksum = NoNumber THEN 0 ELSE json.checksum % 256]

kLINMaxID == 63
kLINMaxDataLen == 8
DiagIds == {60, 61}

(* validate_frame returns instead of throwing. *)
ValidFrame(f) ==
    /\ f.id <= kLINMaxID
    /\ f.data # << >> /\ Len(f.data) <= kLINMaxDataLen
    /\ f.id \in DiagIds => f.ct = "classic"

(* to_message, then message_to_json: the payload becomes base64 text.      *)
PrintMessage(f) ==
    [id |-> f.id, payload |-> base64_encode(f.data), ct |-> f.ct, checksum |-> f.checksum]

(* from_message on a printed message: a sender of the relay gets the frame *)
(* back.                                                                   *)
from_message(m) ==
    [id |-> m.id, data |-> base64_decode(m.payload), ct |-> m.ct, checksum |-> m.checksum % 256]

-----------------------------------------------------------------------------
toolArgs == <<command, argv>>

Invoke(c, args, json) ==
    /\ tool = "idle"
    /\ tool' = "main"
    /\ command' = c /\ argv' = args /\ input' = json
    /\ UNCHANGED <<arg, option, frame, output, code>>

Exit(c) == tool' = "exited" /\ code' = c

Dispatch ==
    /\ tool = "main"
    /\ \/ /\ command \in {"version", "status"}
          /\ tool' = "format" /\ option' = "json"
          /\ UNCHANGED <<output, code>>
       \/ /\ command = "convert"
          /\ tool' = "options"
          /\ UNCHANGED <<option, output, code>>
       \/ /\ command = "capabilities"
          /\ output' = [NoMessage EXCEPT !.ct = "capabilities"]
          /\ Exit(0) /\ UNCHANGED option
       \/ /\ command \notin {"version", "status", "convert", "capabilities"}
          /\ Exit(2) /\ UNCHANGED <<option, output>>
    /\ UNCHANGED <<toolArgs, arg, input, frame>>

HasValue(name) == argv[arg] = name /\ arg < Len(argv)

(* parse_format_flag, one round: anything but --format and a value is an   *)
(* error.                                                                  *)
FormatFlag ==
    /\ tool = "format"
    /\ arg <= Len(argv)
    /\ IF HasValue("--format")
       THEN option' = argv[arg + 1] /\ arg' = arg + 2 /\ UNCHANGED <<tool, code>>
       ELSE Exit(2) /\ UNCHANGED <<option, arg>>
    /\ UNCHANGED <<toolArgs, input, frame, output>>

(* cmd_version and cmd_status: of several values the last one counts.      *)
PrintInFormat ==
    /\ tool = "format"
    /\ arg > Len(argv)
    /\ IF option \in {"json", "text"}
       THEN Exit(0) /\ output' = [NoMessage EXCEPT !.ct = option]
       ELSE Exit(2) /\ UNCHANGED output
    /\ UNCHANGED <<toolArgs, arg, option, input, frame>>

(* The loop of convert, one round: an unknown argument, or an option that  *)
(* is the last one, is skipped.                                            *)
ConvertOption ==
    /\ tool = "options"
    /\ arg <= Len(argv)
    /\ \/ /\ HasValue("--protocol")
          /\ option' = argv[arg + 1] /\ arg' = arg + 2
          /\ UNCHANGED <<tool, code>>
       \/ /\ HasValue("--format")
          /\ IF argv[arg + 1] = "json" THEN arg' = arg + 2 /\ UNCHANGED <<tool, code>>
                                       ELSE Exit(2) /\ UNCHANGED arg
          /\ UNCHANGED option
       \/ /\ ~HasValue("--protocol") /\ ~HasValue("--format")
          /\ arg' = arg + 1
          /\ UNCHANGED <<tool, option, code>>
    /\ UNCHANGED <<toolArgs, input, frame, output>>

(* Without --protocol, or with another one than LIN, convert ends here.    *)
CheckProtocol ==
    /\ tool = "options"
    /\ arg > Len(argv)
    /\ IF option = "LIN" THEN tool' = "input" /\ UNCHANGED code ELSE Exit(2)
    /\ UNCHANGED <<toolArgs, arg, option, input, frame, output>>

ParseInput ==
    /\ tool = "input"
    /\ IF input.id = NoNumber
       THEN Exit(1) /\ UNCHANGED frame
       ELSE tool' = "validate" /\ frame' = parse_frame_json(input) /\ UNCHANGED code
    /\ UNCHANGED <<toolArgs, arg, option, input, output>>

Validate ==
    /\ tool = "validate"
    /\ IF ValidFrame(frame)
       THEN Exit(0) /\ output' = PrintMessage(frame)
       ELSE Exit(1) /\ UNCHANGED output
    /\ UNCHANGED <<toolArgs, arg, option, input, frame>>

(* The next invocation is a new process. *)
Return ==
    /\ tool = "exited"
    /\ tool' = "idle"
    /\ command' = "" /\ argv' = << >> /\ arg' = 1 /\ option' = ""
    /\ input' = NoInput /\ frame' = NoFrame /\ output' = NoMessage
    /\ code' = -1

ToolStep ==
    \/ Dispatch \/ FormatFlag \/ PrintInFormat
    \/ ConvertOption \/ CheckProtocol \/ ParseInput \/ Validate

-----------------------------------------------------------------------------
Frames == [id : 0..255, data : Seq(0..255), ct : {"classic", "enhanced"}, checksum : 0..255]

(* Type invariant *)
ToolTypeOK ==
    /\ tool \in {"idle", "main", "format", "options", "input", "validate", "exited"}
    /\ arg \in 1..Len(argv) + 1
    /\ frame \in Frames
    /\ output.payload \in Seq(0..Pad)
    /\ code \in -1..2
    /\ code = -1 <=> tool # "exited"
    /\ output # NoMessage => code = 0

=============================================================================
