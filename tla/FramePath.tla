------------------------------ MODULE FramePath ------------------------------
(***************************************************************************)
(* The way of a frame into the relay: over the wire (Wire), from the       *)
(* receiver through a logger that writes it as a lin.Frame in JSON, into   *)
(* the convert command (Convert).  The logger is not part of the           *)
(* repository; like the test vectors it writes data as base64 text, or as  *)
(* an array.  The tool is also invoked by hand, with any arguments and any *)
(* JSON.                                                                   *)
(***************************************************************************)
EXTENDS Wire, SequencesExt

CONSTANTS Commands, Arguments, AccumSize,
          Documents,   \* JSON objects written by hand
          LogArguments \* how the logger invokes convert

VARIABLES tool, command, argv, arg, option, input, frame, output, code,
          meant        \* history: the frame that the logger wrote down

Tool == INSTANCE Convert

toolVars == <<tool, command, argv, arg, option, input, frame, output, code>>

vars == <<wireVars, toolVars, meant>>

NotLogged == Tool!NoFrame

(* A number of the JSON text, or that there is none. *)
Number == Nat \cup {Tool!NoNumber}

(* A character of base64 text, or one that is none. *)
Character == 0..Tool!Junk

DataField == [form : {"none", "array"}, items : Seq(Number)] \cup
             [form : {"text"}, items : Seq(Character)]

(* The logger names the protocol and no format but JSON, in any order and  *)
(* any number of times.  accum has the twelve bits that a byte can begin   *)
(* in, and a diagnostic frame has the classic checksum, as LIN wants it.   *)
ASSUME PathAssumption ==
    /\ Arguments \cup {LogArguments} \subseteq Seq(STRING)
    /\ Documents \subseteq [id : Number, data : DataField, ct : Number, checksum : Number]
    /\ Len(LogArguments) % 2 = 0
    /\ \A i \in DOMAIN LogArguments : i % 2 = 1 =>
          <<LogArguments[i], LogArguments[i + 1]>> \in {<<"--protocol", "LIN">>, <<"--format", "json">>}
    /\ \E i \in DOMAIN LogArguments : i % 2 = 1 /\ LogArguments[i] = "--protocol"
    /\ AccumSize \in Nat \ {0} /\ AccumSize % 4096 = 0
    /\ \A id \in Tool!DiagIds : TypeOf[id] = "classic"

PathInit == Init /\ Tool!ToolInit /\ meant = NotLogged

-----------------------------------------------------------------------------
(* The frame as the receiver has it. *)
Received ==
    LET id == bytes[1] % 64
    IN  [id |-> id, data |-> Tail(bytes), ct |-> TypeOf[id], checksum |-> checksum]

(* Base64 as RFC 4648 defines it, bit by bit: the data's bits, filled up   *)
(* with zeros, in groups of six.                                           *)
DataBit(data, i) ==
    IF i \div 8 < Len(data) THEN Bit(data[(i \div 8) + 1], Tool!Power(7 - (i % 8))) ELSE 0

SixBitsFrom(data, i) ==
    32 * DataBit(data, i) + 16 * DataBit(data, i + 1) + 8 * DataBit(data, i + 2)
    + 4 * DataBit(data, i + 3) + 2 * DataBit(data, i + 4) + DataBit(data, i + 5)

Base64Text(data) ==
    [j \in 1..4 * ((Len(data) + 2) \div 3) |->
        IF 6 * (j - 1) >= 8 * Len(data) THEN Tool!Pad ELSE SixBitsFrom(data, 6 * (j - 1))]

FrameJson(f, form) ==
    [id |-> f.id,
     data |-> [form |-> form, items |-> IF form = "text" THEN Base64Text(f.data) ELSE f.data],
     ct |-> IF f.ct = "enhanced" THEN 1 ELSE 0,
     checksum |-> f.checksum]

Log(form) ==
    /\ at = "accepted"
    /\ Tool!Invoke("convert", LogArguments, FrameJson(Received, form))
    /\ meant' = Received
    /\ UNCHANGED wireVars

(* Only convert reads standard input. *)
InvokeByHand ==
    /\ at = "idle" /\ tool = "idle"
    /\ \E c \in Commands, args \in Arguments :
          \E json \in IF c = "convert" THEN Documents ELSE {Tool!NoInput} :
             Tool!Invoke(c, args, json)
    /\ UNCHANGED <<wireVars, meant>>

(* The tool exits; a logged frame is done with. *)
EndOfTool ==
    /\ Tool!Return
    /\ meant' = NotLogged
    /\ IF at = "accepted" THEN Finish ELSE UNCHANGED wireVars

OnWire ==
    /\ tool = "idle"
    /\ \/ \E id \in Ids, data \in Payloads : Transmit(id, data)
       \/ SumByte \/ Put \/ Fault \/ CheckPid \/ CheckSum
       \/ at = "rejected" /\ Finish
    /\ UNCHANGED <<toolVars, meant>>

PathNext ==
    \/ OnWire
    \/ \E form \in {"text", "array"} : Log(form)
    \/ InvokeByHand
    \/ Tool!ToolStep /\ UNCHANGED <<wireVars, meant>>
    \/ EndOfTool

PathSpec == PathInit /\ [][PathNext]_vars

-----------------------------------------------------------------------------
(* Type invariant *)
PathTypeOK == TypeOK /\ Tool!ToolTypeOK /\ meant \in Tool!Frames

Exited == tool = "exited"

(* What a receiver accepted and a logger wrote down, convert prints as it  *)
(* is, in standard base64, unless it has more than the eight bytes of a    *)
(* LIN frame: then it prints nothing.  The bus sends such a frame          *)
(* (do_publish does not look at the size) and the wire carries it.         *)
MessageMatchesFrame ==
    Exited /\ meant # NotLogged =>
        /\ code = IF Len(meant.data) <= 8 THEN 0 ELSE 1
        /\ code = 0 => output = [id |-> meant.id, payload |-> Base64Text(meant.data),
                                 ct |-> meant.ct, checksum |-> meant.checksum]

(* The tool prints a message only when the protocol asked for last is LIN, *)
(* and its version or status only when all arguments are --format with a   *)
(* value and the last value is supported (REQ-CLI-004, REQ-CLI-005).       *)
ArgumentsDecide ==
    Exited /\ code = 0 =>
        /\ command = "convert" =>
              \E i \in 1..Len(argv) - 1 : argv[i] = "--protocol" /\ argv[i + 1] = "LIN"
        /\ command \in {"version", "status"} =>
              /\ \A i \in DOMAIN argv : i % 2 = 1 => argv[i] = "--format"
              /\ Len(argv) % 2 = 0
              /\ argv = << >> \/ argv[Len(argv)] \in {"json", "text"}

(* Whatever the arguments and the JSON: a printed message is one that      *)
(* from_message turns back into a valid frame, with the identifier of the  *)
(* JSON when that fits a byte and the bytes in front of the first bad one. *)
PrintedIsUsable ==
    /\ ArgumentsDecide
    /\ Exited /\ code = 0 /\ command = "convert" =>
          /\ Tool!ValidFrame(Tool!from_message(output))
          /\ input.id <= 255 => output.id = input.id
          /\ input.data.form = "array" =>
                 IsPrefix(Tool!from_message(output).data, input.data.items)

=============================================================================
