-------------------------------- MODULE Wire --------------------------------
(***************************************************************************)
(* A frame on the LIN wire (src/lin.cpp): the transmitter protects the     *)
(* identifier and adds a checksum, the wire may change bytes, the receiver *)
(* verifies both.  protect_id, verify_pid, calc_checksum and               *)
(* verify_checksum are the code; who puts the bytes on the wire and takes  *)
(* them off it is a driver that the repository does not have.              *)
(*                                                                         *)
(* calc_checksum is the same loop on both sides, one step per byte.  The   *)
(* uint16_t sum stays below 511 and never wraps.                           *)
(***************************************************************************)
EXTENDS Integers, Sequences, FiniteSets

CONSTANTS
    Ids,         \* identifiers in use
    Payloads,    \* responses: sequences of bytes, not empty
    TypeOf,      \* TypeOf[id] is the checksum type the identifier is used with
    FaultBytes,  \* what a byte may turn into on the wire
    MaxFaults    \* bound: bytes changed per frame

Byte == 0..255

ASSUME WireAssumption ==
    /\ Ids \subseteq 0..63
    /\ Payloads \subseteq Seq(Byte) \ {<< >>}
    /\ TypeOf \in [0..63 -> {"classic", "enhanced"}]
    /\ FaultBytes \subseteq Byte
    /\ MaxFaults \in Nat

VARIABLES
    at,        \* where the frame is
    bytes,     \* the protected identifier and the data, as this side has them
    checksum,  \* the checksum byte
    sum,       \* sum in calc_checksum
    next,      \* the position in bytes that its loop has reached
    sent,      \* history: [bytes, checksum] as they were put on the wire
    sums,      \* history: the transmitter's sum after each position
    faulty     \* history: the positions that were changed, 0 for the checksum

wireVars == <<at, bytes, checksum, sum, next, sent, sums, faulty>>

Nothing == [bytes |-> << >>, checksum |-> 0]

Init ==
    /\ at = "idle"
    /\ bytes = << >>
    /\ checksum = 0
    /\ sum = 0
    /\ next = 2
    /\ sent = Nothing
    /\ sums = << >>
    /\ faulty = {}

-----------------------------------------------------------------------------
(* The bit of n with weight w. *)
Bit(n, w) == (n \div w) % 2

(* Mutant: ID0 is left out of the parity. *)
P0ShortTap(id) == (Bit(id, 2) + Bit(id, 4) + Bit(id, 16)) % 2

P0(id) == (Bit(id, 1) + Bit(id, 2) + Bit(id, 4) + Bit(id, 16)) % 2

P1(id) == (1 + Bit(id, 2) + Bit(id, 8) + Bit(id, 16) + Bit(id, 32)) % 2

protect_id(id) == LET i == id % 64 IN i + 64 * P0(i) + 128 * P1(i)

(* verify_pid returns instead of throwing. *)
PidVerifies(pid) == protect_id(pid % 64) = pid

(* What sum starts with: the classic checksum leaves the identifier out. *)
Seed(pid) == IF TypeOf[pid % 64] = "enhanced" THEN pid ELSE 0

(* Mutant: the carry is dropped instead of carried around. *)
AddDropsCarry(s, b) == (s + b) % 256

(* Mutant: the carry is left where it is. *)
AddKeepsCarry(s, b) == s + b

(* Carry-around addition: above 0xFF the sum loses 0xFF, not 0x100. *)
Add(s, b) == IF s + b > 255 THEN s + b - 255 ELSE s + b

-----------------------------------------------------------------------------
(* Bus::send_header for a registered response: the identifier is protected *)
(* and calc_checksum begins.                                               *)
Transmit(id, data) ==
    /\ at = "idle"
    /\ at' = "summing"
    /\ bytes' = <<protect_id(id)>> \o data
    /\ sum' = Seed(protect_id(id))
    /\ next' = 2
    /\ sums' = <<Seed(protect_id(id))>>
    /\ UNCHANGED <<checksum, sent, faulty>>

(* One round of the loop in calc_checksum. *)
SumByte ==
    /\ at \in {"summing", "checking"}
    /\ next <= Len(bytes)
    /\ sum' = Add(sum, bytes[next])
    /\ next' = next + 1
    /\ sums' = IF at = "summing" THEN Append(sums, Add(sum, bytes[next])) ELSE sums
    /\ UNCHANGED <<at, bytes, checksum, sent, faulty>>

(* The transmitter's checksum is known and the frame goes out. *)
Put ==
    /\ at = "summing"
    /\ next > Len(bytes)
    /\ at' = "wire"
    /\ checksum' = 255 - sum
    /\ sent' = [bytes |-> bytes, checksum |-> 255 - sum]
    /\ UNCHANGED <<bytes, sum, next, sums, faulty>>

(* The wire changes byte p, each at most once. *)
Corrupt(p, b) ==
    /\ at = "wire"
    /\ Cardinality(faulty) < MaxFaults
    /\ p \notin faulty
    /\ faulty' = faulty \cup {p}
    /\ \/ /\ p = 0
          /\ checksum # b
          /\ checksum' = b /\ UNCHANGED bytes
       \/ /\ p \in DOMAIN bytes
          /\ bytes[p] # b
          /\ bytes' = [bytes EXCEPT ![p] = b] /\ UNCHANGED checksum
    /\ UNCHANGED <<at, sum, next, sent, sums>>

(* verify_pid, then verify_checksum begins with the type that the received *)
(* identifier is used with.                                                *)
CheckPid ==
    /\ at = "wire"
    /\ IF PidVerifies(bytes[1])
       THEN at' = "checking" /\ sum' = Seed(bytes[1]) /\ next' = 2
       ELSE at' = "rejected" /\ UNCHANGED <<sum, next>>
    /\ UNCHANGED <<bytes, checksum, sent, sums, faulty>>

CheckSum ==
    /\ at = "checking"
    /\ next > Len(bytes)
    /\ at' = IF 255 - sum = checksum THEN "accepted" ELSE "rejected"
    /\ UNCHANGED <<bytes, checksum, sum, next, sent, sums, faulty>>

(* The next frame finds the wire as the first one did. *)
Finish ==
    /\ at \in {"accepted", "rejected"}
    /\ at' = "idle"
    /\ bytes' = << >> /\ checksum' = 0 /\ sum' = 0 /\ next' = 2
    /\ sent' = Nothing /\ sums' = << >> /\ faulty' = {}

Weights == {1, 2, 4, 8, 16, 32, 64, 128}

(* b with the bit of weight w inverted. *)
Flip(b, w) == IF Bit(b, w) = 1 THEN b - w ELSE b + w

ByteAt(p) == IF p = 0 THEN checksum ELSE bytes[p]

Fault ==
    \E p \in 0..Len(bytes) :
        \E b \in FaultBytes \cup {Flip(ByteAt(p), w) : w \in Weights} : Corrupt(p, b)

WireNext ==
    \/ \E id \in Ids, data \in Payloads : Transmit(id, data)
    \/ SumByte \/ Put \/ Fault \/ CheckPid \/ CheckSum \/ Finish

WireSpec == Init /\ [][WireNext]_wireVars

-----------------------------------------------------------------------------
(* Type invariant.  The sum never leaves the range of a byte, so the final *)
(* cast to uint8_t loses nothing.                                          *)
TypeOK ==
    /\ at \in {"idle", "summing", "wire", "checking", "accepted", "rejected"}
    /\ bytes \in Seq(Byte)
    /\ at # "idle" => bytes # << >>
    /\ checksum \in Byte
    /\ sum \in Byte
    /\ next \in 2..Len(bytes) + 2
    /\ sent \in [bytes : Seq(Byte), checksum : Byte]
    /\ sums \in Seq(Byte)
    /\ faulty \subseteq 0..Len(bytes)
    /\ at \in {"idle", "summing"} => faulty = {}

(* a and b differ in exactly one bit. *)
OneBitApart(a, b) == \E w \in Weights : b = Flip(a, w)

(* What one changed byte can do (HARA.md, OI-01 and SG-03).  The checksum  *)
(* is a sum modulo 255, in which 0x00 and 0xFF are the same; and a classic *)
(* one does not cover the identifier, which then has its two parity bits   *)
(* only.  Everything else is detected: every single bit, every change of   *)
(* the checksum byte, every change of a data byte but that one, and every  *)
(* change of an identifier that the checksum covers.                       *)
SingleFaultDetected ==
    at = "accepted" => \A p \in 0..Len(bytes) : faulty = {p} =>
        /\ p # 0
        /\ ~OneBitApart(sent.bytes[p], bytes[p])
        /\ p > 1 => {sent.bytes[p], bytes[p]} = {0, 255}
        /\ p = 1 => /\ TypeOf[sent.bytes[1] % 64] = "classic"
                   /\ TypeOf[bytes[1] % 64] = "classic"

(* The checksum of LIN 2.x, from its definition: the sum of all bytes it   *)
(* covers with the carries added back in, which is the residue modulo 255  *)
(* that is not 0 unless all bytes are, inverted.                           *)
Residue(total) == IF total = 0 THEN 0 ELSE ((total - 1) % 255) + 1

(* What the seed and the bytes up to each position add up to. *)
Totals(seed, data) ==
    LET total[i \in 1..Len(data)] == (IF i = 1 THEN seed ELSE total[i - 1]) + data[i]
    IN  total

ReferenceChecksum(pid, data) ==
    255 - Residue(IF data = << >> THEN Seed(pid) ELSE Totals(Seed(pid), data)[Len(data)])

(* A frame on an undisturbed wire is accepted ... *)
NoFalseRejection == faulty = {} => at # "rejected"

(* ... and its checksum is the one of the standard. *)
IntactIsAccepted ==
    /\ NoFalseRejection
    /\ at \in {"wire", "checking", "accepted"} =>
          sent.checksum = ReferenceChecksum(sent.bytes[1], Tail(sent.bytes))

=============================================================================
