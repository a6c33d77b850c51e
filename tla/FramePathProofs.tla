--------------------------- MODULE FramePathProofs ---------------------------
(***************************************************************************)
(* What one faulty byte can do to a frame on the wire, for every frame:    *)
(* the proof that HARA.md lists as open issue OI-01.  The logger and the   *)
(* tool leave the wire alone, so it holds on the whole path.               *)
(*                                                                         *)
(* The receiver's sum is followed against the transmitter's at the same    *)
(* position.  In front of the changed byte they are equal; behind it they  *)
(* differ by what the byte was changed by, modulo 255 (Tracks).            *)
(***************************************************************************)
EXTENDS FramePath, TLAPS, WellFoundedInduction, SequenceTheorems

-----------------------------------------------------------------------------
(* Induction and recursion over the positions of a sequence.  The lemmas   *)
(* speak of a set and of a function, so that they can be cited.            *)

LEMMA UpTo ==
    ASSUME NEW n \in Nat, NEW S, 1 \in S,
           \A i \in 1..n - 1 : i \in S => i + 1 \in S
    PROVE  \A i \in 1..n : i \in S
<1> DEFINE T == {i \in Nat : 1 <= i /\ i <= n /\ i \notin S}
<1>1. SUFFICES ASSUME T # {} PROVE FALSE
  OBVIOUS
<1>2. T \subseteq Nat
  OBVIOUS
<1>3. PICK x \in T : \A y \in T : ~(<<y, x>> \in OpToRel(<, Nat))
  <2> HIDE DEF T
  <2> QED BY <1>1, <1>2, NatLessThanWellFounded, WFMin
<1>4. x \in Nat /\ 1 <= x /\ x <= n /\ x \notin S /\ x # 1
  OBVIOUS
<1>5. x - 1 \in Nat /\ 1 <= x - 1 /\ x - 1 <= n /\ x - 1 < x /\ x - 1 \in 1..n - 1
      /\ (x - 1) + 1 = x
  BY <1>4
<1>6. x - 1 \notin T
  <2> HIDE DEF T
  <2>1. <<x - 1, x>> \in OpToRel(<, Nat)
    BY <1>4, <1>5 DEF OpToRel
  <2> QED BY <2>1, <1>3
<1>7. x - 1 \in S
  BY <1>6, <1>5
<1> QED BY <1>4, <1>5, <1>7

(* One step per position, each from a value to a value of V ... *)
StepFunctions(n, V) == [1..n -> [V -> V]]

(* ... and what iterating them from base gives. *)
Iterates(f, F, base, n) ==
    \A i \in 1..n : f[i] = F[i][IF i = 1 THEN base ELSE f[i - 1]]

(* A function that is defined by recursion on the positions exists. *)
LEMMA Recursion ==
    ASSUME NEW n \in Nat, NEW V, NEW base \in V, NEW F \in StepFunctions(n, V)
    PROVE  \E f \in [1..n -> V] : Iterates(f, F, base, n)
<1> DEFINE S == {k \in 1..n : \E f \in [1..k -> V] : Iterates(f, F, base, k)}
<1> USE DEF Iterates, StepFunctions
<1>1. CASE n = 0
  <2>1. [i \in 1..n |-> base] \in [1..n -> V]
    OBVIOUS
  <2>2. 1..n = {}
    BY <1>1
  <2> QED BY <2>1, <2>2
<1>2. CASE n # 0
  <2>1. 1 \in S
    <3> DEFINE g == [i \in 1..1 |-> F[1][base]]
    <3>1. g \in [1..1 -> V] /\ g[1] = F[1][base] /\ 1 \in 1..n
      BY <1>2
    <3>2. Iterates(g, F, base, 1)
      <4> HIDE DEF g
      <4> QED BY <3>1
    <3> HIDE DEF g
    <3> QED BY <3>1, <3>2
  <2>2. ASSUME NEW k \in 1..n - 1, k \in S PROVE k + 1 \in S
    <3>1. PICK f \in [1..k -> V] : Iterates(f, F, base, k)
      BY <2>2
    <3> DEFINE g == [i \in 1..k + 1 |-> IF i = k + 1 THEN F[k + 1][f[k]] ELSE f[i]]
    <3>2. g \in [1..k + 1 -> V]
      OBVIOUS
    <3>3. ASSUME NEW i \in 1..k + 1 PROVE g[i] = F[i][IF i = 1 THEN base ELSE g[i - 1]]
      BY <3>1
    <3>4. Iterates(g, F, base, k + 1)
      <4> HIDE DEF g
      <4> QED BY <3>3
    <3> HIDE DEF g
    <3> QED BY <3>2, <3>4
  <2>3. n \in S
    <3> HIDE DEF S
    <3>1. \A i \in 1..n : i \in S
      BY <2>1, <2>2, UpTo
    <3> QED BY <1>2, <3>1
  <2> QED BY <2>3
<1> QED BY <1>1, <1>2

-----------------------------------------------------------------------------
(* Lemmas about the operators. *)

(* The protected identifier carries its identifier, verifies, and is       *)
(* neither 0x00 nor 0xFF.                                                  *)
LEMMA ProtectedId ==
    ASSUME NEW id \in 0..63
    PROVE  /\ protect_id(id) \in Byte
           /\ PidVerifies(protect_id(id))
BY SMTT(30) DEF protect_id, PidVerifies, P0, P1, Bit, Byte

LEMMA PidNotAmbiguous ==
    ASSUME NEW pid \in Byte, PidVerifies(pid)
    PROVE  pid # 0 /\ pid # 255
BY SMTT(30) DEF protect_id, PidVerifies, P0, P1, Bit, Byte

LEMMA FlipIsByte ==
    ASSUME NEW b \in Byte, NEW w \in Weights
    PROVE  Flip(b, w) \in Byte
BY SMTT(30) DEF Flip, Bit, Byte, Weights

(* The two parity bits detect every single bit, in the identifier or in    *)
(* the parity itself.                                                      *)
LEMMA ParityDetectsBit ==
    ASSUME NEW pid \in Byte, PidVerifies(pid), NEW w \in Weights
    PROVE  ~PidVerifies(Flip(pid, w))
<1> USE DEF protect_id, PidVerifies, P0, P1, Bit, Byte, Flip
<1>1. CASE w = 1  BY <1>1, SMTT(30)
<1>2. CASE w = 2  BY <1>2, SMTT(30)
<1>3. CASE w = 4  BY <1>3, SMTT(30)
<1>4. CASE w = 8  BY <1>4, SMTT(30)
<1>5. CASE w = 16  BY <1>5, SMTT(30)
<1>6. CASE w = 32  BY <1>6, SMTT(30)
<1>7. CASE w = 64  BY <1>7, SMTT(30)
<1>8. CASE w = 128  BY <1>8, SMTT(30)
<1> QED
  BY <1>1, <1>2, <1>3, <1>4, <1>5, <1>6, <1>7, <1>8 DEF Weights

LEMMA SeedIsByte ==
    ASSUME NEW pid \in Byte
    PROVE  Seed(pid) \in Byte /\ (Seed(pid) = 0 \/ Seed(pid) = pid)
BY DEF Seed, Byte

LEMMA AddIsByte ==
    ASSUME NEW s \in Byte, NEW b \in Byte
    PROVE  Add(s, b) \in Byte
BY DEF Add, Byte

(* a and b are equal modulo 255, for numbers that differ by at most 510. *)
Congruent(a, b) == a - b \in {-510, -255, 0, 255, 510}

Wraps(d) == d \in {-255, 0, 255}

(* Adding the same byte keeps a difference modulo 255 ... *)
LEMMA AddKeepsDifference ==
    ASSUME NEW s \in Byte, NEW t \in Byte, NEW b \in Byte, NEW d \in -255..255,
           Congruent(s, t + d)
    PROVE  Congruent(Add(s, b), Add(t, b) + d)
BY DEF Add, Congruent, Byte

(* ... and adding different bytes to the same sum makes one. *)
LEMMA AddMakesDifference ==
    ASSUME NEW s \in Byte, NEW b \in Byte, NEW c \in Byte
    PROVE  Congruent(Add(s, b), Add(s, c) + (b - c))
BY DEF Add, Congruent, Byte

LEMMA DifferenceRange ==
    ASSUME NEW a \in Byte, NEW b \in Byte
    PROVE  a - b \in -255..255 /\ Congruent(a, b + (a - b))
BY DEF Congruent, Byte

LEMMA SameSum ==
    ASSUME NEW s \in Byte, NEW d \in -255..255, Congruent(s, s + d)
    PROVE  Wraps(d)
BY DEF Congruent, Byte, Wraps

LEMMA Ambiguous ==
    ASSUME NEW a \in Byte, NEW b \in Byte, a # b, Wraps(a - b)
    PROVE  {b, a} = {0, 255}
BY DEF Byte, Wraps

LEMMA IdBits == ASSUME NEW b \in Byte PROVE b % 64 \in 0..63
BY DEF Byte

(* Two verified identifiers that seed the same sum modulo 255 and differ   *)
(* are both left out of it.                                                *)
LEMMA SeedsAlike ==
    ASSUME NEW a \in Byte, NEW b \in Byte, a # b, a # 0, a # 255, b # 0, b # 255,
           NEW s, NEW t, s = 0 \/ s = a, t = 0 \/ t = b, Wraps(s - t)
    PROVE  s # a /\ t # b
BY DEF Byte, Wraps

LEMMA Inverted ==
    ASSUME NEW s \in Byte, NEW t \in Byte, 255 - s = 255 - t
    PROVE  s = t
BY DEF Byte

-----------------------------------------------------------------------------
(* Types *)

LEMMA InitTypeOK == ASSUME Init PROVE TypeOK
BY DEF Init, TypeOK, Nothing, Byte

LEMMA ByteAtIsByte ==
    ASSUME TypeOK, NEW p \in 0..Len(bytes)
    PROVE  ByteAt(p) \in Byte
BY DEF TypeOK, ByteAt

LEMMA TransmitTypeOK ==
    ASSUME TypeOK, NEW id \in Ids, NEW data \in Payloads, Transmit(id, data)
    PROVE  TypeOK'
<1> USE WireAssumption
<1>1. protect_id(id) \in Byte  BY ProtectedId
<1>2. data \in Seq(Byte)  OBVIOUS
<1>3. Seed(protect_id(id)) \in Byte  BY <1>1, SeedIsByte
<1>4. bytes' \in Seq(Byte) /\ Len(bytes') = 1 + Len(data)  BY <1>1, <1>2 DEF Transmit
<1>5. sums' \in Seq(Byte)  BY <1>3 DEF Transmit
<1>6. faulty' = {}  BY DEF Transmit, TypeOK
<1> QED  BY <1>2, <1>3, <1>4, <1>5, <1>6 DEF Transmit, TypeOK

LEMMA SumByteTypeOK == ASSUME TypeOK, SumByte PROVE TypeOK'
<1>1. bytes[next] \in Byte  BY DEF SumByte, TypeOK
<1>2. Add(sum, bytes[next]) \in Byte  BY <1>1, AddIsByte DEF TypeOK
<1>3. sums' \in Seq(Byte)  BY <1>2 DEF SumByte, TypeOK
<1> QED  BY <1>2, <1>3 DEF SumByte, TypeOK

LEMMA CorruptTypeOK ==
    ASSUME TypeOK, NEW p \in 0..Len(bytes), NEW b \in Byte, Corrupt(p, b)
    PROVE  TypeOK'
<1>1. bytes' \in Seq(Byte) /\ Len(bytes') = Len(bytes)  BY DEF Corrupt, TypeOK
<1>2. checksum' \in Byte  BY DEF Corrupt, TypeOK
<1>3. faulty' \subseteq 0..Len(bytes)  BY DEF Corrupt, TypeOK
<1> QED  BY <1>1, <1>2, <1>3 DEF Corrupt, TypeOK

LEMMA FaultIsCorrupt ==
    ASSUME TypeOK, Fault
    PROVE  \E p \in 0..Len(bytes), b \in Byte : Corrupt(p, b)
<1>1. PICK p \in 0..Len(bytes) :
          \E b \in FaultBytes \cup {Flip(ByteAt(p), w) : w \in Weights} : Corrupt(p, b)
  BY DEF Fault
<1>2. FaultBytes \cup {Flip(ByteAt(p), w) : w \in Weights} \subseteq Byte
  BY WireAssumption, FlipIsByte, ByteAtIsByte
<1> QED  BY <1>1, <1>2

LEMMA NextTypeOK == ASSUME TypeOK, [WireNext]_wireVars PROVE TypeOK'
<1>1. ASSUME NEW id \in Ids, NEW data \in Payloads, Transmit(id, data) PROVE TypeOK'
  BY <1>1, TransmitTypeOK
<1>2. CASE SumByte  BY <1>2, SumByteTypeOK
<1>3. CASE Put
  <2>1. 255 - sum \in Byte  BY DEF TypeOK, Byte
  <2> QED  BY <1>3, <2>1 DEF Put, TypeOK
<1>4. CASE Fault  BY <1>4, FaultIsCorrupt, CorruptTypeOK
<1>5. CASE CheckPid
  <2>1. CASE PidVerifies(bytes[1])
    <3>1. bytes[1] \in Byte  BY <1>5 DEF CheckPid, TypeOK
    <3>2. Seed(bytes[1]) \in Byte  BY <3>1, SeedIsByte
    <3> QED  BY <1>5, <2>1, <3>2 DEF CheckPid, TypeOK
  <2>2. CASE ~PidVerifies(bytes[1])  BY <1>5, <2>2 DEF CheckPid, TypeOK
  <2> QED  BY <2>1, <2>2
<1>6. CASE CheckSum  BY <1>6 DEF CheckSum, TypeOK
<1>7. CASE Finish  BY <1>7 DEF Finish, TypeOK, Nothing, Byte
<1>8. CASE UNCHANGED wireVars  BY <1>8 DEF wireVars, TypeOK
<1> QED
  BY <1>1, <1>2, <1>3, <1>4, <1>5, <1>6, <1>7, <1>8 DEF WireNext

(* Every state of the wire is well-typed: the sum stays a byte. *)
THEOREM TypeCorrect == WireSpec => []TypeOK
<1>1. Init => TypeOK  BY InitTypeOK
<1>2. TypeOK /\ [WireNext]_wireVars => TypeOK'  BY NextTypeOK
<1> QED  BY <1>1, <1>2, PTL DEF WireSpec

-----------------------------------------------------------------------------
(* The invariant *)

(* sums holds the sums of the loop over b up to position n. *)
Running(b, n) ==
    /\ Len(sums) = n
    /\ sums[1] = Seed(b[1])
    /\ \A k \in 2..n : sums[k] = Add(sums[k - 1], b[k])

SummingInv ==
    at = "summing" =>
        /\ PidVerifies(bytes[1])
        /\ next - 1 <= Len(bytes)
        /\ Running(bytes, next - 1)
        /\ sum = sums[next - 1]

SentInv ==
    at \in {"wire", "checking", "accepted"} =>
        /\ Len(sent.bytes) = Len(bytes)
        /\ PidVerifies(sent.bytes[1])
        /\ Running(sent.bytes, Len(bytes))
        /\ sent.checksum = 255 - sums[Len(bytes)]
        /\ \A p \in 1..Len(bytes) : p \in faulty <=> bytes[p] # sent.bytes[p]
        /\ 0 \in faulty <=> checksum # sent.checksum

(* What the sum is off by once the changed byte p is in it. *)
Delta(p) ==
    IF p = 1 THEN Seed(bytes[1]) - Seed(sent.bytes[1]) ELSE bytes[p] - sent.bytes[p]

(* The receiver's sum at position n against the transmitter's. *)
Tracks(n) ==
    /\ faulty = {} => sum = sums[n]
    /\ \A p \in 0..Len(bytes) : faulty = {p} =>
          IF p = 0 \/ p > n THEN sum = sums[n] ELSE Congruent(sum, sums[n] + Delta(p))

CheckingInv ==
    at \in {"checking", "accepted"} =>
        /\ PidVerifies(bytes[1])
        /\ next - 1 <= Len(bytes)
        /\ Tracks(next - 1)

AcceptedInv ==
    at = "accepted" => next - 1 = Len(bytes) /\ 255 - sum = checksum

IInv == TypeOK /\ SummingInv /\ SentInv /\ CheckingInv /\ AcceptedInv /\ NoFalseRejection

LEMMA InitIInv == ASSUME Init PROVE IInv
BY InitTypeOK DEF Init, IInv, SummingInv, SentInv, CheckingInv, AcceptedInv, NoFalseRejection

LEMMA TransmitIInv ==
    ASSUME IInv, NEW id \in Ids, NEW data \in Payloads, Transmit(id, data)
    PROVE  IInv'
<1> USE WireAssumption
<1>1. TypeOK'  BY TransmitTypeOK DEF IInv
<1>2. bytes'[1] = protect_id(id) /\ PidVerifies(protect_id(id))  
  <2>1. data \in Seq(Byte) /\ id \in 0..63  OBVIOUS
  <2>2. protect_id(id) \in Byte /\ PidVerifies(protect_id(id))  BY <2>1, ProtectedId
  <2> QED  BY <2>1, <2>2 DEF Transmit
<1>3. SummingInv'  BY <1>1, <1>2 DEF SummingInv, Running, Transmit, TypeOK
<1> QED
  BY <1>1, <1>3 DEF IInv, Transmit, SentInv, CheckingInv, AcceptedInv, NoFalseRejection

LEMMA PutIInv == ASSUME IInv, Put PROVE IInv'
<1>1. TypeOK'  BY NextTypeOK DEF IInv, WireNext
<1>2. next - 1 = Len(bytes)  BY DEF IInv, TypeOK, SummingInv, Put
<1>3. SentInv'
  BY <1>2 DEF IInv, TypeOK, SummingInv, SentInv, Running, Put
<1> QED
  BY <1>1, <1>3 DEF IInv, Put, SummingInv, CheckingInv, AcceptedInv, NoFalseRejection

LEMMA CorruptIInv ==
    ASSUME IInv, NEW p \in 0..Len(bytes), NEW b \in Byte, Corrupt(p, b)
    PROVE  IInv'
<1>1. TypeOK'  BY CorruptTypeOK DEF IInv
<1>2. SentInv'
  <2>1. Len(bytes') = Len(bytes)  BY DEF Corrupt, IInv, TypeOK
  <2>2. CASE p = 0  BY <2>1, <2>2 DEF Corrupt, IInv, TypeOK, SentInv, Running
  <2>3. CASE p \in DOMAIN bytes
    BY <2>1, <2>3 DEF Corrupt, IInv, TypeOK, SentInv, Running
  <2> QED  BY <2>2, <2>3 DEF Corrupt
<1> QED
  BY <1>1, <1>2 DEF IInv, Corrupt, SummingInv, CheckingInv, AcceptedInv, NoFalseRejection

LEMMA CheckPidIInv == ASSUME IInv, CheckPid PROVE IInv'
<1>1. TypeOK'  BY NextTypeOK DEF IInv, WireNext
<1>2. CASE PidVerifies(bytes[1])
  <2>1. bytes[1] \in Byte /\ sent.bytes[1] \in Byte
    BY DEF IInv, TypeOK, SentInv, CheckPid
  <2>2. sum' = Seed(bytes[1]) /\ next' = 2 /\ UNCHANGED <<bytes, sent, sums, faulty>>
    BY <1>2 DEF CheckPid
  <2>3. sums[1] = Seed(sent.bytes[1]) /\ 1 \in 1..Len(bytes)
    BY DEF IInv, TypeOK, SentInv, Running, CheckPid
  <2>4. 1 \notin faulty => bytes[1] = sent.bytes[1]
    BY <2>3 DEF IInv, SentInv, CheckPid
  <2>5. Seed(bytes[1]) \in Byte /\ Seed(sent.bytes[1]) \in Byte  BY <2>1, SeedIsByte
  <2>6. Congruent(Seed(bytes[1]), Seed(sent.bytes[1]) + (Seed(bytes[1]) - Seed(sent.bytes[1])))
    BY <2>5, DifferenceRange
  <2>7. Tracks(1)'  BY <2>2, <2>3, <2>4, <2>6 DEF Tracks, Delta
  <2>8. CheckingInv'  BY <1>2, <2>2, <2>3, <2>7 DEF CheckingInv
  <2> QED
    BY <1>1, <1>2, <2>8 DEF IInv, CheckPid, SummingInv, SentInv, Running, AcceptedInv,
                            NoFalseRejection
<1>3. CASE ~PidVerifies(bytes[1])
  <2>1. faulty # {}  BY <1>3 DEF IInv, TypeOK, SentInv, CheckPid
  <2> QED
    BY <1>1, <1>3, <2>1 DEF IInv, CheckPid, SummingInv, SentInv, CheckingInv, AcceptedInv,
                            NoFalseRejection
<1> QED  BY <1>2, <1>3

(* The receiver's round of the loop: in front of, at and behind the        *)
(* changed byte.                                                           *)
LEMMA SumByteTracks ==
    ASSUME IInv, SumByte, at = "checking"
    PROVE  Tracks(next - 1)'
<1> DEFINE n == next - 1
           b == bytes[next]
           c == sent.bytes[next]
<1>1. /\ n \in 1..Len(bytes) /\ next = n + 1 /\ next \in 2..Len(bytes)
      /\ sum \in Byte /\ b \in Byte /\ c \in Byte
  BY DEF IInv, TypeOK, SentInv, SumByte
<1>2. sums[n] \in Byte /\ sums[next] = Add(sums[n], c)
  BY <1>1 DEF IInv, TypeOK, SentInv, Running
<1>3. sum' = Add(sum, b) /\ next' = next + 1 /\ UNCHANGED <<at, bytes, sent, sums, faulty>>
  BY DEF SumByte
<1>4. Tracks(n)  BY DEF IInv, CheckingInv
<1>5. next \notin faulty => b = c  BY <1>1 DEF IInv, SentInv
<1>6. faulty = {} => sum' = sums[next]  BY <1>2, <1>3, <1>4, <1>5 DEF Tracks
<1>7. ASSUME NEW p \in 0..Len(bytes), faulty = {p}
      PROVE  IF p = 0 \/ p > next THEN sum' = sums[next]
             ELSE Congruent(sum', sums[next] + Delta(p))
  <2>1. CASE p = 0 \/ p > next
    BY <1>1, <1>2, <1>3, <1>4, <1>5, <1>7, <2>1 DEF Tracks
  <2>2. CASE p = next
    <3>1. sum = sums[n]  BY <1>1, <1>4, <1>7, <2>2 DEF Tracks
    <3>2. Delta(p) = b - c  BY <1>1, <2>2 DEF Delta
    <3> QED  BY <1>1, <1>2, <1>3, <2>2, <3>1, <3>2, AddMakesDifference
  <2>3. CASE p \in 1..n
    <3>1. b = c  BY <1>1, <1>5, <1>7, <2>3
    <3>2. Congruent(sum, sums[n] + Delta(p))  BY <1>1, <1>4, <1>7, <2>3 DEF Tracks
    <3>3. Delta(p) \in -255..255
      <4>1. bytes[p] \in Byte /\ sent.bytes[p] \in Byte
        BY <2>3, <1>1 DEF IInv, TypeOK, SentInv, SumByte
      <4>2. Seed(bytes[p]) \in Byte /\ Seed(sent.bytes[p]) \in Byte  BY <4>1, SeedIsByte
      <4> QED  BY <4>1, <4>2, DifferenceRange DEF Delta
    <3>4. Congruent(Add(sum, b), Add(sums[n], b) + Delta(p))
      BY <1>1, <1>2, <3>2, <3>3, AddKeepsDifference
    <3> QED  BY <1>1, <1>2, <1>3, <2>3, <3>1, <3>4
  <2> QED  BY <1>1, <2>1, <2>2, <2>3
<1>8. next' - 1 = next  BY <1>1, <1>3
<1> QED  BY <1>3, <1>6, <1>7, <1>8 DEF Tracks, Delta

LEMMA SumByteIInv == ASSUME IInv, SumByte PROVE IInv'
<1>1. TypeOK'  BY NextTypeOK DEF IInv, WireNext
<1>2. CASE at = "summing"
  <2>1. SummingInv'  BY <1>2 DEF IInv, TypeOK, SummingInv, Running, SumByte
  <2> QED
    BY <1>1, <1>2, <2>1 DEF IInv, SumByte, SentInv, CheckingInv, AcceptedInv, NoFalseRejection
<1>3. CASE at = "checking"
  <2>1. next' - 1 = next  BY DEF SumByte, IInv, TypeOK
  <2>2. CheckingInv'  BY <1>3, <2>1, SumByteTracks DEF IInv, CheckingInv, SumByte
  <2>3. SentInv'  BY <1>3 DEF IInv, SentInv, Running, SumByte
  <2> QED  BY <1>1, <1>3, <2>2, <2>3 DEF IInv, SumByte, SummingInv, AcceptedInv, NoFalseRejection
<1> QED  BY <1>2, <1>3 DEF SumByte

LEMMA CheckSumIInv == ASSUME IInv, CheckSum PROVE IInv'
<1>1. TypeOK'  BY NextTypeOK DEF IInv, WireNext
<1>2. next - 1 = Len(bytes)  BY DEF IInv, TypeOK, CheckingInv, CheckSum
<1>3. faulty = {} => 255 - sum = checksum
  BY <1>2 DEF IInv, CheckingInv, SentInv, Tracks, CheckSum
<1>4. SentInv'  BY DEF IInv, SentInv, Running, CheckSum
<1>5. CheckingInv'  BY DEF IInv, CheckingInv, Tracks, Delta, CheckSum
<1> QED
  BY <1>1, <1>2, <1>3, <1>4, <1>5 DEF IInv, SummingInv, AcceptedInv, NoFalseRejection, CheckSum

LEMMA NextIInv == ASSUME IInv, [WireNext]_wireVars PROVE IInv'
<1>1. ASSUME NEW id \in Ids, NEW data \in Payloads, Transmit(id, data) PROVE IInv'
  BY <1>1, TransmitIInv
<1>2. CASE SumByte  BY <1>2, SumByteIInv
<1>3. CASE Put  BY <1>3, PutIInv
<1>4. CASE Fault  BY <1>4, FaultIsCorrupt, CorruptIInv DEF IInv
<1>5. CASE CheckPid  BY <1>5, CheckPidIInv
<1>6. CASE CheckSum  BY <1>6, CheckSumIInv
<1>7. CASE Finish
  <2>1. TypeOK'  BY <1>7, NextTypeOK DEF IInv, WireNext
  <2> QED
    BY <1>7, <2>1 DEF Finish, IInv, SummingInv, SentInv, CheckingInv, AcceptedInv, NoFalseRejection
<1>8. CASE UNCHANGED wireVars
  BY <1>8 DEF wireVars, IInv, TypeOK, SummingInv, SentInv, Running, CheckingInv, Tracks, Delta,
              AcceptedInv, NoFalseRejection
<1> QED
  BY <1>1, <1>2, <1>3, <1>4, <1>5, <1>6, <1>7, <1>8 DEF WireNext

-----------------------------------------------------------------------------
(* What the invariant says of an accepted frame with one changed byte. *)
LEMMA AcceptedMeans == ASSUME IInv PROVE SingleFaultDetected
<1> SUFFICES ASSUME at = "accepted", NEW p \in 0..Len(bytes), faulty = {p}
             PROVE  /\ p # 0
                    /\ ~OneBitApart(sent.bytes[p], bytes[p])
                    /\ p > 1 => {sent.bytes[p], bytes[p]} = {0, 255}
                    /\ p = 1 => /\ TypeOf[sent.bytes[1] % 64] = "classic"
                                /\ TypeOf[bytes[1] % 64] = "classic"
  BY DEF SingleFaultDetected
<1> DEFINE n == Len(bytes)
<1>1. n \in Nat \ {0} /\ sums[n] \in Byte /\ sum \in Byte /\ checksum \in Byte
  BY DEF IInv, TypeOK, SentInv, Running
<1>2. /\ sent.checksum = 255 - sums[n] /\ checksum = 255 - sum
      /\ 0 \in faulty <=> checksum # sent.checksum
  BY <1>1 DEF IInv, SentInv, AcceptedInv, Byte
<1>3. IF p = 0 THEN sum = sums[n] ELSE Congruent(sum, sums[n] + Delta(p))
  BY <1>1 DEF IInv, TypeOK, CheckingInv, AcceptedInv, Tracks
<1>4. p # 0  BY <1>2, <1>3
<1>5. bytes[p] \in Byte /\ sent.bytes[p] \in Byte /\ bytes[p] # sent.bytes[p]
  BY <1>1, <1>4 DEF IInv, TypeOK, SentInv
<1>6. sum = sums[n]  BY <1>1, <1>2, <1>4, Inverted
<1>7. Wraps(Delta(p))
  <2>1. Seed(bytes[p]) \in Byte /\ Seed(sent.bytes[p]) \in Byte  BY <1>5, SeedIsByte
  <2>2. Delta(p) \in -255..255  BY <1>5, <2>1, DifferenceRange DEF Delta
  <2>3. Congruent(sum, sum + Delta(p))  BY <1>3, <1>4, <1>6
  <2> QED  BY <1>1, <2>2, <2>3, SameSum
<1>8. CASE p > 1
  <2>1. {sent.bytes[p], bytes[p]} = {0, 255}  
    <3>1. Wraps(bytes[p] - sent.bytes[p])  BY <1>7, <1>8 DEF Delta
    <3> QED  BY <1>5, <3>1, Ambiguous
  <2>2. ASSUME NEW w \in Weights, bytes[p] = Flip(sent.bytes[p], w) PROVE FALSE
    <3>1. CASE sent.bytes[p] = 0 /\ bytes[p] = 255
      BY <2>2, <3>1 DEF Flip, Bit, Weights
    <3>2. CASE sent.bytes[p] = 255 /\ bytes[p] = 0
      BY <2>2, <3>2 DEF Flip, Bit, Weights
    <3> QED  BY <1>5, <2>1, <3>1, <3>2
  <2> QED  BY <1>8, <2>1, <2>2 DEF OneBitApart
<1>9. CASE p = 1
  <2>1. PidVerifies(bytes[1]) /\ PidVerifies(sent.bytes[1])
    BY DEF IInv, CheckingInv, SentInv
  <2>2. ~OneBitApart(sent.bytes[1], bytes[1])
    BY <1>5, <1>9, <2>1, ParityDetectsBit DEF OneBitApart
  <2>3. bytes[1] # 0 /\ bytes[1] # 255 /\ sent.bytes[1] # 0 /\ sent.bytes[1] # 255
    BY <1>5, <1>9, <2>1, PidNotAmbiguous
  <2>4. Wraps(Seed(bytes[1]) - Seed(sent.bytes[1]))  BY <1>7, <1>9 DEF Delta
  <2>5. Seed(bytes[1]) # bytes[1] /\ Seed(sent.bytes[1]) # sent.bytes[1]
    <3>1. bytes[1] \in Byte /\ sent.bytes[1] \in Byte /\ bytes[1] # sent.bytes[1]
      BY <1>5, <1>9
    <3>2. /\ Seed(bytes[1]) = 0 \/ Seed(bytes[1]) = bytes[1]
          /\ Seed(sent.bytes[1]) = 0 \/ Seed(sent.bytes[1]) = sent.bytes[1]
      BY <3>1, SeedIsByte
    <3> QED  BY <2>3, <2>4, <3>1, <3>2, SeedsAlike
  <2>6. bytes[1] % 64 \in 0..63 /\ sent.bytes[1] % 64 \in 0..63  BY <1>5, <1>9, IdBits
  <2>7. /\ TypeOf[bytes[1] % 64] = "classic"
        /\ TypeOf[sent.bytes[1] % 64] = "classic"
    BY <2>5, <2>6, WireAssumption DEF Seed
  <2> QED  BY <1>4, <1>9, <2>2, <2>7
<1>10. p = 1 \/ p > 1  BY <1>1, <1>4
<1> QED  BY <1>4, <1>8, <1>9, <1>10

LEMMA Invariance == WireSpec => []IInv
<1>1. Init => IInv  BY InitIInv
<1>2. IInv /\ [WireNext]_wireVars => IInv'  BY NextIInv
<1> QED  BY <1>1, <1>2, PTL DEF WireSpec

(* One changed byte is detected, but for 0x00 against 0xFF in the data and *)
(* for an identifier that a classic checksum does not cover; one changed   *)
(* bit is always detected.  For every identifier, payload and checksum     *)
(* type.                                                                   *)
THEOREM SingleFaults == WireSpec => []SingleFaultDetected
<1>1. IInv => SingleFaultDetected  BY AcceptedMeans
<1> QED  BY <1>1, Invariance, PTL

(* An undisturbed frame is never rejected. *)
THEOREM NoFalseAlarms == WireSpec => []NoFalseRejection
<1>1. IInv => NoFalseRejection  BY DEF IInv
<1> QED  BY <1>1, Invariance, PTL

-----------------------------------------------------------------------------
(* The checksum of the standard *)

(* t[i] is what seed and the first i elements of data add up to. *)
Accumulates(t, seed, data) ==
    \A i \in 1..Len(data) : t[i] \in Nat /\ t[i] = (IF i = 1 THEN seed ELSE t[i - 1]) + data[i]

LEMMA TotalsStep ==
    ASSUME NEW seed \in Nat, NEW data \in Seq(Nat)
    PROVE  Accumulates(Totals(seed, data), seed, data)
<1> DEFINE n == Len(data)
           F == [i \in 1..n |-> [v \in Nat |-> v + data[i]]]
<1>1. n \in Nat /\ F \in StepFunctions(n, Nat)
  BY DEF StepFunctions
<1>2. PICK f \in [1..n -> Nat] : Iterates(f, F, seed, n)
  <2> HIDE DEF F, n
  <2> QED BY <1>1, Recursion
<1>3. ASSUME NEW i \in 1..n
      PROVE  f[i] = (IF i = 1 THEN seed ELSE f[i - 1]) + data[i]
  <2> DEFINE u == IF i = 1 THEN seed ELSE f[i - 1]
  <2>1. u \in Nat
    <3>1. i = 1 \/ i - 1 \in 1..n
      BY <1>1
    <3>2. \A j \in 1..n : f[j] \in Nat
      OBVIOUS
    <3> QED BY <3>1, <3>2
  <2>2. f[i] = F[i][u]
    BY <1>2 DEF Iterates
  <2> HIDE DEF u
  <2>3. f[i] = u + data[i]
    BY <2>1, <2>2
  <2> QED BY <2>3 DEF u
<1>4. f = [i \in 1..n |-> (IF i = 1 THEN seed ELSE f[i - 1]) + data[i]]
  BY <1>3
<1> DEFINE t == Totals(seed, data)
<1>5. t = [i \in 1..n |-> (IF i = 1 THEN seed ELSE t[i - 1]) + data[i]]
  BY <1>4 DEF Totals
<1> HIDE DEF t
<1>6. \A i \in 1..n : t[i] = (IF i = 1 THEN seed ELSE t[i - 1]) + data[i]
  BY <1>5
<1>7. \A i \in 1..n : t[i] \in Nat
  <2> DEFINE S == {i \in Nat : t[i] \in Nat}
  <2>1. CASE n = 0
    BY <2>1
  <2>2. CASE n # 0
    <3>1. 1 \in S
      BY <1>6, <2>2
    <3>2. \A i \in 1..n - 1 : i \in S => i + 1 \in S
      BY <1>6
    <3> HIDE DEF S
    <3>3. \A i \in 1..n : i \in S
      BY <1>1, <3>1, <3>2, UpTo
    <3> QED BY <3>3 DEF S
  <2> QED BY <2>1, <2>2
<1> QED BY <1>6, <1>7 DEF t, Accumulates

LEMMA BytesAreNumbers == ASSUME NEW d \in Seq(Byte) PROVE d \in Seq(Nat)
<1>1. \A b \in Byte : b \in Nat
  BY DEF Byte
<1>2. \A i \in 1..Len(d) : d[i] \in Byte
  OBVIOUS
<1> QED BY <1>1, <1>2

LEMMA ResidueOfByte == ASSUME NEW b \in Byte PROVE Residue(b) = b
BY SMTT(30) DEF Residue, Byte

(* Carry-around addition is addition modulo 255. *)
LEMMA AddResidue ==
    ASSUME NEW t \in Nat, NEW b \in Byte
    PROVE  Add(Residue(t), b) = Residue(t + b)
BY SMTT(30) DEF Residue, Byte, Add

(* The sums of the loop are the residues of the totals, so the checksum is *)
(* the one of the standard.                                                *)
LEMMA ChecksumIsReference ==
    ASSUME TypeOK, SentInv, at \in {"wire", "checking", "accepted"}
    PROVE  sent.checksum = ReferenceChecksum(sent.bytes[1], Tail(sent.bytes))
<1>1. PICK b : b = sent.bytes
  OBVIOUS
<1>2. PICK n : n = Len(b)
  OBVIOUS
<1>3. /\ b \in Seq(Byte) /\ n \in Nat \ {0} /\ Running(b, n) /\ sent.checksum = 255 - sums[n]
  <2>1. Len(bytes) \in Nat \ {0} /\ sent.bytes \in Seq(Byte)
    BY DEF TypeOK
  <2>2. n = Len(bytes)
    BY <1>1, <1>2 DEF SentInv
  <2>3. Running(b, n) /\ sent.checksum = 255 - sums[n]
    <3>1. Running(sent.bytes, Len(bytes)) /\ sent.checksum = 255 - sums[Len(bytes)]
      BY DEF SentInv
    <3> QED BY <1>1, <2>2, <3>1
  <2> QED BY <1>1, <2>1, <2>2, <2>3
<1>4. PICK d : d = Tail(b)
  OBVIOUS
<1>5. /\ d \in Seq(Byte) /\ Len(d) = n - 1
      /\ \A i \in 1..n - 1 : d[i] = b[i + 1] /\ b[i + 1] \in Byte
  <2>1. b # << >>
    BY <1>2, <1>3
  <2>2. \A i \in 1..n : b[i] \in Byte
    BY <1>2, <1>3
  <2>3. \A i \in 1..n - 1 : i + 1 \in 1..n
    BY <1>3
  <2> QED BY <1>2, <1>3, <1>4, <2>1, <2>2, <2>3, HeadTailProperties
<1>6. PICK seed : seed = Seed(b[1])
  OBVIOUS
<1>7. seed \in Byte /\ seed \in Nat
  <2>1. b[1] \in Byte
    BY <1>2, <1>3
  <2>2. seed \in Byte
    BY <1>6, <2>1, SeedIsByte
  <2> QED BY <2>2 DEF Byte
<1>8. PICK t : t = Totals(seed, d)
  OBVIOUS
<1>9. \A i \in 1..n - 1 : t[i] \in Nat /\ t[i] = (IF i = 1 THEN seed ELSE t[i - 1]) + d[i]
  <2>1. d \in Seq(Nat)
    BY <1>5, BytesAreNumbers
  <2>2. Accumulates(t, seed, d)
    BY <1>7, <1>8, <2>1, TotalsStep
  <2> QED BY <1>5, <2>2 DEF Accumulates
<1> DEFINE upto(k) == IF k = 1 THEN seed ELSE t[k - 1]
<1>10. \A k \in 1..n : sums[k] = Residue(upto(k))
  <2> DEFINE S == {k \in Nat : sums[k] = Residue(upto(k))}
  <2>1. 1 \in S
    BY <1>3, <1>6, <1>7, ResidueOfByte DEF Running
  <2>2. ASSUME NEW k \in 1..n - 1, k \in S PROVE k + 1 \in S
    <3>1. /\ k \in Nat /\ k + 1 \in 2..n /\ k + 1 # 1 /\ (k + 1) - 1 = k
          /\ k # 1 => k - 1 \in 1..n - 1
      BY <1>3
    <3>2. sums[k + 1] = Add(sums[k], d[k])
      BY <1>3, <1>5, <3>1 DEF Running
    <3>3. upto(k) \in Nat /\ upto(k + 1) = upto(k) + d[k] /\ d[k] \in Byte
      BY <1>5, <1>7, <1>9, <3>1
    <3> HIDE DEF upto
    <3>4. sums[k] = Residue(upto(k))
      BY <2>2
    <3> QED BY <3>1, <3>2, <3>3, <3>4, AddResidue
  <2> HIDE DEF S
  <2>3. \A k \in 1..n : k \in S
    BY <1>3, <2>1, <2>2, UpTo
  <2> QED BY <2>3 DEF S
<1>11. sums[n] = Residue(upto(n))
  BY <1>3, <1>10
<1>12. d = << >> <=> n = 1
  BY <1>3, <1>5, EmptySeq
<1> QED BY <1>1, <1>3, <1>4, <1>5, <1>6, <1>8, <1>11, <1>12 DEF ReferenceChecksum

(* A frame that the wire leaves alone is accepted; for every identifier,   *)
(* checksum type, length and payload its checksum is the one of the        *)
(* standard.                                                               *)
THEOREM ChecksumOfTheStandard == WireSpec => []IntactIsAccepted
<1>1. IInv => IntactIsAccepted
  BY ChecksumIsReference DEF IInv, IntactIsAccepted
<1> QED  BY <1>1, Invariance, PTL

-----------------------------------------------------------------------------
(* The whole path                                                          *)

LEMMA StepOnWire == ASSUME PathNext PROVE [WireNext]_wireVars
<1>1. CASE OnWire  BY <1>1 DEF OnWire, WireNext
<1>2. ASSUME NEW form \in {"text", "array"}, Log(form) PROVE UNCHANGED wireVars
  BY <1>2 DEF Log
<1>3. CASE InvokeByHand  BY <1>3 DEF InvokeByHand
<1>4. CASE Tool!ToolStep /\ UNCHANGED <<wireVars, meant>>  BY <1>4
<1>5. CASE EndOfTool  BY <1>5 DEF EndOfTool, WireNext
<1> QED  BY <1>1, <1>2, <1>3, <1>4, <1>5 DEF PathNext

(* The path is an implementation of the wire. *)
THEOREM PathImplementsWire == PathSpec => WireSpec
<1>1. PathInit => Init  BY DEF PathInit
<1>2. [PathNext]_vars => [WireNext]_wireVars
  <2>1. CASE PathNext  BY <2>1, StepOnWire
  <2>2. CASE UNCHANGED vars  BY <2>2 DEF vars
  <2> QED  BY <2>1, <2>2
<1> QED  BY <1>1, <1>2, PTL DEF PathSpec, WireSpec

(* Whatever is logged and converted meanwhile, an undisturbed frame has    *)
(* the checksum of the standard and is accepted.                           *)
THEOREM PathKeepsTheStandard == PathSpec => []IntactIsAccepted
BY PathImplementsWire, ChecksumOfTheStandard, PTL

(* Whatever is logged and converted meanwhile, a frame with one changed    *)
(* byte is accepted only in the two cases that the code cannot see.        *)
THEOREM PathDetectsSingleFaults == PathSpec => []SingleFaultDetected
BY PathImplementsWire, SingleFaults, PTL

-----------------------------------------------------------------------------
(* The argument loops of the tool.  FormatLoop: what parse_format_flag has *)
(* passed is pairs of --format and a value, of which option has the last.  *)
(* OptionLoop: when convert's option is LIN, some --protocol said so.      *)

Pairs(n) == \A i \in 1..n : i % 2 = 1 => argv[i] = "--format"

FormatLoop ==
    tool = "format" =>
        /\ command \in {"version", "status"}
        /\ arg % 2 = 1 /\ Pairs(arg - 1)
        /\ arg > 1 => option = argv[arg - 1]

AskedFor(n) == \E i \in 1..n - 1 : argv[i] = "--protocol" /\ argv[i + 1] = "LIN"

OptionLoop ==
    /\ tool = "options" => command = "convert" /\ (option = "LIN" => AskedFor(arg - 1))
    /\ tool \in {"input", "validate"} => command = "convert" /\ AskedFor(Len(argv))

AtStart == tool \in {"idle", "main"} => arg = 1 /\ option = ""

ArgInv ==
    /\ argv \in Seq(STRING) /\ arg \in 1..Len(argv) + 1
    /\ AtStart /\ FormatLoop /\ OptionLoop /\ ArgumentsDecide

(* The loops start at the first argument. *)
LEMMA FirstArgument ==
    /\ 1 % 2 = 1 /\ ~(1 > 1) /\ 1 - 1 = 0
    /\ << >> \in Seq(STRING)
    /\ \A args \in Seq(STRING) : 1 \in 1..Len(args) + 1
<1>1. 1 % 2 = 1 /\ ~(1 > 1) /\ 1 - 1 = 0
  OBVIOUS
<1>2. << >> \in Seq(STRING)
  OBVIOUS
<1>3. ASSUME NEW args \in Seq(STRING) PROVE 1 \in 1..Len(args) + 1
  <2>1. Len(args) \in Nat
    OBVIOUS
  <2> QED BY <2>1
<1> QED BY <1>1, <1>2, <1>3

LEMMA ArgInit == ASSUME PathInit PROVE ArgInv
<1>1. tool = "idle" /\ argv = << >> /\ arg = 1 /\ option = ""
  BY DEF PathInit, Tool!ToolInit
<1>2. argv \in Seq(STRING) /\ arg \in 1..Len(argv) + 1
  BY <1>1, FirstArgument
<1>3. AtStart /\ FormatLoop /\ OptionLoop /\ ArgumentsDecide
  BY <1>1 DEF AtStart, FormatLoop, OptionLoop, ArgumentsDecide, Exited
<1> QED BY <1>2, <1>3 DEF ArgInv

LEMMA FormatFlagKeeps == ASSUME ArgInv, Tool!FormatFlag PROVE ArgInv'
<1> USE DEF ArgInv, Tool!toolArgs
<1>1. tool = "format" /\ arg <= Len(argv) /\ UNCHANGED <<command, argv>>
  BY DEF Tool!FormatFlag
<1>2. CASE Tool!HasValue("--format")
  <2>1. /\ argv[arg] = "--format" /\ arg < Len(argv) /\ tool' = "format"
        /\ option' = argv[arg + 1] /\ arg' = arg + 2
    BY <1>1, <1>2 DEF Tool!FormatFlag, Tool!HasValue
  <2>2. arg' \in 1..Len(argv') + 1
    BY <1>1, <2>1
  <2>3. arg' % 2 = 1 /\ arg' > 1 /\ arg' - 1 = arg + 1
    BY <1>1, <2>1 DEF FormatLoop
  <2>4. Pairs(arg' - 1)
    <3>1. (arg + 1) % 2 # 1
      BY <1>1 DEF FormatLoop
    <3>2. \A i \in 1..arg + 1 : i \in 1..arg - 1 \/ i = arg \/ i = arg + 1
      OBVIOUS
    <3> QED BY <1>1, <2>1, <2>3, <3>1, <3>2 DEF Pairs, FormatLoop
  <2>5. Pairs(arg - 1)'
    BY <1>1, <2>4 DEF Pairs
  <2>6. FormatLoop'
    BY <1>1, <2>1, <2>3, <2>5 DEF FormatLoop
  <2> QED BY <1>1, <2>1, <2>2, <2>6 DEF AtStart, OptionLoop, ArgumentsDecide, Exited
<1>3. CASE ~Tool!HasValue("--format")
  <2>1. tool' = "exited" /\ code' = 2 /\ UNCHANGED <<option, arg>>
    BY <1>1, <1>3 DEF Tool!FormatFlag, Tool!Exit
  <2> QED BY <1>1, <2>1 DEF AtStart, FormatLoop, OptionLoop, ArgumentsDecide, Exited
<1> QED BY <1>2, <1>3

LEMMA PrintInFormatKeeps == ASSUME ArgInv, Tool!PrintInFormat PROVE ArgInv'
<1> USE DEF ArgInv, Tool!toolArgs
<1>1. /\ tool = "format" /\ tool' = "exited" /\ arg > Len(argv)
      /\ UNCHANGED <<command, argv, arg, option>>
      /\ code' = 0 => option \in {"json", "text"}
  BY DEF Tool!PrintInFormat, Tool!Exit
<1>2. arg = Len(argv) + 1 /\ Len(argv) \in Nat
  BY <1>1
<1>3. Pairs(Len(argv)) /\ Len(argv) % 2 = 0 /\ (Len(argv) > 0 => option = argv[Len(argv)])
  <2>1. arg - 1 = Len(argv) /\ (arg > 1 <=> Len(argv) > 0)
    BY <1>2
  <2>2. Len(argv) % 2 = 0
    BY <1>1, <1>2 DEF FormatLoop
  <2> QED BY <1>1, <2>1, <2>2 DEF FormatLoop
<1>4. Len(argv) > 0 \/ argv = << >>
  BY <1>2
<1>5. ArgumentsDecide'
  BY <1>1, <1>3, <1>4 DEF ArgumentsDecide, Exited, FormatLoop, Pairs
<1> QED BY <1>1, <1>5 DEF AtStart, FormatLoop, OptionLoop

LEMMA FurtherOn ==
    ASSUME NEW a \in Nat, NEW b \in Nat, a < b, NEW k \in Nat, 1 <= k, k <= (a - 1) - 1
    PROVE  k \in 1..(b - 1) - 1
OBVIOUS

LEMMA ConvertOptionKeeps == ASSUME ArgInv, Tool!ConvertOption PROVE ArgInv'
<1> USE DEF ArgInv, Tool!toolArgs
<1>1. tool = "options" /\ arg <= Len(argv) /\ UNCHANGED <<command, argv>>
  BY DEF Tool!ConvertOption
<1>2. arg \in Nat /\ Len(argv) \in Nat
  BY DEF ArgInv
<1>3. CASE tool' = "options"
  <2>1. /\ arg' \in 1..Len(argv') + 1 /\ arg' > arg
        /\ \/ option' = option
           \/ /\ argv[arg] = "--protocol" /\ option' = argv[arg + 1]
              /\ arg < Len(argv) /\ arg' = arg + 2
    BY <1>1, <1>2, <1>3 DEF Tool!ConvertOption, Tool!HasValue, Tool!Exit
  <2>2. ASSUME option' = "LIN" PROVE AskedFor(arg - 1)'
    <3>1. CASE option' = option
      <4>1. PICK i \in 1..(arg - 1) - 1 : argv[i] = "--protocol" /\ argv[i + 1] = "LIN"
        BY <1>1, <2>2, <3>1 DEF OptionLoop, AskedFor
      <4>2. i \in 1..(arg' - 1) - 1
        <5>1. arg' \in Nat /\ arg' > arg
          BY <1>1, <1>2, <2>1
        <5>2. i \in Nat /\ 1 <= i /\ i <= (arg - 1) - 1
          BY <1>2
        <5> QED BY <1>2, <5>1, <5>2, FurtherOn
      <4> QED BY <1>1, <4>1, <4>2 DEF AskedFor
    <3>2. CASE argv[arg] = "--protocol" /\ option' = argv[arg + 1] /\ arg' = arg + 2
      <4>1. arg \in 1..(arg' - 1) - 1
        BY <1>2, <3>2
      <4> QED BY <1>1, <2>2, <3>2, <4>1 DEF AskedFor
    <3> QED BY <2>1, <3>1, <3>2
  <2>3. OptionLoop'
    BY <1>1, <1>3, <2>2 DEF OptionLoop
  <2> QED BY <1>1, <1>3, <2>1, <2>3 DEF AtStart, FormatLoop, ArgumentsDecide, Exited
<1>4. CASE tool' # "options"
  <2>1. tool' = "exited" /\ code' = 2 /\ UNCHANGED arg
    BY <1>1, <1>4 DEF Tool!ConvertOption, Tool!Exit
  <2> QED BY <1>1, <2>1 DEF AtStart, FormatLoop, OptionLoop, ArgumentsDecide, Exited
<1> QED BY <1>3, <1>4

LEMMA CheckProtocolKeeps == ASSUME ArgInv, Tool!CheckProtocol PROVE ArgInv'
<1> USE DEF ArgInv, Tool!toolArgs
<1>1. /\ tool = "options" /\ arg > Len(argv) /\ UNCHANGED <<command, argv, arg, option>>
      /\ \/ option = "LIN" /\ tool' = "input"
         \/ tool' = "exited" /\ code' = 2
  BY DEF Tool!CheckProtocol, Tool!Exit
<1>2. arg - 1 = Len(argv)
  BY <1>1
<1>3. OptionLoop'
  BY <1>1, <1>2 DEF OptionLoop, AskedFor
<1>4. AtStart' /\ FormatLoop' /\ ArgumentsDecide'
  <2>1. CASE tool' = "input"
    BY <2>1 DEF AtStart, FormatLoop, ArgumentsDecide, Exited
  <2>2. CASE tool' = "exited" /\ code' = 2
    <3>1. code' # 0
      BY <2>2
    <3>2. ArgumentsDecide'
      BY <3>1 DEF ArgumentsDecide
    <3> QED BY <2>2, <3>2 DEF AtStart, FormatLoop
  <2> QED BY <1>1, <2>1, <2>2
<1>5. (argv \in Seq(STRING) /\ arg \in 1..Len(argv) + 1)'
  BY <1>1
<1> QED BY <1>3, <1>4, <1>5

(* Every step of the tool, and the invocations before and after it. *)
LEMMA ArgStep == ASSUME ArgInv, [PathNext]_vars PROVE ArgInv'
<1> USE DEF ArgInv
<1>1. CASE UNCHANGED <<tool, command, argv, arg, option, code>>
  BY <1>1 DEF AtStart, FormatLoop, Pairs, OptionLoop, AskedFor, ArgumentsDecide, Exited
<1>2. ASSUME NEW c, NEW args \in Seq(STRING), NEW json, Tool!Invoke(c, args, json)
      PROVE  ArgInv'
  <2>1. tool = "idle" /\ tool' = "main" /\ argv' = args /\ UNCHANGED <<arg, option>>
    BY <1>2 DEF Tool!Invoke
  <2>2. arg = 1 /\ option = ""
    BY <2>1 DEF AtStart
  <2>3. argv' \in Seq(STRING) /\ arg' \in 1..Len(argv') + 1
    BY <2>1, <2>2, FirstArgument
  <2>4. AtStart' /\ FormatLoop' /\ OptionLoop' /\ ArgumentsDecide'
    BY <2>1, <2>2 DEF AtStart, FormatLoop, OptionLoop, ArgumentsDecide, Exited
  <2> QED BY <2>3, <2>4
<1>3. ASSUME NEW form, Log(form) PROVE ArgInv'
  BY <1>2, <1>3, PathAssumption DEF Log
<1>4. CASE InvokeByHand
  BY <1>2, <1>4, PathAssumption DEF InvokeByHand
<1>5. CASE Tool!Dispatch
  <2>1. /\ tool = "main" /\ UNCHANGED <<command, argv, arg>>
        /\ \/ command \in {"version", "status"} /\ tool' = "format"
           \/ command = "convert" /\ tool' = "options" /\ UNCHANGED option
           \/ tool' = "exited" /\ command \notin {"version", "status", "convert"}
    BY <1>5 DEF Tool!Dispatch, Tool!Exit, Tool!toolArgs
  <2>2. arg = 1 /\ option = ""
    BY <2>1 DEF AtStart
  <2>3. AtStart' /\ OptionLoop' /\ ArgumentsDecide'
    BY <2>1, <2>2 DEF AtStart, OptionLoop, ArgumentsDecide, Exited
  <2>4. FormatLoop'
    <3>1. arg' % 2 = 1 /\ ~(arg' > 1) /\ arg' - 1 = 0
      BY <2>1, <2>2, FirstArgument
    <3>2. Pairs(0)'
      BY DEF Pairs
    <3>3. tool' = "format" => command' \in {"version", "status"}
      BY <2>1
    <3> QED BY <3>1, <3>2, <3>3 DEF FormatLoop
  <2> QED BY <2>1, <2>3, <2>4
<1>6. CASE Tool!FormatFlag
  BY <1>6, FormatFlagKeeps
<1>7. CASE Tool!PrintInFormat
  BY <1>7, PrintInFormatKeeps
<1>8. CASE Tool!ConvertOption
  BY <1>8, ConvertOptionKeeps
<1>9. CASE Tool!CheckProtocol
  BY <1>9, CheckProtocolKeeps
<1>10. CASE Tool!ParseInput \/ Tool!Validate
  <2>1. /\ tool \in {"input", "validate"} /\ tool' \in {"validate", "exited"}
        /\ UNCHANGED <<command, argv, arg, option>>
    BY <1>10 DEF Tool!ParseInput, Tool!Validate, Tool!Exit, Tool!toolArgs
  <2>2. OptionLoop' /\ ArgumentsDecide'
    BY <2>1 DEF OptionLoop, ArgumentsDecide, Exited, AskedFor
  <2> QED BY <2>1, <2>2 DEF AtStart, FormatLoop
<1>11. CASE EndOfTool
  <2>1. tool' = "idle" /\ argv' = << >> /\ arg' = 1 /\ option' = ""
    BY <1>11 DEF EndOfTool, Tool!Return
  <2>2. argv' \in Seq(STRING) /\ arg' \in 1..Len(argv') + 1
    BY <2>1, FirstArgument
  <2>3. AtStart' /\ FormatLoop' /\ OptionLoop' /\ ArgumentsDecide'
    BY <2>1 DEF AtStart, FormatLoop, OptionLoop, ArgumentsDecide, Exited
  <2> QED BY <2>2, <2>3
<1>12. CASE OnWire
  BY <1>1, <1>12 DEF OnWire, toolVars
<1>13. CASE UNCHANGED vars
  BY <1>1, <1>13 DEF vars, toolVars
<1> QED BY <1>3, <1>4, <1>5, <1>6, <1>7, <1>8, <1>9, <1>10, <1>11, <1>12, <1>13
        DEF PathNext, Tool!ToolStep

(* Whatever the arguments, repeated, unknown or without their value: a     *)
(* message is printed only if LIN was asked for, a version or status only  *)
(* in a format that is supported.                                          *)
THEOREM ArgumentsAreObeyed == PathSpec => []ArgumentsDecide
<1>1. PathInit => ArgInv  BY ArgInit
<1>2. ArgInv /\ [PathNext]_vars => ArgInv'  BY ArgStep
<1>3. ArgInv => ArgumentsDecide  BY DEF ArgInv
<1> QED  BY <1>1, <1>2, <1>3, PTL DEF PathSpec

-----------------------------------------------------------------------------
(* Base64, on one character: the accumulator keeps its lowest bits, of     *)
(* which bits are waiting for the rest of their byte.                      *)
DecodeState == [accum : Nat, bits : {0, 2, 4, 6}, out : Seq(Byte), over : BOOLEAN]

LEMMA Powers ==
    /\ Tool!Power(0) = 1 /\ Tool!Power(1) = 2 /\ Tool!Power(2) = 4 /\ Tool!Power(3) = 8
    /\ Tool!Power(4) = 16 /\ Tool!Power(5) = 32 /\ Tool!Power(6) = 64 /\ Tool!Power(7) = 128
BY DEF Tool!Power

(* Dropping what does not fit keeps the twelve lowest bits. *)
LEMMA AccumKeepsBits ==
    ASSUME NEW x \in Nat
    PROVE  x % AccumSize \in Nat /\ (x % AccumSize) % 4096 = x % 4096
<1>1. AccumSize \in Nat \ {0} /\ AccumSize % 4096 = 0
  BY PathAssumption
<1>2. PICK S \in Nat : S = AccumSize /\ S # 0 /\ S % 4096 = 0
  BY <1>1
<1>3. PICK m \in Nat : S = 4096 * m
  BY <1>2
<1>4. PICK k \in Nat, r \in Nat : x = S * k + r /\ r = x % S
  <2>1. x \div S \in Nat /\ x % S \in Nat /\ x = S * (x \div S) + (x % S)
    BY <1>2
  <2> QED BY <2>1
<1>5. PICK t \in Nat : t = m * k
  OBVIOUS
<1>6. x = 4096 * t + r
  BY <1>3, <1>4, <1>5
<1>7. r % 4096 = x % 4096
  BY <1>6
<1> QED BY <1>2, <1>4, <1>7

(* What six more bits do, for each number of bits left over.               *)
SixMoreAre(s, v, t) ==
    /\ t \in DecodeState /\ t.over = s.over
    /\ s.bits = 0 => t.bits = 6 /\ t.out = s.out /\ t.accum % 64 = v
    /\ s.bits = 6 => /\ t.bits = 4 /\ t.out = Append(s.out, (s.accum % 64) * 4 + (v \div 16))
                     /\ t.accum % 16 = v % 16
    /\ s.bits = 4 => /\ t.bits = 2 /\ t.out = Append(s.out, (s.accum % 16) * 16 + (v \div 4))
                     /\ t.accum % 4 = v % 4
    /\ s.bits = 2 => t.bits = 0 /\ t.out = Append(s.out, (s.accum % 4) * 64 + v)

LEMMA SixMore ==
    ASSUME NEW s \in DecodeState, NEW v \in 0..63
    PROVE  SixMoreAre(s, v, Tool!SixBits(s, v))
<1> USE DEF SixMoreAre
<1>1. PICK acc \in Nat : acc = s.accum
  BY DEF DecodeState
<1>2. PICK o \in Seq(Byte) : o = s.out
  BY DEF DecodeState
<1>3. s.bits \in {0, 2, 4, 6} /\ s.over \in BOOLEAN
  BY DEF DecodeState
<1>4. PICK a : a = (acc * 64 + v) % AccumSize
  OBVIOUS
<1>5. PICK w \in Nat : w = acc * 64 + v
  OBVIOUS
<1>6. a \in Nat /\ a % 4096 = w % 4096
  BY <1>4, <1>5, AccumKeepsBits
<1>7. PICK t : t = Tool!SixBits(s, v)
  OBVIOUS
<1>8. \A b \in Byte : Append(o, b) \in Seq(Byte)
  OBVIOUS
<1>9. CASE s.bits = 0
  <2>1. t = [accum |-> a, bits |-> 6, out |-> o, over |-> s.over]
    BY <1>1, <1>2, <1>4, <1>7, <1>9 DEF Tool!SixBits
  <2>2. t \in DecodeState /\ t.over = s.over /\ t.bits = 6 /\ t.out = s.out /\ t.accum = a
    BY <2>1, <1>2, <1>3, <1>6 DEF DecodeState
  <2>3. a % 64 = v
    BY <1>5, <1>6
  <2> QED BY <1>7, <1>9, <2>2, <2>3
<1>10. CASE s.bits = 6
  <2>1. PICK b : b = (a \div 16) % 256
    OBVIOUS
  <2>2. b \in Byte /\ b = (acc % 64) * 4 + (v \div 16) /\ a % 16 = v % 16
    <3>1. (a % 4096) \div 16 = (a \div 16) % 256
      BY <1>6
    <3>2. w % 4096 = (acc % 64) * 64 + v
      BY <1>5
    <3>3. b = ((acc % 64) * 64 + v) \div 16
      BY <1>6, <2>1, <3>1, <3>2
    <3>4. acc % 64 \in 0..63
      OBVIOUS
    <3>5. b = (acc % 64) * 4 + (v \div 16)
      BY <3>3, <3>4
    <3>6. a % 16 = v % 16
      BY <1>6, <3>2, <3>4
    <3> QED BY <3>4, <3>5, <3>6 DEF Byte
  <2>3. t = [accum |-> a, bits |-> 4, out |-> Append(o, b), over |-> s.over]
    <3>1. ~(s.bits + 6 < 8) /\ (s.bits + 6) - 8 = 4
      BY <1>10
    <3>2. Tool!Power((s.bits + 6) - 8) = 16
      BY <3>1, Powers
    <3> QED BY <1>1, <1>2, <1>4, <1>7, <2>1, <3>1, <3>2 DEF Tool!SixBits
  <2>4. /\ t \in DecodeState /\ t.over = s.over /\ t.bits = 4 /\ t.out = Append(o, b)
        /\ t.accum = a
    BY <2>2, <2>3, <1>3, <1>6, <1>8 DEF DecodeState
  <2> QED BY <1>1, <1>2, <1>7, <1>10, <2>2, <2>4
<1>11. CASE s.bits = 4
  <2>1. PICK b : b = (a \div 4) % 256
    OBVIOUS
  <2>2. b \in Byte /\ b = (acc % 16) * 16 + (v \div 4) /\ a % 4 = v % 4
    <3>1. (a % 1024) \div 4 = (a \div 4) % 256
      BY <1>6
    <3>2. a % 1024 = w % 1024
      BY <1>6
    <3>3. w % 1024 = (acc % 16) * 64 + v
      BY <1>5
    <3>4. b = ((acc % 16) * 64 + v) \div 4
      BY <2>1, <3>1, <3>2, <3>3
    <3>5. acc % 16 \in 0..15
      OBVIOUS
    <3>6. b = (acc % 16) * 16 + (v \div 4)
      BY <3>4, <3>5
    <3>7. a % 4 = v % 4
      BY <1>6, <3>2, <3>3, <3>5
    <3> QED BY <3>5, <3>6, <3>7 DEF Byte
  <2>3. t = [accum |-> a, bits |-> 2, out |-> Append(o, b), over |-> s.over]
    <3>1. ~(s.bits + 6 < 8) /\ (s.bits + 6) - 8 = 2
      BY <1>11
    <3>2. Tool!Power((s.bits + 6) - 8) = 4
      BY <3>1, Powers
    <3> QED BY <1>1, <1>2, <1>4, <1>7, <2>1, <3>1, <3>2 DEF Tool!SixBits
  <2>4. /\ t \in DecodeState /\ t.over = s.over /\ t.bits = 2 /\ t.out = Append(o, b)
        /\ t.accum = a
    BY <2>2, <2>3, <1>3, <1>6, <1>8 DEF DecodeState
  <2> QED BY <1>1, <1>2, <1>7, <1>11, <2>2, <2>4
<1>12. CASE s.bits = 2
  <2>1. PICK b : b = (a \div 1) % 256
    OBVIOUS
  <2>2. b \in Byte /\ b = (acc % 4) * 64 + v
    <3>1. b = w % 256
      BY <2>1, <1>6
    <3>2. w % 256 = (acc % 4) * 64 + v
      BY <1>5
    <3> QED BY <3>1, <3>2 DEF Byte
  <2>3. t = [accum |-> a, bits |-> 0, out |-> Append(o, b), over |-> s.over]
    <3>1. ~(s.bits + 6 < 8) /\ (s.bits + 6) - 8 = 0
      BY <1>12
    <3>2. Tool!Power((s.bits + 6) - 8) = 1
      BY <3>1, Powers
    <3> QED BY <1>1, <1>2, <1>4, <1>7, <2>1, <3>1, <3>2 DEF Tool!SixBits
  <2>4. t \in DecodeState /\ t.over = s.over /\ t.bits = 0 /\ t.out = Append(o, b)
    BY <2>2, <2>3, <1>3, <1>6, <1>8 DEF DecodeState
  <2> QED BY <1>1, <1>2, <1>7, <1>12, <2>2, <2>4
<1> QED BY <1>3, <1>9, <1>10, <1>11, <1>12

-----------------------------------------------------------------------------
(* The loop of base64_decode                                               *)
LEMMA DecodeCharType ==
    ASSUME NEW s \in DecodeState, NEW c \in Character
    PROVE  Tool!DecodeChar(s, c) \in DecodeState
<1>1. CASE s.over \/ c = Tool!Pad
  <2>1. Tool!DecodeChar(s, c) = [s EXCEPT !.over = TRUE]
    BY <1>1 DEF Tool!DecodeChar
  <2> QED BY <2>1 DEF DecodeState
<1>2. CASE ~(s.over \/ c = Tool!Pad) /\ c = Tool!Junk
  BY <1>2 DEF Tool!DecodeChar
<1>3. CASE ~(s.over \/ c = Tool!Pad) /\ c # Tool!Junk
  <2>1. c \in 0..63
    BY <1>3 DEF Character, Tool!Pad, Tool!Junk
  <2>2. Tool!DecodeChar(s, c) = Tool!SixBits(s, c)
    BY <1>3 DEF Tool!DecodeChar
  <2>3. SixMoreAre(s, c, Tool!SixBits(s, c))
    BY <2>1, SixMore
  <2> QED BY <2>2, <2>3 DEF SixMoreAre
<1> QED BY <1>1, <1>2, <1>3

LEMMA DecodeStartType ==
    /\ Tool!DecodeStart \in DecodeState
    /\ Tool!DecodeStart.bits = 0 /\ Tool!DecodeStart.out = << >> /\ Tool!DecodeStart.over = FALSE
<1>1. << >> \in Seq(Byte)
  OBVIOUS
<1> QED BY <1>1 DEF Tool!DecodeStart, DecodeState

(* t[i] is the state of the loop after the first i characters. *)
Decodes(t, chars) ==
    \A i \in 1..Len(chars) :
        /\ t[i] \in DecodeState
        /\ t[i] = Tool!DecodeChar(IF i = 1 THEN Tool!DecodeStart ELSE t[i - 1], chars[i])

LEMMA DecodingStep ==
    ASSUME NEW chars \in Seq(Character)
    PROVE  Decodes(Tool!Decoding(chars), chars)
<1> DEFINE n == Len(chars)
           F == [i \in 1..n |-> [s \in DecodeState |-> Tool!DecodeChar(s, chars[i])]]
<1>1. n \in Nat /\ F \in StepFunctions(n, DecodeState)
  <2>1. \A i \in 1..n : chars[i] \in Character
    OBVIOUS
  <2>2. \A i \in 1..n : \A s \in DecodeState : Tool!DecodeChar(s, chars[i]) \in DecodeState
    BY <2>1, DecodeCharType
  <2> QED BY <2>2 DEF StepFunctions
<1>2. PICK f \in [1..n -> DecodeState] : Iterates(f, F, Tool!DecodeStart, n)
  <2> HIDE DEF F, n
  <2> QED BY <1>1, DecodeStartType, Recursion
<1>3. ASSUME NEW i \in 1..n
      PROVE  f[i] = Tool!DecodeChar(IF i = 1 THEN Tool!DecodeStart ELSE f[i - 1], chars[i])
  <2> DEFINE u == IF i = 1 THEN Tool!DecodeStart ELSE f[i - 1]
  <2>1. u \in DecodeState
    <3>1. i = 1 \/ i - 1 \in 1..n
      BY <1>1
    <3>2. \A j \in 1..n : f[j] \in DecodeState
      OBVIOUS
    <3> QED BY <3>1, <3>2, DecodeStartType
  <2>2. f[i] = F[i][u]
    BY <1>2 DEF Iterates
  <2> HIDE DEF u
  <2>3. f[i] = Tool!DecodeChar(u, chars[i])
    BY <2>1, <2>2
  <2> QED BY <2>3 DEF u
<1>4. f = [i \in 1..n |-> Tool!DecodeChar(IF i = 1 THEN Tool!DecodeStart ELSE f[i - 1], chars[i])]
  BY <1>3
<1> DEFINE t == Tool!Decoding(chars)
<1>5. t = [i \in 1..n |-> Tool!DecodeChar(IF i = 1 THEN Tool!DecodeStart ELSE t[i - 1], chars[i])]
  BY <1>4 DEF Tool!Decoding
<1> HIDE DEF t
<1>6. \A i \in 1..n :
         t[i] = Tool!DecodeChar(IF i = 1 THEN Tool!DecodeStart ELSE t[i - 1], chars[i])
  BY <1>5
<1>7. \A i \in 1..n : chars[i] \in Character
  OBVIOUS
<1>8. \A i \in 1..n : t[i] \in DecodeState
  <2> DEFINE S == {i \in Nat : t[i] \in DecodeState}
  <2>1. CASE n = 0
    BY <2>1
  <2>2. CASE n # 0
    <3>1. 1 \in S
      <4>1. 1 \in 1..n
        BY <1>1, <2>2
      <4>2. t[1] = Tool!DecodeChar(Tool!DecodeStart, chars[1])
        BY <1>6, <4>1
      <4> QED BY <1>7, <4>1, <4>2, DecodeStartType, DecodeCharType
    <3>2. ASSUME NEW i \in 1..n - 1, i \in S PROVE i + 1 \in S
      <4>1. i + 1 \in 1..n /\ i + 1 # 1 /\ (i + 1) - 1 = i /\ i + 1 \in Nat
        BY <1>1
      <4>2. t[i + 1] = Tool!DecodeChar(t[i], chars[i + 1])
        BY <1>6, <4>1
      <4>3. t[i] \in DecodeState
        BY <3>2
      <4> QED BY <1>7, <4>1, <4>2, <4>3, DecodeCharType
    <3> HIDE DEF S
    <3>3. \A i \in 1..n : i \in S
      BY <1>1, <3>1, <3>2, UpTo
    <3> QED BY <3>3 DEF S
  <2> QED BY <2>1, <2>2
<1> QED BY <1>6, <1>8 DEF t, Decodes

(* Whatever the text, base64_decode makes bytes of it. *)
LEMMA DecodedBytes ==
    ASSUME NEW chars \in Seq(Character)
    PROVE  Tool!base64_decode(chars) \in Seq(Byte)
<1>1. CASE chars = << >>
  BY <1>1 DEF Tool!base64_decode
<1>2. CASE chars # << >>
  <2>1. Len(chars) \in 1..Len(chars)
    BY <1>2, EmptySeq
  <2>2. PICK t : t = Tool!Decoding(chars)
    OBVIOUS
  <2>3. t[Len(chars)] \in DecodeState
    BY <2>1, <2>2, DecodingStep DEF Decodes
  <2>4. Tool!base64_decode(chars) = t[Len(chars)].out
    BY <1>2, <2>2 DEF Tool!base64_decode
  <2> QED BY <2>3, <2>4 DEF DecodeState
<1> QED BY <1>1, <1>2

-----------------------------------------------------------------------------
(* The characters of base64 text                                           *)

(* The bytes behind the end are zero. *)
ByteOrZero(data, p) == IF p <= Len(data) THEN data[p] ELSE 0

LEMMA ByteOrZeroIsByte ==
    ASSUME NEW data \in Seq(Byte), NEW p \in Nat \ {0}
    PROVE  ByteOrZero(data, p) \in Byte
<1>1. Len(data) \in Nat /\ \A i \in 1..Len(data) : data[i] \in Byte
  OBVIOUS
<1>2. 0 \in Byte
  BY DEF Byte
<1> QED BY <1>1, <1>2 DEF ByteOrZero

LEMMA DataBitOfByte ==
    ASSUME NEW data \in Seq(Byte), NEW p \in Nat, NEW q \in 0..7
    PROVE  DataBit(data, 8 * p + q) = Bit(ByteOrZero(data, p + 1), Tool!Power(7 - q))
<1>1. PICK i : i = 8 * p + q
  OBVIOUS
<1>2. i \div 8 = p /\ i % 8 = q
  BY <1>1
<1>3. PICK w : w = Tool!Power(7 - q)
  OBVIOUS
<1>4. w \in {1, 2, 4, 8, 16, 32, 64, 128}
  <2>1. 7 - q \in {0, 1, 2, 3, 4, 5, 6, 7}
    OBVIOUS
  <2> QED BY <1>3, <2>1, Powers
<1>5. Bit(0, w) = 0
  BY <1>4 DEF Bit
<1>6. Len(data) \in Nat
  OBVIOUS
<1>7. p < Len(data) <=> p + 1 <= Len(data)
  BY <1>6
<1>8. DataBit(data, i) = IF p < Len(data) THEN Bit(data[p + 1], w) ELSE 0
  BY <1>2, <1>3 DEF DataBit
<1>9. DataBit(data, i) = Bit(ByteOrZero(data, p + 1), w)
  BY <1>5, <1>7, <1>8 DEF ByteOrZero
<1> QED BY <1>1, <1>3, <1>9

LEMMA UpperBits ==
    ASSUME NEW b \in Byte
    PROVE  /\ b \div 4 = 32 * Bit(b, 128) + 16 * Bit(b, 64) + 8 * Bit(b, 32)
                         + 4 * Bit(b, 16) + 2 * Bit(b, 8) + Bit(b, 4)
           /\ b \div 16 = 8 * Bit(b, 128) + 4 * Bit(b, 64) + 2 * Bit(b, 32) + Bit(b, 16)
           /\ b \div 64 = 2 * Bit(b, 128) + Bit(b, 64)
BY SMTT(60) DEF Byte, Bit

LEMMA LowerBits ==
    ASSUME NEW b \in Byte
    PROVE  /\ b % 4 = 2 * Bit(b, 2) + Bit(b, 1)
           /\ b % 16 = 8 * Bit(b, 8) + 4 * Bit(b, 4) + 2 * Bit(b, 2) + Bit(b, 1)
           /\ b % 64 = 32 * Bit(b, 32) + 16 * Bit(b, 16) + 8 * Bit(b, 8)
                       + 4 * Bit(b, 4) + 2 * Bit(b, 2) + Bit(b, 1)
BY SMTT(60) DEF Byte, Bit

(* Three bytes in a row, and the four characters of their group. *)
LEMMA GroupOfText ==
    ASSUME NEW data \in Seq(Byte), NEW g \in Nat, NEW x, NEW y, NEW z,
           x = ByteOrZero(data, 3 * g + 1), y = ByteOrZero(data, 3 * g + 2),
           z = ByteOrZero(data, 3 * g + 3)
    PROVE  /\ x \in Byte /\ y \in Byte /\ z \in Byte
           /\ SixBitsFrom(data, 24 * g) = x \div 4
           /\ SixBitsFrom(data, 24 * g + 6) = (x % 4) * 16 + (y \div 16)
           /\ SixBitsFrom(data, 24 * g + 12) = (y % 16) * 4 + (z \div 64)
           /\ SixBitsFrom(data, 24 * g + 18) = z % 64
<1>1. x \in Byte /\ y \in Byte /\ z \in Byte
  BY ByteOrZeroIsByte
<1>2. \A n \in Byte : \A w \in {1, 2, 4, 8, 16, 32, 64, 128} : Bit(n, w) \in Nat
  BY DEF Byte, Bit
<1>3. ASSUME NEW q \in 0..7
      PROVE  /\ DataBit(data, 24 * g + q) = Bit(x, Tool!Power(7 - q))
             /\ DataBit(data, 24 * g + 8 + q) = Bit(y, Tool!Power(7 - q))
             /\ DataBit(data, 24 * g + 16 + q) = Bit(z, Tool!Power(7 - q))
  <2>1. /\ 24 * g + q = 8 * (3 * g) + q /\ 24 * g + 8 + q = 8 * (3 * g + 1) + q
        /\ 24 * g + 16 + q = 8 * (3 * g + 2) + q
        /\ 3 * g + 1 + 1 = 3 * g + 2 /\ 3 * g + 2 + 1 = 3 * g + 3
        /\ 3 * g \in Nat /\ 3 * g + 1 \in Nat /\ 3 * g + 2 \in Nat
    OBVIOUS
  <2>2. DataBit(data, 8 * (3 * g) + q) = Bit(x, Tool!Power(7 - q))
    BY <2>1, DataBitOfByte
  <2>3. DataBit(data, 8 * (3 * g + 1) + q) = Bit(y, Tool!Power(7 - q))
    BY <2>1, DataBitOfByte
  <2>4. DataBit(data, 8 * (3 * g + 2) + q) = Bit(z, Tool!Power(7 - q))
    BY <2>1, DataBitOfByte
  <2> QED BY <2>1, <2>2, <2>3, <2>4
<1>4. /\ DataBit(data, 24 * g) = Bit(x, 128) /\ DataBit(data, 24 * g + 1) = Bit(x, 64)
      /\ DataBit(data, 24 * g + 2) = Bit(x, 32) /\ DataBit(data, 24 * g + 3) = Bit(x, 16)
      /\ DataBit(data, 24 * g + 4) = Bit(x, 8) /\ DataBit(data, 24 * g + 5) = Bit(x, 4)
      /\ DataBit(data, 24 * g + 6) = Bit(x, 2) /\ DataBit(data, 24 * g + 7) = Bit(x, 1)
  BY <1>3, Powers
<1>5. /\ DataBit(data, 24 * g + 8) = Bit(y, 128) /\ DataBit(data, 24 * g + 9) = Bit(y, 64)
      /\ DataBit(data, 24 * g + 10) = Bit(y, 32) /\ DataBit(data, 24 * g + 11) = Bit(y, 16)
      /\ DataBit(data, 24 * g + 12) = Bit(y, 8) /\ DataBit(data, 24 * g + 13) = Bit(y, 4)
      /\ DataBit(data, 24 * g + 14) = Bit(y, 2) /\ DataBit(data, 24 * g + 15) = Bit(y, 1)
  BY <1>3, Powers
<1>6. /\ DataBit(data, 24 * g + 16) = Bit(z, 128) /\ DataBit(data, 24 * g + 17) = Bit(z, 64)
      /\ DataBit(data, 24 * g + 18) = Bit(z, 32) /\ DataBit(data, 24 * g + 19) = Bit(z, 16)
      /\ DataBit(data, 24 * g + 20) = Bit(z, 8) /\ DataBit(data, 24 * g + 21) = Bit(z, 4)
      /\ DataBit(data, 24 * g + 22) = Bit(z, 2) /\ DataBit(data, 24 * g + 23) = Bit(z, 1)
  BY <1>3, Powers
<1>7. SixBitsFrom(data, 24 * g) = x \div 4
  BY <1>1, <1>4, UpperBits DEF SixBitsFrom
<1>8. SixBitsFrom(data, 24 * g + 6) = (x % 4) * 16 + (y \div 16)
  <2>1. SixBitsFrom(data, 24 * g + 6)
           = 32 * Bit(x, 2) + 16 * Bit(x, 1) + 8 * Bit(y, 128) + 4 * Bit(y, 64)
             + 2 * Bit(y, 32) + Bit(y, 16)
    BY <1>4, <1>5 DEF SixBitsFrom
  <2>2. x % 4 = 2 * Bit(x, 2) + Bit(x, 1)
    BY <1>1, LowerBits
  <2>3. y \div 16 = 8 * Bit(y, 128) + 4 * Bit(y, 64) + 2 * Bit(y, 32) + Bit(y, 16)
    BY <1>1, UpperBits
  <2>4. /\ Bit(x, 2) \in Nat /\ Bit(x, 1) \in Nat /\ Bit(y, 128) \in Nat
        /\ Bit(y, 64) \in Nat /\ Bit(y, 32) \in Nat /\ Bit(y, 16) \in Nat
    BY <1>1, <1>2
  <2>5. SixBitsFrom(data, 24 * g + 6)
           = (2 * Bit(x, 2) + Bit(x, 1)) * 16
             + (8 * Bit(y, 128) + 4 * Bit(y, 64) + 2 * Bit(y, 32) + Bit(y, 16))
    <3>1. PICK a \in Nat, b \in Nat, c \in Nat, d \in Nat, e \in Nat, f \in Nat :
             /\ a = Bit(x, 2) /\ b = Bit(x, 1) /\ c = Bit(y, 128)
             /\ d = Bit(y, 64) /\ e = Bit(y, 32) /\ f = Bit(y, 16)
      BY <2>4
    <3>2. SixBitsFrom(data, 24 * g + 6) = 32 * a + 16 * b + 8 * c + 4 * d + 2 * e + f
      BY <2>1, <3>1
    <3>3. 32 * a + 16 * b + 8 * c + 4 * d + 2 * e + f
             = (2 * a + b) * 16 + (8 * c + 4 * d + 2 * e + f)
      BY ONLY a \in Nat, b \in Nat, c \in Nat, d \in Nat, e \in Nat, f \in Nat
    <3> QED BY <3>1, <3>2, <3>3
  <2> QED BY <2>2, <2>3, <2>5
<1>9. SixBitsFrom(data, 24 * g + 12) = (y % 16) * 4 + (z \div 64)
  <2>1. SixBitsFrom(data, 24 * g + 12)
           = 32 * Bit(y, 8) + 16 * Bit(y, 4) + 8 * Bit(y, 2) + 4 * Bit(y, 1)
             + 2 * Bit(z, 128) + Bit(z, 64)
    BY <1>5, <1>6 DEF SixBitsFrom
  <2>2. y % 16 = 8 * Bit(y, 8) + 4 * Bit(y, 4) + 2 * Bit(y, 2) + Bit(y, 1)
    BY <1>1, LowerBits
  <2>3. z \div 64 = 2 * Bit(z, 128) + Bit(z, 64)
    BY <1>1, UpperBits
  <2>4. /\ Bit(y, 8) \in Nat /\ Bit(y, 4) \in Nat /\ Bit(y, 2) \in Nat
        /\ Bit(y, 1) \in Nat /\ Bit(z, 128) \in Nat /\ Bit(z, 64) \in Nat
    BY <1>1, <1>2
  <2>5. SixBitsFrom(data, 24 * g + 12)
           = (8 * Bit(y, 8) + 4 * Bit(y, 4) + 2 * Bit(y, 2) + Bit(y, 1)) * 4
             + (2 * Bit(z, 128) + Bit(z, 64))
    <3>1. PICK a \in Nat, b \in Nat, c \in Nat, d \in Nat, e \in Nat, f \in Nat :
             /\ a = Bit(y, 8) /\ b = Bit(y, 4) /\ c = Bit(y, 2)
             /\ d = Bit(y, 1) /\ e = Bit(z, 128) /\ f = Bit(z, 64)
      BY <2>4
    <3>2. SixBitsFrom(data, 24 * g + 12) = 32 * a + 16 * b + 8 * c + 4 * d + 2 * e + f
      BY <2>1, <3>1
    <3>3. 32 * a + 16 * b + 8 * c + 4 * d + 2 * e + f
             = (8 * a + 4 * b + 2 * c + d) * 4 + (2 * e + f)
      BY ONLY a \in Nat, b \in Nat, c \in Nat, d \in Nat, e \in Nat, f \in Nat
    <3> QED BY <3>1, <3>2, <3>3
  <2> QED BY <2>2, <2>3, <2>5
<1>10. SixBitsFrom(data, 24 * g + 18) = z % 64
  <2>1. SixBitsFrom(data, 24 * g + 18)
           = 32 * Bit(z, 32) + 16 * Bit(z, 16) + 8 * Bit(z, 8) + 4 * Bit(z, 4)
             + 2 * Bit(z, 2) + Bit(z, 1)
    BY <1>6 DEF SixBitsFrom
  <2> QED BY <1>1, <2>1, LowerBits
<1> QED BY <1>1, <1>7, <1>8, <1>9, <1>10
(* Three bytes side by side *)
Packed(x, y, z, w) == w \in Nat /\ w = x * 65536 + y * 256 + z

LEMMA GroupShifts ==
    ASSUME NEW x \in Byte, NEW y \in Byte, NEW z \in Byte, NEW w, Packed(x, y, z, w)
    PROVE  /\ (w \div 262144) % 64 = x \div 4
           /\ (w \div 4096) % 64 = (x % 4) * 16 + (y \div 16)
           /\ (w \div 64) % 64 = (y % 16) * 4 + (z \div 64)
           /\ (w \div 1) % 64 = z % 64
<1>1. /\ x \in Nat /\ y \in Nat /\ z \in Nat /\ x <= 255 /\ y <= 255 /\ z <= 255
      /\ w \in Nat /\ w = x * 65536 + y * 256 + z
  BY DEF Byte, Packed
<1>2. (w \div 262144) % 64 = x \div 4
  BY <1>1, SMTT(30)
<1>3. (w \div 4096) % 64 = (x % 4) * 16 + (y \div 16)
  BY <1>1, SMTT(30)
<1>4. (w \div 64) % 64 = (y % 16) * 4 + (z \div 64)
  BY <1>1, SMTT(30)
<1>5. (w \div 1) % 64 = z % 64
  BY <1>1, SMTT(30)
<1> QED BY <1>2, <1>3, <1>4, <1>5

(* The position of a character: which of its group it is. *)
LEMMA GroupOfPosition ==
    ASSUME NEW n \in Nat, NEW j \in 1..4 * ((n + 2) \div 3)
    PROVE  \E g \in Nat, k \in 0..3 :
              /\ g = (j - 1) \div 4 /\ k = (j - 1) % 4
              /\ j - 1 = 4 * g + k /\ 6 * (j - 1) = 24 * g + 6 * k /\ 3 * g < n
              /\ 6 * (j - 1) >= 8 * n <=> k > 1 /\ 3 * g + k > n
<1>1. PICK m \in Nat : m = (n + 2) \div 3 /\ 3 * m <= n + 2
  OBVIOUS
<1>2. PICK g \in Nat, k \in 0..3 : g = (j - 1) \div 4 /\ k = (j - 1) % 4 /\ j - 1 = 4 * g + k
  <2>1. j - 1 \in Nat
    OBVIOUS
  <2> QED BY <2>1
<1>3. g < m
  BY <1>1, <1>2
<1>4. 3 * g < n
  BY <1>1, <1>3
<1>5. 6 * (j - 1) = 24 * g + 6 * k
  BY <1>2
<1>6. 24 * g + 6 * k >= 8 * n <=> k > 1 /\ 3 * g + k > n
  <2>1. k \in {0, 1, 2, 3}
    OBVIOUS
  <2> QED BY <1>4, <2>1
<1> QED BY <1>2, <1>4, <1>5, <1>6

(* The characters of three bytes *)
FirstChar(x) == x \div 4
SecondChar(x, y) == (x % 4) * 16 + (y \div 16)
ThirdChar(y, z) == (y % 16) * 4 + (z \div 64)
FourthChar(z) == z % 64

(* What stands at each position. *)
CharOfGroup(data, g, k) ==
    LET x == ByteOrZero(data, 3 * g + 1)
        y == ByteOrZero(data, 3 * g + 2)
        z == ByteOrZero(data, 3 * g + 3)
    IN  IF k > 1 /\ 3 * g + k > Len(data) THEN 64
        ELSE IF k = 0 THEN FirstChar(x)
        ELSE IF k = 1 THEN SecondChar(x, y)
        ELSE IF k = 2 THEN ThirdChar(y, z)
        ELSE FourthChar(z)

LEMMA CharIsCharacter ==
    ASSUME NEW data \in Seq(Byte), NEW g \in Nat, NEW k \in 0..3
    PROVE  CharOfGroup(data, g, k) \in 0..Tool!Pad
<1>1. PICK x \in Byte, y \in Byte, z \in Byte :
         /\ x = ByteOrZero(data, 3 * g + 1) /\ y = ByteOrZero(data, 3 * g + 2)
         /\ z = ByteOrZero(data, 3 * g + 3)
  <2>1. 3 * g + 1 \in Nat \ {0} /\ 3 * g + 2 \in Nat \ {0} /\ 3 * g + 3 \in Nat \ {0}
    OBVIOUS
  <2> QED BY <2>1, ByteOrZeroIsByte
<1>2. PICK c : c = CharOfGroup(data, g, k)
  OBVIOUS
<1>3. \/ c = 64 \/ c = x \div 4 \/ c = (x % 4) * 16 + (y \div 16)
      \/ c = (y % 16) * 4 + (z \div 64) \/ c = z % 64
  BY <1>1, <1>2 DEF CharOfGroup, FirstChar, SecondChar, ThirdChar, FourthChar
<1>4. /\ 64 \in 0..64 /\ x \div 4 \in 0..64 /\ (x % 4) * 16 + (y \div 16) \in 0..64
      /\ (y % 16) * 4 + (z \div 64) \in 0..64 /\ z % 64 \in 0..64
  BY DEF Byte
<1>5. c \in 0..64
  BY <1>3, <1>4
<1> QED BY <1>2, <1>5 DEF Tool!Pad

LEMMA TextByGroups ==
    ASSUME NEW data \in Seq(Byte), NEW j \in 1..4 * ((Len(data) + 2) \div 3)
    PROVE  /\ Base64Text(data)[j] = CharOfGroup(data, (j - 1) \div 4, (j - 1) % 4)
           /\ Tool!base64_encode(data)[j] = CharOfGroup(data, (j - 1) \div 4, (j - 1) % 4)
<1>1. PICK n \in Nat : n = Len(data)
  OBVIOUS
<1>2. PICK g \in Nat, k \in 0..3 :
              /\ g = (j - 1) \div 4 /\ k = (j - 1) % 4
              /\ j - 1 = 4 * g + k /\ 6 * (j - 1) = 24 * g + 6 * k /\ 3 * g < n
              /\ 6 * (j - 1) >= 8 * n <=> k > 1 /\ 3 * g + k > n
  BY <1>1, GroupOfPosition
<1>3. PICK x, y, z : /\ x = ByteOrZero(data, 3 * g + 1) /\ y = ByteOrZero(data, 3 * g + 2)
                     /\ z = ByteOrZero(data, 3 * g + 3)
  OBVIOUS
<1>4. /\ x \in Byte /\ y \in Byte /\ z \in Byte
      /\ SixBitsFrom(data, 24 * g) = x \div 4
      /\ SixBitsFrom(data, 24 * g + 6) = (x % 4) * 16 + (y \div 16)
      /\ SixBitsFrom(data, 24 * g + 12) = (y % 16) * 4 + (z \div 64)
      /\ SixBitsFrom(data, 24 * g + 18) = z % 64
  BY <1>3, GroupOfText
<1>5. k \in {0, 1, 2, 3}
  OBVIOUS
<1>6. PICK c : c = CharOfGroup(data, g, k)
  OBVIOUS
<1>7. c = IF k > 1 /\ 3 * g + k > n THEN 64
          ELSE IF k = 0 THEN x \div 4
          ELSE IF k = 1 THEN (x % 4) * 16 + (y \div 16)
          ELSE IF k = 2 THEN (y % 16) * 4 + (z \div 64)
          ELSE z % 64
  BY <1>1, <1>3, <1>6 DEF CharOfGroup, FirstChar, SecondChar, ThirdChar, FourthChar
<1>8. Base64Text(data)[j] = c
  <2>1. PICK i : i = 6 * (j - 1)
    OBVIOUS
  <2>2. Base64Text(data)[j] = IF i >= 8 * n THEN 64 ELSE SixBitsFrom(data, i)
    BY <1>1, <2>1 DEF Base64Text, Tool!Pad
  <2>3. /\ k = 0 => i = 24 * g
        /\ k = 1 => i = 24 * g + 6
        /\ k = 2 => i = 24 * g + 12
        /\ k = 3 => i = 24 * g + 18
    BY <1>2, <2>1
  <2>4. i >= 8 * n <=> k > 1 /\ 3 * g + k > n
    BY <1>2, <2>1
  <2> QED BY ONLY <1>4, <1>5, <1>7, <2>2, <2>3, <2>4
<1>9. Tool!base64_encode(data)[j] = c
  <2>1. PICK w : w = x * 65536 + y * 256 + z
    OBVIOUS
  <2>2. Packed(x, y, z, w)
    BY <1>4, <2>1 DEF Byte, Packed
  <2>3. PICK v : v = <<262144, 4096, 64, 1>>[k + 1]
    OBVIOUS
  <2>4. Tool!base64_encode(data)[j] = IF k > 1 /\ 3 * g + k > n THEN 64 ELSE (w \div v) % 64
    BY <1>1, <1>2, <1>3, <2>1, <2>3 DEF Tool!base64_encode, Tool!Pad, ByteOrZero
  <2>5. /\ k = 0 => v = 262144
        /\ k = 1 => v = 4096
        /\ k = 2 => v = 64
        /\ k = 3 => v = 1
    BY <1>5, <2>3
  <2>6. /\ (w \div 262144) % 64 = x \div 4
        /\ (w \div 4096) % 64 = (x % 4) * 16 + (y \div 16)
        /\ (w \div 64) % 64 = (y % 16) * 4 + (z \div 64)
        /\ (w \div 1) % 64 = z % 64
    BY <1>4, <2>2, GroupShifts
  <2> QED BY ONLY <1>5, <1>7, <2>4, <2>5, <2>6
<1> QED BY <1>2, <1>6, <1>8, <1>9

(* base64_encode is the encoding of the standard. *)
LEMMA EncodeIsStandard ==
    ASSUME NEW data \in Seq(Byte)
    PROVE  /\ Tool!base64_encode(data) = Base64Text(data)
           /\ Base64Text(data) \in Seq(0..Tool!Pad) /\ Base64Text(data) \in Seq(Character)
           /\ Len(Base64Text(data)) = 4 * ((Len(data) + 2) \div 3)
<1>1. PICK m \in Nat : m = 4 * ((Len(data) + 2) \div 3)
  OBVIOUS
<1> DEFINE char(j) == CharOfGroup(data, (j - 1) \div 4, (j - 1) % 4)
<1>2. \A j \in 1..m : Base64Text(data)[j] = char(j) /\ Tool!base64_encode(data)[j] = char(j)
  BY <1>1, TextByGroups
<1>3. \A j \in 1..m : char(j) \in 0..Tool!Pad
  <2>1. ASSUME NEW j \in 1..m PROVE (j - 1) \div 4 \in Nat /\ (j - 1) % 4 \in 0..3
    <3>1. j - 1 \in Nat
      OBVIOUS
    <3> QED BY <3>1
  <2> QED BY <2>1, CharIsCharacter
<1> HIDE DEF char
<1>4. Base64Text(data) = [j \in 1..m |-> Base64Text(data)[j]]
  BY <1>1 DEF Base64Text
<1>5. Tool!base64_encode(data) = [j \in 1..m |-> Tool!base64_encode(data)[j]]
  BY <1>1 DEF Tool!base64_encode
<1>6. Base64Text(data) = [j \in 1..m |-> char(j)] /\ Tool!base64_encode(data) = [j \in 1..m |-> char(j)]
  BY <1>2, <1>4, <1>5
<1>7. 0..Tool!Pad \subseteq Character
  BY DEF Tool!Pad, Tool!Junk, Character
<1>8. /\ [j \in 1..m |-> char(j)] \in Seq(0..Tool!Pad)
      /\ [j \in 1..m |-> char(j)] \in Seq(Character) /\ Len([j \in 1..m |-> char(j)]) = m
  BY <1>3, <1>7
<1> QED BY <1>1, <1>6, <1>8

-----------------------------------------------------------------------------
(* Decoding what was encoded                                               *)

(* A state in which whole groups are decoded, and these bytes came out. *)
Whole(s, o) == s \in DecodeState /\ s.over = FALSE /\ s.bits = 0 /\ s.out = o

LEMMA DecodeSixBits ==
    ASSUME NEW s \in DecodeState, s.over = FALSE, NEW v \in 0..63
    PROVE  SixMoreAre(s, v, Tool!DecodeChar(s, v))
<1>1. Tool!DecodeChar(s, v) = Tool!SixBits(s, v)
  BY DEF Tool!DecodeChar, Tool!Pad, Tool!Junk
<1> QED BY <1>1, SixMore

LEMMA DecodePad ==
    ASSUME NEW s \in DecodeState
    PROVE  Tool!DecodeChar(s, 64) \in DecodeState /\ Tool!DecodeChar(s, 64).out = s.out
<1>1. Tool!DecodeChar(s, 64) = [s EXCEPT !.over = TRUE]
  BY DEF Tool!DecodeChar, Tool!Pad
<1> QED BY <1>1 DEF DecodeState

(* Inside a group: these bytes came out, and the upper bits of the next    *)
(* byte are waiting.                                                       *)
FourBitsLeft(s, o, y) ==
    s \in DecodeState /\ s.over = FALSE /\ s.bits = 4 /\ s.out = o /\ s.accum % 16 = y \div 16

TwoBitsLeft(s, o, z) ==
    s \in DecodeState /\ s.over = FALSE /\ s.bits = 2 /\ s.out = o /\ s.accum % 4 = z \div 64

(* The first two characters of a group give its first byte. *)
LEMMA DecodeTwo ==
    ASSUME NEW s, NEW o, Whole(s, o), NEW x \in Byte, NEW y \in Byte,
           NEW s1, s1 = Tool!DecodeChar(s, FirstChar(x))
    PROVE  s1 \in DecodeState /\ FourBitsLeft(Tool!DecodeChar(s1, SecondChar(x, y)), Append(o, x), y)
<1>1. PICK v \in 0..63 : v = FirstChar(x) /\ v = x \div 4
  BY DEF Byte, FirstChar
<1>2. PICK u \in 0..63 : u = SecondChar(x, y) /\ u = (x % 4) * 16 + (y \div 16)
  BY DEF Byte, SecondChar
<1>3. SixMoreAre(s, v, s1)
  BY <1>1, DecodeSixBits DEF Whole
<1>4. s1 \in DecodeState /\ s1.over = FALSE /\ s1.bits = 6 /\ s1.out = o /\ s1.accum % 64 = v
  BY <1>3 DEF Whole, SixMoreAre
<1>5. PICK s2 : s2 = Tool!DecodeChar(s1, u)
  OBVIOUS
<1>6. SixMoreAre(s1, u, s2)
  BY <1>4, <1>5, DecodeSixBits
<1>7. /\ s2 \in DecodeState /\ s2.over = FALSE /\ s2.bits = 4
      /\ s2.out = Append(o, v * 4 + (u \div 16)) /\ s2.accum % 16 = u % 16
  BY <1>4, <1>6 DEF SixMoreAre
<1>8. v * 4 + (u \div 16) = x /\ u % 16 = y \div 16
  BY <1>1, <1>2 DEF Byte
<1>9. FourBitsLeft(s2, Append(o, x), y)
  BY <1>7, <1>8 DEF FourBitsLeft
<1> QED BY <1>2, <1>4, <1>5, <1>9

LEMMA DecodeThree ==
    ASSUME NEW y \in Byte, NEW z \in Byte, NEW s, NEW o, FourBitsLeft(s, o, y)
    PROVE  TwoBitsLeft(Tool!DecodeChar(s, ThirdChar(y, z)), Append(o, y), z)
<1>1. PICK v \in 0..63 : v = ThirdChar(y, z) /\ v = (y % 16) * 4 + (z \div 64)
  BY DEF Byte, ThirdChar
<1>2. PICK s3 : s3 = Tool!DecodeChar(s, v)
  OBVIOUS
<1>3. SixMoreAre(s, v, s3)
  BY <1>2, DecodeSixBits DEF FourBitsLeft
<1>4. /\ s3 \in DecodeState /\ s3.over = FALSE /\ s3.bits = 2
      /\ s3.out = Append(o, (y \div 16) * 16 + (v \div 4)) /\ s3.accum % 4 = v % 4
  BY <1>3 DEF SixMoreAre, FourBitsLeft
<1>5. (y \div 16) * 16 + (v \div 4) = y /\ v % 4 = z \div 64
  BY <1>1 DEF Byte
<1>6. TwoBitsLeft(s3, Append(o, y), z)
  BY <1>4, <1>5 DEF TwoBitsLeft
<1> QED BY <1>1, <1>2, <1>6

LEMMA DecodeFour ==
    ASSUME NEW z \in Byte, NEW s, NEW o, TwoBitsLeft(s, o, z)
    PROVE  Whole(Tool!DecodeChar(s, FourthChar(z)), Append(o, z))
<1>1. PICK v \in 0..63 : v = FourthChar(z) /\ v = z % 64
  BY DEF Byte, FourthChar
<1>2. PICK s4 : s4 = Tool!DecodeChar(s, v)
  OBVIOUS
<1>3. SixMoreAre(s, v, s4)
  BY <1>2, DecodeSixBits DEF TwoBitsLeft
<1>4. /\ s4 \in DecodeState /\ s4.over = FALSE /\ s4.bits = 0
      /\ s4.out = Append(o, (z \div 64) * 64 + v)
  BY <1>3 DEF SixMoreAre, TwoBitsLeft
<1>5. (z \div 64) * 64 + v = z
  BY <1>1 DEF Byte
<1>6. Whole(s4, Append(o, z))
  BY <1>4, <1>5 DEF Whole
<1> QED BY <1>1, <1>2, <1>6

(* A whole group, and the two ways in which the last one can be short. *)
AfterGroup(s, c, d) == Tool!DecodeChar(Tool!DecodeChar(s, c), d)

LEMMA DecodeGroup ==
    ASSUME NEW s, NEW o, Whole(s, o), NEW x \in Byte, NEW y \in Byte, NEW z \in Byte,
           NEW s2, s2 = AfterGroup(s, FirstChar(x), SecondChar(x, y))
    PROVE  /\ Whole(AfterGroup(s2, ThirdChar(y, z), FourthChar(z)),
                    Append(Append(Append(o, x), y), z))
           /\ /\ AfterGroup(s2, ThirdChar(y, z), 64) \in DecodeState
              /\ AfterGroup(s2, ThirdChar(y, z), 64).out = Append(Append(o, x), y)
           /\ AfterGroup(s2, 64, 64) \in DecodeState /\ AfterGroup(s2, 64, 64).out = Append(o, x)
<1>1. FourBitsLeft(s2, Append(o, x), y)
  BY DecodeTwo DEF AfterGroup
<1>2. PICK s3 : s3 = Tool!DecodeChar(s2, ThirdChar(y, z))
  OBVIOUS
<1>3. TwoBitsLeft(s3, Append(Append(o, x), y), z)
  BY <1>1, <1>2, DecodeThree
<1>4. Whole(Tool!DecodeChar(s3, FourthChar(z)), Append(Append(Append(o, x), y), z))
  BY <1>3, DecodeFour
<1>5. /\ Tool!DecodeChar(s3, 64) \in DecodeState
      /\ Tool!DecodeChar(s3, 64).out = Append(Append(o, x), y)
  BY <1>3, DecodePad DEF TwoBitsLeft
<1>6. PICK p3 : p3 = Tool!DecodeChar(s2, 64)
  OBVIOUS
<1>7. p3 \in DecodeState /\ p3.out = Append(o, x)
  BY <1>1, <1>6, DecodePad DEF FourBitsLeft
<1>8. Tool!DecodeChar(p3, 64) \in DecodeState /\ Tool!DecodeChar(p3, 64).out = Append(o, x)
  BY <1>7, DecodePad
<1> QED BY <1>2, <1>4, <1>5, <1>6, <1>8 DEF AfterGroup

LEMMA SubSeqGrows ==
    ASSUME NEW data \in Seq(Byte), NEW k \in Nat, k < Len(data)
    PROVE  SubSeq(data, 1, k + 1) = Append(SubSeq(data, 1, k), data[k + 1])
<1>1. PICK n \in Nat : n = Len(data)
  OBVIOUS
<1>2. PICK a : a = SubSeq(data, 1, k + 1)
  OBVIOUS
<1>3. PICK b : b = SubSeq(data, 1, k)
  OBVIOUS
<1>4. a \in Seq(Byte) /\ Len(a) = k + 1 /\ \A i \in 1..k + 1 : a[i] = data[i]
  BY <1>1, <1>2
<1>5. b \in Seq(Byte) /\ Len(b) = k /\ \A i \in 1..k : b[i] = data[i]
  BY <1>1, <1>3
<1>6. PICK c : c = Append(b, data[k + 1])
  OBVIOUS
<1>7. /\ c \in Seq(Byte) /\ Len(c) = k + 1
      /\ \A i \in 1..k : c[i] = b[i]
      /\ c[k + 1] = data[k + 1]
  <2>1. data[k + 1] \in Byte
    BY <1>1
  <2> QED BY <1>5, <1>6, <2>1
<1>8. \A i \in 1..k + 1 : i \in 1..k \/ i = k + 1
  OBVIOUS
<1>9. \A i \in 1..k + 1 : a[i] = c[i]
  BY <1>4, <1>5, <1>7, <1>8
<1>10. a = c
  BY <1>4, <1>7, <1>9, SeqEqual
<1> QED BY <1>2, <1>3, <1>6, <1>10

LEMMA SubSeqEnds ==
    ASSUME NEW data \in Seq(Byte)
    PROVE  SubSeq(data, 1, 0) = << >> /\ SubSeq(data, 1, Len(data)) = data
<1>1. SubSeq(data, 1, 0) = << >>
  OBVIOUS
<1>2. PICK a : a = SubSeq(data, 1, Len(data))
  OBVIOUS
<1>3. a \in Seq(Byte) /\ Len(a) = Len(data) /\ \A i \in 1..Len(data) : a[i] = data[i]
  BY <1>2
<1>4. a = data
  BY <1>3, SeqEqual
<1> QED BY <1>1, <1>2, <1>4

(* The state after g groups of the text. *)
AfterGroups(t, g) == IF g = 0 THEN Tool!DecodeStart ELSE t[4 * g]

(* All whole groups were decoded; at the end, all bytes. *)
GroupsDone(t, data, g) ==
    IF 3 * g <= Len(data) THEN Whole(AfterGroups(t, g), SubSeq(data, 1, 3 * g))
                          ELSE t[4 * g] \in DecodeState /\ t[4 * g].out = data

LEMMA NextGroup ==
    ASSUME NEW data \in Seq(Byte), NEW t, Decodes(t, Base64Text(data)), NEW g \in Nat,
           g < (Len(data) + 2) \div 3, GroupsDone(t, data, g)
    PROVE  GroupsDone(t, data, g + 1)
<1>1. PICK n \in Nat : n = Len(data)
  OBVIOUS
<1>2. PICK m \in Nat : m = (n + 2) \div 3 /\ 3 * m <= n + 2 /\ g < m
  BY <1>1
<1>3. 3 * g < n /\ 3 * g \in Nat /\ 3 * g + 1 \in Nat /\ 3 * g + 2 \in Nat
  BY <1>2
<1>4. PICK s : s = AfterGroups(t, g)
  OBVIOUS
<1>5. PICK o : o = SubSeq(data, 1, 3 * g)
  OBVIOUS
<1>6. Whole(s, o)
  BY <1>1, <1>3, <1>4, <1>5 DEF GroupsDone
<1>7. PICK x, y, z : /\ x = ByteOrZero(data, 3 * g + 1) /\ y = ByteOrZero(data, 3 * g + 2)
                     /\ z = ByteOrZero(data, 3 * g + 3)
  OBVIOUS
<1>8. x \in Byte /\ y \in Byte /\ z \in Byte
  BY <1>7, GroupOfText
<1>9. PICK chars : chars = Base64Text(data)
  OBVIOUS
<1>10. /\ chars[4 * g + 1] = CharOfGroup(data, g, 0) /\ chars[4 * g + 2] = CharOfGroup(data, g, 1)
       /\ chars[4 * g + 3] = CharOfGroup(data, g, 2) /\ chars[4 * g + 4] = CharOfGroup(data, g, 3)
  <2>1. /\ 4 * g + 1 \in 1..4 * m /\ 4 * g + 2 \in 1..4 * m
        /\ 4 * g + 3 \in 1..4 * m /\ 4 * g + 4 \in 1..4 * m
    BY <1>2
  <2>2. /\ ((4 * g + 1) - 1) \div 4 = g /\ ((4 * g + 1) - 1) % 4 = 0
        /\ ((4 * g + 2) - 1) \div 4 = g /\ ((4 * g + 2) - 1) % 4 = 1
        /\ ((4 * g + 3) - 1) \div 4 = g /\ ((4 * g + 3) - 1) % 4 = 2
        /\ ((4 * g + 4) - 1) \div 4 = g /\ ((4 * g + 4) - 1) % 4 = 3
    OBVIOUS
  <2>3. \A j \in 1..4 * m : chars[j] = CharOfGroup(data, (j - 1) \div 4, (j - 1) % 4)
    BY <1>1, <1>2, <1>9, TextByGroups
  <2>4. chars[4 * g + 1] = CharOfGroup(data, g, 0)
    BY <2>1, <2>2, <2>3
  <2>5. chars[4 * g + 2] = CharOfGroup(data, g, 1)
    BY <2>1, <2>2, <2>3
  <2>6. chars[4 * g + 3] = CharOfGroup(data, g, 2)
    BY <2>1, <2>2, <2>3
  <2>7. chars[4 * g + 4] = CharOfGroup(data, g, 3)
    BY <2>1, <2>2, <2>3
  <2> QED BY <2>4, <2>5, <2>6, <2>7
<1>11. /\ chars[4 * g + 1] = FirstChar(x) /\ chars[4 * g + 2] = SecondChar(x, y)
       /\ chars[4 * g + 3] = IF 3 * g + 2 > n THEN 64 ELSE ThirdChar(y, z)
       /\ chars[4 * g + 4] = IF 3 * g + 3 > n THEN 64 ELSE FourthChar(z)
  BY <1>1, <1>7, <1>10 DEF CharOfGroup
<1>12. PICK s2 : s2 = AfterGroup(s, FirstChar(x), SecondChar(x, y))
  OBVIOUS
<1>13. t[4 * g + 4] = AfterGroup(s2, chars[4 * g + 3], chars[4 * g + 4])
  <2>1. Len(chars) = 4 * m
    BY <1>1, <1>2, <1>9, EncodeIsStandard
  <2>2. \A i \in 1..4 * m :
           t[i] = Tool!DecodeChar(IF i = 1 THEN Tool!DecodeStart ELSE t[i - 1], chars[i])
    BY <1>9, <2>1 DEF Decodes
  <2>3. /\ 4 * g + 1 \in 1..4 * m /\ 4 * g + 2 \in 1..4 * m
        /\ 4 * g + 3 \in 1..4 * m /\ 4 * g + 4 \in 1..4 * m
        /\ (4 * g + 1) - 1 = 4 * g /\ (4 * g + 2) - 1 = 4 * g + 1
        /\ (4 * g + 3) - 1 = 4 * g + 2 /\ (4 * g + 4) - 1 = 4 * g + 3
        /\ 4 * g + 2 # 1 /\ 4 * g + 3 # 1 /\ 4 * g + 4 # 1
        /\ 4 * g + 1 = 1 <=> g = 0
    BY <1>2
  <2>4. t[4 * g + 1] = Tool!DecodeChar(s, FirstChar(x))
    BY <1>4, <1>11, <2>2, <2>3 DEF AfterGroups
  <2>5. t[4 * g + 2] = Tool!DecodeChar(t[4 * g + 1], SecondChar(x, y))
    BY <1>11, <2>2, <2>3
  <2>6. t[4 * g + 3] = Tool!DecodeChar(t[4 * g + 2], chars[4 * g + 3])
    BY <2>2, <2>3
  <2>7. t[4 * g + 4] = Tool!DecodeChar(t[4 * g + 3], chars[4 * g + 4])
    BY <2>2, <2>3
  <2> QED BY <1>12, <2>4, <2>5, <2>6, <2>7 DEF AfterGroup
<1>14. PICK u : u = t[4 * g + 4]
  OBVIOUS
<1>15. AfterGroups(t, g + 1) = u /\ t[4 * (g + 1)] = u
  <2>1. 4 * (g + 1) = 4 * g + 4 /\ g + 1 # 0
    OBVIOUS
  <2> QED BY <1>14, <2>1 DEF AfterGroups
<1>16. x = data[3 * g + 1] /\ SubSeq(data, 1, 3 * g + 1) = Append(o, x)
  <2>1. 3 * g + 1 <= n
    BY <1>1, <1>3
  <2> QED BY <1>1, <1>3, <1>5, <1>7, <2>1, SubSeqGrows DEF ByteOrZero
<1>17. ASSUME 3 * g + 2 <= n PROVE SubSeq(data, 1, 3 * g + 2) = Append(Append(o, x), y)
  <2>1. 3 * g + 1 < n /\ (3 * g + 1) + 1 = 3 * g + 2
    BY <1>1, <1>3, <1>17
  <2>2. y = data[3 * g + 2]
    BY <1>1, <1>7, <1>17 DEF ByteOrZero
  <2> QED BY <1>1, <1>3, <1>16, <2>1, <2>2, SubSeqGrows
<1>18. CASE 3 * g + 3 <= n
  <2>1. 3 * g + 2 < n /\ (3 * g + 2) + 1 = 3 * g + 3 /\ 3 * g + 2 <= n /\ 3 * (g + 1) = 3 * g + 3
    BY <1>1, <1>3, <1>18
  <2>2. z = data[3 * g + 3]
    BY <1>1, <1>7, <1>18 DEF ByteOrZero
  <2>3. SubSeq(data, 1, 3 * g + 3) = Append(Append(Append(o, x), y), z)
    BY <1>1, <1>3, <1>17, <2>1, <2>2, SubSeqGrows
  <2>4. chars[4 * g + 3] = ThirdChar(y, z) /\ chars[4 * g + 4] = FourthChar(z)
    BY <1>11, <1>18, <2>1
  <2>5. Whole(u, Append(Append(Append(o, x), y), z))
    BY <1>6, <1>8, <1>12, <1>13, <1>14, <2>4, DecodeGroup
  <2> QED BY <1>1, <1>15, <1>18, <2>1, <2>3, <2>5 DEF GroupsDone
<1>19. CASE 3 * g + 2 = n
  <2>1. /\ ~(3 * (g + 1) <= n) /\ 3 * g + 3 > n /\ ~(3 * g + 2 > n) /\ 3 * g + 2 <= n
    BY <1>1, <1>19
  <2>2. data = Append(Append(o, x), y)
    BY <1>1, <1>17, <1>19, <2>1, SubSeqEnds
  <2>3. chars[4 * g + 3] = ThirdChar(y, z) /\ chars[4 * g + 4] = 64
    BY <1>11, <2>1
  <2>4. u \in DecodeState /\ u.out = Append(Append(o, x), y)
    BY <1>6, <1>8, <1>12, <1>13, <1>14, <2>3, DecodeGroup
  <2> QED BY <1>1, <1>15, <2>1, <2>2, <2>4 DEF GroupsDone
<1>20. CASE 3 * g + 1 = n
  <2>1. /\ ~(3 * (g + 1) <= n) /\ 3 * g + 3 > n /\ 3 * g + 2 > n
    BY <1>1, <1>20
  <2>2. data = Append(o, x)
    BY <1>1, <1>16, <1>20, SubSeqEnds
  <2>3. chars[4 * g + 3] = 64 /\ chars[4 * g + 4] = 64
    BY <1>11, <2>1
  <2>4. u \in DecodeState /\ u.out = Append(o, x)
    BY <1>6, <1>8, <1>12, <1>13, <1>14, <2>3, DecodeGroup
  <2> QED BY <1>1, <1>15, <2>1, <2>2, <2>4 DEF GroupsDone
<1> QED BY <1>1, <1>3, <1>18, <1>19, <1>20

(* Base64 loses nothing, whatever the length of the data. *)
LEMMA DecodeOfText ==
    ASSUME NEW data \in Seq(Byte)
    PROVE  Tool!base64_decode(Base64Text(data)) = data
<1>1. PICK n \in Nat : n = Len(data)
  OBVIOUS
<1>2. PICK m \in Nat : m = (n + 2) \div 3 /\ n <= 3 * m
  BY <1>1
<1>3. PICK chars : chars = Base64Text(data)
  OBVIOUS
<1>4. chars \in Seq(Character) /\ Len(chars) = 4 * m
  BY <1>1, <1>2, <1>3, EncodeIsStandard
<1>5. PICK t : t = Tool!Decoding(chars)
  OBVIOUS
<1>6. Decodes(t, chars)
  BY <1>4, <1>5, DecodingStep
<1>7. GroupsDone(t, data, m)
  <2> DEFINE S == {k \in Nat : GroupsDone(t, data, k - 1)}
  <2>1. PICK h \in Nat : h = m + 1
    OBVIOUS
  <2>2. 1 \in S
    <3>1. 1 - 1 = 0 /\ 3 * 0 = 0 /\ 0 <= n
      OBVIOUS
    <3>2. Whole(AfterGroups(t, 0), SubSeq(data, 1, 0))
      BY SubSeqEnds, DecodeStartType DEF AfterGroups, Whole
    <3>3. GroupsDone(t, data, 1 - 1)
      BY <1>1, <3>1, <3>2 DEF GroupsDone
    <3> QED BY <3>3
  <2>3. ASSUME NEW k \in 1..h - 1, k \in S PROVE k + 1 \in S
    <3>1. PICK g \in Nat : k = g + 1 /\ g < m
      BY <1>2, <2>1
    <3>2. k - 1 = g /\ (k + 1) - 1 = g + 1 /\ k + 1 \in Nat
      BY <3>1
    <3>3. GroupsDone(t, data, g)
      BY <2>3, <3>2
    <3>4. GroupsDone(t, data, g + 1)
      BY <1>1, <1>2, <1>3, <1>6, <3>1, <3>3, NextGroup
    <3> QED BY <3>2, <3>4
  <2> HIDE DEF S
  <2>4. \A k \in 1..h : k \in S
    BY <2>2, <2>3, UpTo
  <2>5. h \in S /\ h - 1 = m
    BY <2>1, <2>4
  <2> QED BY <2>5 DEF S
<1>8. CASE m = 0
  <2>1. n = 0 /\ Len(chars) = 0
    BY <1>2, <1>4, <1>8
  <2>2. data = << >> /\ chars = << >>
    BY <1>1, <1>4, <2>1, EmptySeq
  <2> QED BY <1>3, <2>2 DEF Tool!base64_decode
<1>9. CASE m # 0
  <2>1. chars # << >>
    BY <1>4, <1>9, EmptySeq
  <2>2. Tool!base64_decode(chars) = t[4 * m].out
    BY <1>4, <1>5, <2>1 DEF Tool!base64_decode
  <2>3. t[4 * m].out = data
    <3>1. CASE 3 * m <= n
      <4>1. 3 * m = n
        BY <1>2, <3>1
      <4>2. Whole(t[4 * m], SubSeq(data, 1, 3 * m))
        BY <1>1, <1>7, <1>9, <3>1 DEF GroupsDone, AfterGroups
      <4> QED BY <1>1, <4>1, <4>2, SubSeqEnds DEF Whole
    <3>2. CASE ~(3 * m <= n)
      BY <1>1, <1>7, <3>2 DEF GroupsDone
    <3> QED BY <3>1, <3>2
  <2> QED BY <1>3, <2>2, <2>3
<1> QED BY <1>8, <1>9

-----------------------------------------------------------------------------
(* From JSON to a frame and on to a message                                *)

Good(items) == {n \in 0..Len(items) : \A i \in 1..n : items[i] \in Byte}

LEMMA LongestGood ==
    ASSUME NEW S, NEW items \in Seq(S)
    PROVE  \E n \in Good(items) : \A k \in Good(items) : k <= n
<1>1. PICK l \in Nat : l = Len(items)
  OBVIOUS
<1> DEFINE T == {d \in Nat : d <= l /\ l - d \in Good(items)}
<1>2. 0 \in Good(items)
  BY <1>1 DEF Good
<1>3. l \in T
  BY <1>1, <1>2
<1>4. T \subseteq Nat
  OBVIOUS
<1>5. PICK x \in T : \A y \in T : ~(<<y, x>> \in OpToRel(<, Nat))
  <2> HIDE DEF T
  <2> QED BY <1>3, <1>4, NatLessThanWellFounded, WFMin
<1>6. x \in Nat /\ x <= l /\ l - x \in Good(items)
  BY <1>5
<1>7. ASSUME NEW k \in Good(items) PROVE k <= l - x
  <2>1. k \in Nat /\ k <= l
    BY <1>1 DEF Good
  <2>2. PICK y : y = l - k
    OBVIOUS
  <2>3. y \in Nat /\ y <= l /\ l - y = k
    BY <1>1, <2>1, <2>2
  <2>4. y \in T
    BY <1>7, <2>3
  <2>5. ~(y < x)
    <3> HIDE DEF T
    <3> QED BY <1>5, <1>6, <2>3, <2>4 DEF OpToRel
  <2> QED BY <1>6, <2>1, <2>3, <2>5
<1> QED BY <1>6, <1>7

LEMMA GoodPrefixIsPrefix ==
    ASSUME NEW items \in Seq(Number)
    PROVE  /\ Tool!GoodPrefix(items) \in Seq(Byte)
           /\ IsPrefix(Tool!GoodPrefix(items), items)
<1>1. PICK l \in Nat : l = Len(items)
  OBVIOUS
<1>2. PICK n : n = CHOOSE g \in Good(items) : \A k \in Good(items) : k <= g
  OBVIOUS
<1>3. n \in Good(items)
  BY <1>1, <1>2, LongestGood
<1>4. Tool!GoodPrefix(items) = SubSeq(items, 1, n)
  BY <1>2 DEF Tool!GoodPrefix, Good, Byte
<1>5. n \in Nat /\ n <= l /\ \A i \in 1..n : items[i] \in Byte
  BY <1>1, <1>3 DEF Good
<1>6. PICK a : a = SubSeq(items, 1, n)
  OBVIOUS
<1>7. /\ a \in Seq(Number) /\ Len(a) = n
      /\ \A i \in 1..n : a[i] = items[i]
  BY <1>1, <1>5, <1>6
<1>8. a \in Seq(Byte)
  <2>1. a = [i \in 1..n |-> a[i]]
    BY <1>7
  <2> QED BY <1>5, <1>7, <2>1
<1>9. a = SubSeq(items, 1, Len(a)) /\ SubSeq(a, 1, Len(a)) = a /\ Len(a) <= Len(items)
  BY <1>1, <1>5, <1>6, <1>7, <1>8, SubSeqEnds
<1> QED BY <1>4, <1>6, <1>8, <1>9 DEF IsPrefix

LEMMA GoodPrefixOfBytes ==
    ASSUME NEW items \in Seq(Byte)
    PROVE  Tool!GoodPrefix(items) = items
<1>1. PICK l \in Nat : l = Len(items)
  OBVIOUS
<1>2. PICK n : n = CHOOSE g \in Good(items) : \A k \in Good(items) : k <= g
  OBVIOUS
<1>3. n \in Good(items) /\ \A k \in Good(items) : k <= n
  BY <1>1, <1>2, LongestGood
<1>4. Tool!GoodPrefix(items) = SubSeq(items, 1, n)
  BY <1>2 DEF Tool!GoodPrefix, Good, Byte
<1>5. l \in Good(items)
  BY <1>1 DEF Good
<1>6. n = l
  BY <1>1, <1>3, <1>5 DEF Good
<1> QED BY <1>1, <1>4, <1>6, SubSeqEnds

(* What extract_ finds *)
Json == [id : Number, data : DataField, ct : Number, checksum : Number]

LEMMA ExtractedBytes ==
    ASSUME NEW field \in DataField
    PROVE  Tool!extract_bytes(field) \in Seq(Byte)
<1>1. \/ field.form \in {"none", "array"} /\ field.items \in Seq(Number)
      \/ field.form = "text" /\ field.items \in Seq(Character)
  BY DEF DataField
<1>2. CASE field.form = "none"
  BY <1>2 DEF Tool!extract_bytes
<1>3. CASE field.form = "array" /\ field.items \in Seq(Number)
  BY <1>3, GoodPrefixIsPrefix DEF Tool!extract_bytes
<1>4. CASE field.form = "text" /\ field.items \in Seq(Character)
  BY <1>4, DecodedBytes DEF Tool!extract_bytes
<1> QED BY <1>1, <1>2, <1>3, <1>4

LEMMA CastToByte ==
    ASSUME NEW x \in Nat
    PROVE  x % 256 \in 0..255 /\ (x <= 255 => x % 256 = x)
OBVIOUS

LEMMA ParsedIsFrame ==
    ASSUME NEW json \in Json, json.id # Tool!NoNumber
    PROVE  /\ Tool!parse_frame_json(json) \in Tool!Frames
           /\ json.id <= 255 => Tool!parse_frame_json(json).id = json.id
<1>1. json.id \in Nat /\ json.data \in DataField
  BY DEF Json, Number
<1>2. PICK d \in Seq(Byte) : d = Tool!extract_bytes(json.data)
  BY <1>1, ExtractedBytes
<1>3. PICK i \in 0..255 : i = json.id % 256 /\ (json.id <= 255 => i = json.id)
  BY <1>1, CastToByte
<1>4. PICK c \in {"classic", "enhanced"} : c = IF json.ct = 1 THEN "enhanced" ELSE "classic"
  OBVIOUS
<1>5. PICK s \in 0..255 : s = IF json.checksum = Tool!NoNumber THEN 0 ELSE json.checksum % 256
  <2>1. json.checksum \in Nat \/ json.checksum = Tool!NoNumber
    BY DEF Json, Number
  <2>2. CASE json.checksum = Tool!NoNumber
    BY <2>2
  <2>3. CASE json.checksum \in Nat /\ json.checksum # Tool!NoNumber
    BY <2>3, CastToByte
  <2> QED BY <2>1, <2>2, <2>3
<1>6. Tool!parse_frame_json(json) = [id |-> i, data |-> d, ct |-> c, checksum |-> s]
  BY <1>2, <1>3, <1>4, <1>5 DEF Tool!parse_frame_json
<1> QED BY <1>3, <1>6 DEF Tool!Frames, Byte

(* The tool reads a logged frame as it was written down. *)
LEMMA ParseOfLogged ==
    ASSUME NEW f \in Tool!Frames, NEW form \in {"text", "array"}
    PROVE  /\ FrameJson(f, form) \in Json /\ FrameJson(f, form).id # Tool!NoNumber
           /\ Tool!parse_frame_json(FrameJson(f, form)) = f
<1>1. PICK i \in 0..255, d \in Seq(Byte), c \in {"classic", "enhanced"}, s \in 0..255 :
         f = [id |-> i, data |-> d, ct |-> c, checksum |-> s]
  <2>1. f.id \in 0..255 /\ f.data \in Seq(Byte) /\ f.ct \in {"classic", "enhanced"} /\ f.checksum \in 0..255
    BY DEF Tool!Frames, Byte
  <2>2. f = [id |-> f.id, data |-> f.data, ct |-> f.ct, checksum |-> f.checksum]
    BY DEF Tool!Frames
  <2> QED BY <2>1, <2>2
<1>2. PICK items : items = IF form = "text" THEN Base64Text(d) ELSE d
  OBVIOUS
<1>3. PICK k \in {0, 1} : k = IF c = "enhanced" THEN 1 ELSE 0
  OBVIOUS
<1>4. PICK field : field = [form |-> form, items |-> items]
  OBVIOUS
<1>5. PICK json : json = [id |-> i, data |-> field, ct |-> k, checksum |-> s]
  OBVIOUS
<1>6. json = FrameJson(f, form)
  BY <1>1, <1>2, <1>3, <1>4, <1>5 DEF FrameJson
<1>7. d \in Seq(Number)
  <2>1. \A j \in 1..Len(d) : d[j] \in Number
    <3>1. \A b \in Byte : b \in Number
      BY DEF Byte, Number
    <3> QED BY <3>1
  <2> QED BY <2>1
<1>8. field \in DataField /\ Tool!extract_bytes(field) = d
  <2>1. CASE form = "text"
    <3>1. items = Base64Text(d) /\ items \in Seq(Character)
      BY <1>2, <2>1, EncodeIsStandard
    <3>2. Tool!extract_bytes(field) = Tool!base64_decode(items)
      BY <1>4, <2>1 DEF Tool!extract_bytes
    <3>3. Tool!extract_bytes(field) = d
      BY <3>1, <3>2, DecodeOfText
    <3>4. field \in DataField
      BY <1>4, <2>1, <3>1 DEF DataField
    <3> QED BY <3>3, <3>4
  <2>2. CASE form = "array"
    <3>1. items = d
      BY <1>2, <2>2
    <3>2. Tool!extract_bytes(field) = Tool!GoodPrefix(items)
      BY <1>4, <2>2 DEF Tool!extract_bytes
    <3>3. Tool!extract_bytes(field) = d
      BY <3>1, <3>2, GoodPrefixOfBytes
    <3>4. field \in DataField
      BY <1>4, <1>7, <2>2, <3>1 DEF DataField
    <3> QED BY <3>3, <3>4
  <2> QED BY <2>1, <2>2
<1>9. i \in Nat /\ k \in Nat /\ s \in Nat /\ i % 256 = i /\ s % 256 = s /\ i # -1 /\ s # -1
  OBVIOUS
<1>10. json \in Json /\ json.id # Tool!NoNumber
  BY <1>5, <1>8, <1>9 DEF Json, Number, Tool!NoNumber
<1>11. Tool!parse_frame_json(json) = [id |-> i, data |-> d, ct |-> c, checksum |-> s]
  BY <1>3, <1>5, <1>8, <1>9 DEF Tool!parse_frame_json, Tool!NoNumber
<1> QED BY <1>1, <1>6, <1>10, <1>11

(* A sender gets back from a printed message what was in the frame. *)
LEMMA MessageOfFrame ==
    ASSUME NEW f \in Tool!Frames
    PROVE  /\ Tool!from_message(Tool!PrintMessage(f)) = f
           /\ Tool!PrintMessage(f) = [id |-> f.id, payload |-> Base64Text(f.data), ct |-> f.ct,
                                      checksum |-> f.checksum]
           /\ Tool!PrintMessage(f).payload \in Seq(0..Tool!Pad)
<1>1. PICK i \in 0..255, d \in Seq(Byte), c \in {"classic", "enhanced"}, s \in 0..255 :
         f = [id |-> i, data |-> d, ct |-> c, checksum |-> s]
  <2>1. f.id \in 0..255 /\ f.data \in Seq(Byte) /\ f.ct \in {"classic", "enhanced"} /\ f.checksum \in 0..255
    BY DEF Tool!Frames, Byte
  <2>2. f = [id |-> f.id, data |-> f.data, ct |-> f.ct, checksum |-> f.checksum]
    BY DEF Tool!Frames
  <2> QED BY <2>1, <2>2
<1>2. PICK m : m = [id |-> i, payload |-> Base64Text(d), ct |-> c, checksum |-> s]
  OBVIOUS
<1>3. Tool!PrintMessage(f) = m
  BY <1>1, <1>2, EncodeIsStandard DEF Tool!PrintMessage
<1>4. s % 256 = s
  OBVIOUS
<1>5. Tool!base64_decode(m.payload) = d /\ m.payload \in Seq(0..Tool!Pad)
  BY <1>2, DecodeOfText, EncodeIsStandard
<1>6. Tool!from_message(m) = f
  BY <1>1, <1>2, <1>4, <1>5 DEF Tool!from_message
<1> QED BY <1>1, <1>2, <1>3, <1>5, <1>6

-----------------------------------------------------------------------------
(* The logged frame on its way through the tool                            *)

(* What the receiver hands on is a frame that convert accepts, up to its   *)
(* length.                                                                 *)
Loggable(f) ==
    /\ f \in Tool!Frames /\ f.id <= 63 /\ f.data # << >>
    /\ f.id \in Tool!DiagIds => f.ct = "classic"

(* A frame on the wire has data. *)
CarriesData == at # "idle" => Len(bytes) > 1

DataInv ==
    /\ input \in Json /\ frame \in Tool!Frames /\ meant \in Tool!Frames
    /\ output.payload \in Seq(0..Tool!Pad)

ExitInv ==
    /\ tool \in {"idle", "main", "format", "options", "input", "validate", "exited"}
    /\ code \in -1..2
    /\ code = -1 <=> tool # "exited"
    /\ output # Tool!NoMessage => code = 0

(* What is validated, and printed at last, is the frame in the input. *)
Parsed == input.id # Tool!NoNumber /\ frame = Tool!parse_frame_json(input)

ConvertInv ==
    /\ tool \in {"options", "input", "validate"} => command = "convert"
    /\ tool = "validate" => Parsed
    /\ Exited /\ code = 0 /\ command = "convert" =>
          Parsed /\ Tool!ValidFrame(frame) /\ output = Tool!PrintMessage(frame)

(* convert reads the logger's arguments in pairs, and has LIN as soon as   *)
(* it has read a --protocol.                                               *)
PairsRead ==
    /\ arg % 2 = 1
    /\ (\E i \in 1..arg - 1 : i % 2 = 1 /\ argv[i] = "--protocol") => option = "LIN"

LoggedInv ==
    meant # NotLogged =>
        /\ Loggable(meant)
        /\ tool \in {"main", "options", "input", "validate", "exited"}
        /\ command = "convert" /\ argv = LogArguments
        /\ \E form \in {"text", "array"} : input = FrameJson(meant, form)
        /\ tool = "options" => PairsRead
        /\ tool = "exited" => code = IF Len(meant.data) <= 8 THEN 0 ELSE 1

ToolInv == DataInv /\ ExitInv /\ ConvertInv /\ LoggedInv

LEMMA NothingIsTyped ==
    /\ Tool!NoInput \in Json /\ Tool!NoFrame \in Tool!Frames
    /\ Tool!NoMessage.payload \in Seq(0..Tool!Pad)
    /\ \A t : [Tool!NoMessage EXCEPT !.ct = t].payload \in Seq(0..Tool!Pad)
<1>1. -1 \in Number /\ << >> \in Seq(Number) /\ << >> \in Seq(0..255) /\ << >> \in Seq(0..Tool!Pad)
  BY DEF Number, Tool!NoNumber
<1>2. [form |-> "none", items |-> << >>] \in DataField
  BY <1>1 DEF DataField
<1>3. Tool!NoInput \in Json
  BY <1>1, <1>2 DEF Tool!NoInput, Json, Tool!NoNumber
<1>4. Tool!NoFrame \in Tool!Frames
  BY <1>1 DEF Tool!NoFrame, Tool!Frames
<1> QED BY <1>1, <1>3, <1>4 DEF Tool!NoMessage

LEMMA CarriesStep == ASSUME TypeOK, CarriesData, [WireNext]_wireVars PROVE CarriesData'
<1>1. ASSUME NEW id \in Ids, NEW data \in Payloads, Transmit(id, data) PROVE CarriesData'
  <2>1. data \in Seq(Byte) /\ data # << >>
    BY WireAssumption
  <2>2. Len(data) \in Nat /\ Len(data) > 0
    BY <2>1, EmptySeq
  <2>3. bytes' = <<protect_id(id)>> \o data
    BY <1>1 DEF Transmit
  <2>4. PICK h : h = protect_id(id)
    OBVIOUS
  <2>5. Len(<<h>> \o data) = 1 + Len(data)
    <3>1. PICK T : h \in T /\ Byte \subseteq T
      <4>1. h \in Byte \cup {h} /\ Byte \subseteq Byte \cup {h}
        OBVIOUS
      <4> QED BY <4>1
    <3>2. <<h>> \in Seq(T) /\ data \in Seq(T) /\ Len(<<h>>) = 1
      BY <2>1, <3>1
    <3>3. Len(<<h>> \o data) = Len(<<h>>) + Len(data)
      BY <3>2, ConcatProperties
    <3> QED BY <3>2, <3>3
  <2>6. Len(bytes') = 1 + Len(data)
    BY <2>3, <2>4, <2>5
  <2>7. 1 + Len(data) > 1
    BY <2>2
  <2> QED BY <2>6, <2>7 DEF CarriesData
<1>2. ASSUME NEW p, NEW b, Corrupt(p, b) PROVE CarriesData'
  <2>1. at = "wire" /\ (bytes' = bytes \/ bytes' = [bytes EXCEPT ![p] = b])
    BY <1>2 DEF Corrupt
  <2>2. Len([bytes EXCEPT ![p] = b]) = Len(bytes)
    BY DEF TypeOK
  <2> QED BY <2>1, <2>2 DEF CarriesData
<1>3. CASE Fault
  BY <1>2, <1>3 DEF Fault
<1>4. CASE SumByte \/ Put \/ CheckPid \/ CheckSum
  BY <1>4 DEF SumByte, Put, CheckPid, CheckSum, CarriesData
<1>5. CASE Finish
  BY <1>5 DEF Finish, CarriesData
<1>6. CASE UNCHANGED wireVars
  BY <1>6 DEF wireVars, CarriesData
<1> QED BY <1>1, <1>3, <1>4, <1>5, <1>6 DEF WireNext

(* An accepted frame is one that convert accepts, but for its length. *)
LEMMA ReceivedIsLoggable ==
    ASSUME TypeOK, CarriesData, at = "accepted"
    PROVE  Loggable(Received)
<1>1. bytes \in Seq(Byte) /\ Len(bytes) > 1 /\ checksum \in Byte
  BY DEF TypeOK, CarriesData
<1>2. PICK i : i = bytes[1] % 64
  OBVIOUS
<1>3. i \in 0..63
  <2>1. bytes[1] \in Byte
    BY <1>1
  <2> QED BY <1>2, <2>1, IdBits
<1>4. PICK d : d = Tail(bytes)
  OBVIOUS
<1>5. d \in Seq(Byte) /\ d # << >>
  <2>1. bytes # << >>
    BY <1>1
  <2>2. d \in Seq(Byte) /\ Len(d) = Len(bytes) - 1
    BY <1>1, <1>4, <2>1, HeadTailProperties
  <2>3. Len(d) # 0
    BY <1>1, <2>2
  <2> QED BY <2>2, <2>3
<1>6. TypeOf[i] \in {"classic", "enhanced"}
  BY <1>3, WireAssumption
<1>7. Received = [id |-> i, data |-> d, ct |-> TypeOf[i], checksum |-> checksum]
  BY <1>2, <1>4 DEF Received
<1>8. i \in 0..255 /\ i <= 63
  BY <1>3
<1>9. i \in Tool!DiagIds => TypeOf[i] = "classic"
  BY PathAssumption
<1> QED BY <1>1, <1>5, <1>6, <1>7, <1>8, <1>9 DEF Loggable, Tool!Frames, Byte

LEMMA LoggableIsValid ==
    ASSUME NEW f, Loggable(f)
    PROVE  Tool!ValidFrame(f) <=> Len(f.data) <= 8
BY DEF Loggable, Tool!ValidFrame, Tool!kLINMaxID, Tool!kLINMaxDataLen

LEMMA ToolInvInit == ASSUME PathInit PROVE ToolInv /\ CarriesData
<1>1. /\ at = "idle" /\ meant = NotLogged /\ tool = "idle" /\ code = -1
      /\ input = Tool!NoInput /\ frame = Tool!NoFrame /\ output = Tool!NoMessage
  BY DEF PathInit, Init, Tool!ToolInit
<1>2. DataInv
  BY <1>1, NothingIsTyped DEF DataInv, NotLogged
<1>3. ExitInv /\ ConvertInv /\ LoggedInv /\ CarriesData
  BY <1>1 DEF ExitInv, ConvertInv, LoggedInv, CarriesData, Exited
<1> QED BY <1>2, <1>3 DEF ToolInv

LEMMA LogKeeps ==
    ASSUME TypeOK, CarriesData, ToolInv, NEW form \in {"text", "array"}, Log(form)
    PROVE  ToolInv'
<1>1. /\ at = "accepted" /\ tool = "idle" /\ tool' = "main" /\ command' = "convert"
      /\ argv' = LogArguments /\ input' = FrameJson(Received, form) /\ meant' = Received
      /\ UNCHANGED <<frame, output, code>>
  BY DEF Log, Tool!Invoke
<1>2. Loggable(Received)
  BY <1>1, ReceivedIsLoggable
<1>3. input' \in Json /\ meant' \in Tool!Frames
  BY <1>1, <1>2, ParseOfLogged DEF Loggable
<1>4. DataInv'
  BY <1>1, <1>3 DEF ToolInv, DataInv
<1>5. ExitInv' /\ ConvertInv'
  BY <1>1 DEF ToolInv, ExitInv, ConvertInv, Exited
<1>6. LoggedInv'
  BY <1>1, <1>2 DEF LoggedInv
<1> QED BY <1>4, <1>5, <1>6 DEF ToolInv

LEMMA InvokeByHandKeeps == ASSUME ToolInv, InvokeByHand PROVE ToolInv'
<1>1. PICK json \in Documents \cup {Tool!NoInput} :
         /\ tool = "idle" /\ tool' = "main" /\ input' = json
         /\ UNCHANGED <<frame, output, code, meant>>
  BY DEF InvokeByHand, Tool!Invoke
<1>2. json \in Json
  BY <1>1, NothingIsTyped, PathAssumption DEF Json
<1>3. meant = NotLogged
  BY <1>1 DEF ToolInv, LoggedInv
<1>4. DataInv' /\ LoggedInv'
  BY <1>1, <1>2, <1>3 DEF ToolInv, DataInv, LoggedInv
<1>5. ExitInv' /\ ConvertInv'
  BY <1>1 DEF ToolInv, ExitInv, ConvertInv, Exited
<1> QED BY <1>4, <1>5 DEF ToolInv

LEMMA DispatchKeeps ==
    ASSUME ArgInv, ToolInv, Tool!Dispatch, UNCHANGED meant
    PROVE  ToolInv'
<1>1. /\ tool = "main" /\ UNCHANGED <<command, argv, arg, input, frame, meant>>
      /\ \/ command \in {"version", "status"} /\ tool' = "format" /\ UNCHANGED <<output, code>>
         \/ command = "convert" /\ tool' = "options" /\ UNCHANGED <<option, output, code>>
         \/ /\ command = "capabilities" /\ tool' = "exited" /\ code' = 0
            /\ output' = [Tool!NoMessage EXCEPT !.ct = "capabilities"]
         \/ /\ command \notin {"version", "status", "convert", "capabilities"}
            /\ tool' = "exited" /\ code' = 2 /\ UNCHANGED output
  BY DEF Tool!Dispatch, Tool!Exit, Tool!toolArgs
<1>2. arg = 1 /\ option = ""
  BY <1>1 DEF ArgInv, AtStart
<1>3. code = -1 /\ output = Tool!NoMessage
  BY <1>1 DEF ToolInv, ExitInv
<1>4. DataInv'
  BY <1>1, <1>3, NothingIsTyped DEF ToolInv, DataInv
<1>5. ExitInv'
  BY <1>1, <1>3 DEF ExitInv
<1>6. ConvertInv'
  BY <1>1 DEF ConvertInv, Exited
<1>7. LoggedInv'
  <2>1. PairsRead' \/ tool' # "options"
    <3>1. 1..1 - 1 = {}
      OBVIOUS
    <3>2. arg' = 1 /\ arg' % 2 = 1
      BY <1>1, <1>2, FirstArgument
    <3> QED BY <3>1, <3>2 DEF PairsRead
  <2> QED BY <1>1, <2>1 DEF ToolInv, LoggedInv
<1> QED BY <1>4, <1>5, <1>6, <1>7 DEF ToolInv

LEMMA FormatKeeps ==
    ASSUME ArgInv, ToolInv, Tool!FormatFlag \/ Tool!PrintInFormat, UNCHANGED meant
    PROVE  ToolInv'
<1>1. /\ tool = "format" /\ UNCHANGED <<command, input, frame, meant>>
      /\ \/ tool' = "format" /\ UNCHANGED <<output, code>>
         \/ tool' = "exited" /\ code' = 2 /\ UNCHANGED output
         \/ /\ tool' = "exited" /\ code' = 0
            /\ output' = [Tool!NoMessage EXCEPT !.ct = option]
  BY DEF Tool!FormatFlag, Tool!PrintInFormat, Tool!Exit, Tool!toolArgs
<1>2. command \in {"version", "status"}
  BY <1>1 DEF ArgInv, FormatLoop
<1>3. code = -1 /\ output = Tool!NoMessage /\ meant = NotLogged
  BY <1>1 DEF ToolInv, ExitInv, LoggedInv
<1>4. DataInv'
  BY <1>1, <1>3, NothingIsTyped DEF ToolInv, DataInv
<1>5. ExitInv'
  BY <1>1, <1>3 DEF ExitInv
<1>6. ConvertInv' /\ LoggedInv'
  BY <1>1, <1>2, <1>3 DEF ConvertInv, Exited, LoggedInv
<1> QED BY <1>4, <1>5, <1>6 DEF ToolInv

(* What the logger's arguments look like from a position in the loop. *)
LEMMA LogPair ==
    ASSUME ArgInv, argv = LogArguments, arg % 2 = 1, arg <= Len(argv)
    PROVE  /\ arg < Len(argv)
           /\ \/ argv[arg] = "--protocol" /\ argv[arg + 1] = "LIN"
              \/ argv[arg] = "--format" /\ argv[arg + 1] = "json"
<1>1. arg \in Nat /\ 1 <= arg /\ Len(argv) \in Nat /\ arg \in DOMAIN LogArguments
  BY DEF ArgInv
<1>2. arg < Len(argv)
  <2>1. Len(argv) % 2 = 0
    BY PathAssumption
  <2> QED BY <1>1, <2>1
<1>3. <<LogArguments[arg], LogArguments[arg + 1]>>
         \in {<<"--protocol", "LIN">>, <<"--format", "json">>}
  <2>1. \A i \in DOMAIN LogArguments : i % 2 = 1 =>
           <<LogArguments[i], LogArguments[i + 1]>>
              \in {<<"--protocol", "LIN">>, <<"--format", "json">>}
    BY PathAssumption
  <2> QED BY <1>1, <2>1
<1> QED BY <1>2, <1>3

LEMMA ConvertOptionPairs ==
    ASSUME ArgInv, Tool!ConvertOption, argv = LogArguments, PairsRead
    PROVE  tool' = "options" /\ PairsRead'
<1>1. tool = "options" /\ arg <= Len(argv) /\ UNCHANGED <<command, argv>>
  BY DEF Tool!ConvertOption, Tool!toolArgs
<1>2. arg \in Nat /\ arg % 2 = 1
  BY DEF ArgInv, PairsRead
<1>3. /\ arg < Len(argv)
      /\ \/ argv[arg] = "--protocol" /\ argv[arg + 1] = "LIN"
         \/ argv[arg] = "--format" /\ argv[arg + 1] = "json"
  BY <1>1, <1>2, LogPair
<1>4. /\ tool' = "options" /\ arg' = arg + 2
      /\ \/ argv[arg] = "--protocol" /\ option' = "LIN"
         \/ argv[arg] = "--format" /\ option' = option
  BY <1>1, <1>3 DEF Tool!ConvertOption, Tool!HasValue
<1>5. (arg + 2) % 2 = 1 /\ arg + 1 = (arg + 2) - 1 /\ (arg + 1) % 2 # 1
  BY <1>2
<1>6. ASSUME NEW i \in 1..(arg + 2) - 1, i % 2 = 1, argv[i] = "--protocol" PROVE option' = "LIN"
  <2>1. i \in 1..arg - 1 \/ i = arg \/ i = arg + 1
    BY <1>2
  <2>2. i # arg + 1
    BY <1>5, <1>6
  <2>3. CASE i = arg
    BY <1>4, <1>6, <2>3
  <2>4. CASE i \in 1..arg - 1
    BY <1>4, <1>6, <2>4 DEF PairsRead
  <2> QED BY <2>1, <2>2, <2>3, <2>4
<1>7. PairsRead'
  BY <1>1, <1>4, <1>5, <1>6 DEF PairsRead
<1> QED BY <1>4, <1>7

LEMMA ConvertOptionInv ==
    ASSUME ArgInv, ToolInv, Tool!ConvertOption, UNCHANGED meant
    PROVE  ToolInv'
<1>1. /\ tool = "options" /\ UNCHANGED <<command, argv, input, frame, output, meant>>
      /\ \/ tool' = "options" /\ UNCHANGED code
         \/ tool' = "exited" /\ code' = 2
  BY DEF Tool!ConvertOption, Tool!Exit, Tool!toolArgs
<1>2. command = "convert" /\ code = -1 /\ output = Tool!NoMessage
  BY <1>1 DEF ToolInv, ConvertInv, ExitInv
<1>3. DataInv' /\ ExitInv' /\ ConvertInv'
  BY <1>1, <1>2 DEF ToolInv, DataInv, ExitInv, ConvertInv, Exited
<1>4. LoggedInv'
  <2>1. SUFFICES ASSUME meant # NotLogged PROVE LoggedInv'
    BY <1>1 DEF LoggedInv
  <2>2. tool' = "options" /\ PairsRead'
    BY <1>1, <2>1, ConvertOptionPairs DEF ToolInv, LoggedInv
  <2> QED BY <1>1, <2>1, <2>2 DEF ToolInv, LoggedInv
<1> QED BY <1>3, <1>4 DEF ToolInv

LEMMA CheckProtocolInv ==
    ASSUME ArgInv, ToolInv, Tool!CheckProtocol, UNCHANGED meant
    PROVE  ToolInv'
<1>1. /\ tool = "options" /\ arg > Len(argv)
      /\ UNCHANGED <<command, argv, input, frame, output, meant>>
      /\ \/ tool' = "input" /\ UNCHANGED code
         \/ tool' = "exited" /\ code' = 2 /\ option # "LIN"
  BY DEF Tool!CheckProtocol, Tool!Exit, Tool!toolArgs
<1>2. command = "convert" /\ code = -1 /\ output = Tool!NoMessage
  BY <1>1 DEF ToolInv, ConvertInv, ExitInv
<1>3. DataInv' /\ ExitInv' /\ ConvertInv'
  BY <1>1, <1>2 DEF ToolInv, DataInv, ExitInv, ConvertInv, Exited
<1>4. LoggedInv'
  <2>1. SUFFICES ASSUME meant # NotLogged PROVE LoggedInv'
    BY <1>1 DEF LoggedInv
  <2>2. argv = LogArguments /\ PairsRead
    BY <1>1, <2>1 DEF ToolInv, LoggedInv
  <2>3. arg - 1 = Len(argv)
    BY <1>1 DEF ArgInv
  <2>4. PICK i \in DOMAIN LogArguments : i % 2 = 1 /\ LogArguments[i] = "--protocol"
    BY PathAssumption
  <2>5. i \in 1..arg - 1
    BY <2>2, <2>3 DEF ArgInv
  <2>6. option = "LIN"
    BY <2>2, <2>4, <2>5 DEF PairsRead
  <2> QED BY <1>1, <2>1, <2>6 DEF ToolInv, LoggedInv
<1> QED BY <1>3, <1>4 DEF ToolInv

LEMMA ParseInputInv == ASSUME ToolInv, Tool!ParseInput, UNCHANGED meant PROVE ToolInv'
<1>1. /\ tool = "input" /\ UNCHANGED <<command, argv, input, output, meant>>
      /\ \/ input.id = Tool!NoNumber /\ tool' = "exited" /\ code' = 1 /\ UNCHANGED frame
         \/ /\ input.id # Tool!NoNumber /\ tool' = "validate"
            /\ frame' = Tool!parse_frame_json(input) /\ UNCHANGED code
  BY DEF Tool!ParseInput, Tool!Exit, Tool!toolArgs
<1>2. command = "convert" /\ code = -1 /\ output = Tool!NoMessage /\ input \in Json
  BY <1>1 DEF ToolInv, ConvertInv, ExitInv, DataInv
<1>3. frame' \in Tool!Frames
  BY <1>1, <1>2, ParsedIsFrame DEF ToolInv, DataInv
<1>4. DataInv' /\ ExitInv' /\ ConvertInv'
  BY <1>1, <1>2, <1>3 DEF ToolInv, DataInv, ExitInv, ConvertInv, Exited, Parsed
<1>5. meant # NotLogged => input.id # Tool!NoNumber
  BY ParseOfLogged DEF ToolInv, LoggedInv, Loggable
<1>6. LoggedInv'
  BY <1>1, <1>5 DEF ToolInv, LoggedInv
<1> QED BY <1>4, <1>6 DEF ToolInv

LEMMA ValidateInv == ASSUME ToolInv, Tool!Validate, UNCHANGED meant PROVE ToolInv'
<1>1. /\ tool = "validate" /\ tool' = "exited"
      /\ UNCHANGED <<command, argv, input, frame, meant>>
      /\ \/ /\ Tool!ValidFrame(frame) /\ code' = 0 /\ output' = Tool!PrintMessage(frame)
         \/ ~Tool!ValidFrame(frame) /\ code' = 1 /\ UNCHANGED output
  BY DEF Tool!Validate, Tool!Exit, Tool!toolArgs
<1>2. /\ command = "convert" /\ code = -1 /\ output = Tool!NoMessage
      /\ Parsed /\ frame \in Tool!Frames
  BY <1>1 DEF ToolInv, ConvertInv, ExitInv, DataInv
<1>3. DataInv'
  <2>1. output'.payload \in Seq(0..Tool!Pad)
    BY <1>1, <1>2, MessageOfFrame DEF ToolInv, DataInv
  <2> QED BY <1>1, <2>1 DEF ToolInv, DataInv
<1>4. ExitInv' /\ ConvertInv'
  BY <1>1, <1>2 DEF ToolInv, ExitInv, ConvertInv, Exited, Parsed
<1>5. LoggedInv'
  <2>1. SUFFICES ASSUME meant # NotLogged PROVE LoggedInv'
    BY <1>1 DEF LoggedInv
  <2>2. Loggable(meant) /\ \E form \in {"text", "array"} : input = FrameJson(meant, form)
    BY <2>1 DEF ToolInv, LoggedInv
  <2>3. frame = meant
    BY <1>2, <2>2, ParseOfLogged DEF Parsed, Loggable
  <2>4. code' = IF Len(meant.data) <= 8 THEN 0 ELSE 1
    BY <1>1, <2>2, <2>3, LoggableIsValid
  <2> QED BY <1>1, <2>1, <2>4 DEF ToolInv, LoggedInv
<1> QED BY <1>3, <1>4, <1>5 DEF ToolInv

LEMMA EndOfToolInv == ASSUME ToolInv, EndOfTool PROVE ToolInv'
<1>1. /\ tool' = "idle" /\ code' = -1 /\ meant' = NotLogged
      /\ input' = Tool!NoInput /\ frame' = Tool!NoFrame /\ output' = Tool!NoMessage
  BY DEF EndOfTool, Tool!Return
<1>2. DataInv'
  BY <1>1, NothingIsTyped DEF DataInv, NotLogged
<1> QED BY <1>1, <1>2 DEF ToolInv, ExitInv, ConvertInv, LoggedInv, Exited

LEMMA ToolInvStutters ==
    ASSUME ToolInv, UNCHANGED toolVars, UNCHANGED meant
    PROVE  ToolInv'
<1>1. DataInv' /\ ExitInv'
  BY DEF ToolInv, DataInv, ExitInv, toolVars
<1>2. ConvertInv'
  BY DEF ToolInv, ConvertInv, Parsed, Exited, toolVars
<1>3. LoggedInv'
  BY DEF ToolInv, LoggedInv, PairsRead, toolVars
<1> QED BY <1>1, <1>2, <1>3 DEF ToolInv

LEMMA ToolInvStep ==
    ASSUME TypeOK, CarriesData, ArgInv, ToolInv, [PathNext]_vars
    PROVE  ToolInv'
<1>1. ASSUME NEW form \in {"text", "array"}, Log(form) PROVE ToolInv'
  BY <1>1, LogKeeps
<1>2. CASE InvokeByHand
  BY <1>2, InvokeByHandKeeps
<1>3. CASE Tool!ToolStep /\ UNCHANGED <<wireVars, meant>>
  <2>1. UNCHANGED meant
    BY <1>3
  <2> QED BY <1>3, <2>1, DispatchKeeps, FormatKeeps, ConvertOptionInv, CheckProtocolInv,
             ParseInputInv, ValidateInv DEF Tool!ToolStep
<1>4. CASE EndOfTool
  BY <1>4, EndOfToolInv
<1>5. CASE OnWire
  BY <1>5, ToolInvStutters DEF OnWire
<1>6. CASE UNCHANGED vars
  BY <1>6, ToolInvStutters DEF vars
<1> QED BY <1>1, <1>2, <1>3, <1>4, <1>5, <1>6 DEF PathNext

LEMMA ToolInvariance == PathSpec => [](TypeOK /\ ArgInv /\ ToolInv)
<1>1. PathSpec => WireSpec
  BY PathImplementsWire
<1>2. WireSpec => []TypeOK
  BY TypeCorrect
<1>3. PathInit => ArgInv /\ ToolInv /\ CarriesData
  BY ArgInit, ToolInvInit
<1>4. ArgInv /\ [PathNext]_vars => ArgInv'
  BY ArgStep
<1>5. [PathNext]_vars => [WireNext]_wireVars
  BY StepOnWire DEF vars, wireVars
<1>6. TypeOK /\ CarriesData /\ [PathNext]_vars => CarriesData'
  BY <1>5, CarriesStep
<1>7. TypeOK /\ CarriesData /\ ArgInv /\ ToolInv /\ [PathNext]_vars => ToolInv'
  BY ToolInvStep
<1> QED BY <1>1, <1>2, <1>3, <1>4, <1>6, <1>7, PTL DEF PathSpec

-----------------------------------------------------------------------------
(* The path from the wire into the relay                                   *)

(* Every text decodes to bytes, every number is cast to a byte, and every  *)
(* frame is printed in base64: the whole path is typed.                    *)
THEOREM PathTypeCorrect == PathSpec => []PathTypeOK
<1>1. TypeOK /\ ArgInv /\ ToolInv => PathTypeOK
  BY DEF PathTypeOK, Tool!ToolTypeOK, ArgInv, ToolInv, DataInv, ExitInv
<1> QED BY <1>1, ToolInvariance, PTL

(* A logged frame is printed as it was received, in standard base64,       *)
(* whatever its length, and refused only for its length.                   *)
THEOREM LoggedIsPrinted == PathSpec => []MessageMatchesFrame
<1>1. ASSUME ToolInv, Exited, meant # NotLogged
      PROVE  /\ code = IF Len(meant.data) <= 8 THEN 0 ELSE 1
             /\ code = 0 => output = [id |-> meant.id, payload |-> Base64Text(meant.data),
                                      ct |-> meant.ct, checksum |-> meant.checksum]
  <2>1. /\ Loggable(meant) /\ command = "convert"
        /\ \E form \in {"text", "array"} : input = FrameJson(meant, form)
        /\ code = IF Len(meant.data) <= 8 THEN 0 ELSE 1
    BY <1>1 DEF ToolInv, LoggedInv, Exited
  <2>2. ASSUME code = 0 PROVE output = Tool!PrintMessage(meant)
    <3>1. Parsed /\ output = Tool!PrintMessage(frame)
      BY <1>1, <2>1, <2>2 DEF ToolInv, ConvertInv
    <3>2. frame = meant
      BY <2>1, <3>1, ParseOfLogged DEF Parsed, Loggable
    <3> QED BY <3>1, <3>2
  <2> QED BY <2>1, <2>2, MessageOfFrame DEF Loggable
<1>2. ToolInv => MessageMatchesFrame
  BY <1>1 DEF MessageMatchesFrame
<1> QED BY <1>2, ToolInvariance, PTL

(* Any arguments and any JSON: what is printed is a valid frame's message, *)
(* and from_message gives that frame back.                                 *)
THEOREM PrintedIsValid == PathSpec => []PrintedIsUsable
<1>1. ASSUME ToolInv, Exited, code = 0, command = "convert"
      PROVE  /\ Tool!ValidFrame(Tool!from_message(output))
             /\ input.id <= 255 => output.id = input.id
             /\ input.data.form = "array" =>
                    IsPrefix(Tool!from_message(output).data, input.data.items)
  <2>1. /\ input \in Json /\ frame \in Tool!Frames /\ input.id # Tool!NoNumber
        /\ frame = Tool!parse_frame_json(input)
        /\ Tool!ValidFrame(frame) /\ output = Tool!PrintMessage(frame)
    BY <1>1 DEF ToolInv, DataInv, ConvertInv, Parsed
  <2>2. Tool!from_message(output) = frame /\ output.id = frame.id
    BY <2>1, MessageOfFrame
  <2>3. input.id <= 255 => output.id = input.id
    BY <2>1, <2>2, ParsedIsFrame
  <2>4. ASSUME input.data.form = "array" PROVE IsPrefix(frame.data, input.data.items)
    <3>1. input.data \in DataField
      BY <2>1 DEF Json
    <3>2. input.data.items \in Seq(Number)
      BY <2>4, <3>1 DEF DataField
    <3>3. frame.data = Tool!GoodPrefix(input.data.items)
      BY <2>1, <2>4 DEF Tool!parse_frame_json, Tool!extract_bytes
    <3> QED BY <3>2, <3>3, GoodPrefixIsPrefix
  <2> QED BY <2>1, <2>2, <2>3, <2>4
<1>2. ArgInv /\ ToolInv => PrintedIsUsable
  BY <1>1 DEF PrintedIsUsable, ArgInv
<1> QED BY <1>2, ToolInvariance, PTL

=============================================================================
