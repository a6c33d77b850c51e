------------------------------ MODULE E2EProofs ------------------------------
(***************************************************************************)
(* Proofs about E2E, for any protectors, threads, payloads and faults, and *)
(* for counters of any size: what is accepted is authentic, no gap goes    *)
(* unnoticed, and nothing is rejected without a reason.                    *)
(***************************************************************************)
EXTENDS E2E, SequenceTheorems, TLAPS

-----------------------------------------------------------------------------
(* Arithmetic modulo the size of the counter. *)

LEMMA ModRange == ASSUME NEW a \in Int PROVE a % M \in 0..M - 1
BY E2EAssumption

LEMMA ModNext == ASSUME NEW a \in Int PROVE (a + 1) % M = ((a % M) + 1) % M
<1>1. M \in Nat \ {0, 1}
  BY E2EAssumption
<1> QED BY <1>1

(* Two numbers that follow each other modulo M follow each other, or are a *)
(* whole round apart.                                                      *)
LEMMA ModGap ==
    ASSUME NEW a \in Int, NEW b \in Int, b % M = ((a % M) + 1) % M
    PROVE  b - a = 1 \/ b - a <= 1 - M \/ b - a >= 1 + M
<1>1. M \in Nat \ {0, 1}
  BY E2EAssumption
<1>2. b % M = (a + 1) % M
  BY ModNext
<1>3. (b - (a + 1)) % M = 0
  BY <1>1, <1>2
<1>4. \A d \in Int : d % M = 0 => d = 0 \/ d >= M \/ d <= -M
  BY <1>1
<1>5. b - (a + 1) = 0 \/ b - (a + 1) >= M \/ b - (a + 1) <= -M
  BY <1>3, <1>4
<1> QED BY <1>1, <1>5

(* A flipped checksum is the checksum of nothing. *)
FlippedCrc == <<"flipped">>

LEMMA CrcIntact == \A c, s, d : Crc(c, s, d) # FlippedCrc
BY DEF Crc, FlippedCrc

-----------------------------------------------------------------------------
(* The inductive invariant. *)

Configs == {ConfigOf[p] : p \in Protectors}

Crcs == {FlippedCrc} \cup {Crc(c, s, d) : c \in Configs, s \in 0..M - 1, d \in Payloads}

FrameRecord ==
    [n : Nat \ {0}, by : Protectors, short : BOOLEAN, ids : Configs \cup {"flipped"},
     counter : 0..M - 1, payload : Payloads \cup {"flipped"}, crc : Crcs, sound : BOOLEAN]

(* The CRC is the one that the protector computed, or spoilt: no fault     *)
(* makes it match anything else.                                           *)
Genuine(f) ==
    f.crc # FlippedCrc =>
        \E d \in Payloads : f.crc = Crc(ConfigOf[f.by], (f.n - 1) % M, d)

Frame == {f \in FrameRecord : Genuine(f)}

Types ==
    /\ seq \in [Protectors -> 0..M - 1]
    /\ count \in [Protectors -> Nat]
    /\ held \in [Threads -> Frame \cup {Nothing}]
    /\ net \in Seq(Frame)
    /\ accepted \in Seq(Frame)
    /\ last \in 0..M - 1 /\ first \in BOOLEAN
    /\ verdict \in {"none", "accepted", "HeaderTooShort", "CRCMismatch", "SequenceGap"}
    /\ faults \in Nat /\ overtaken \in BOOLEAN
    /\ \A p \in Protectors : seq[p] = count[p] % M

(* The receiver remembers the counter of the frame that it accepted last,  *)
(* whatever it has rejected since.                                         *)
Remembers ==
    /\ first <=> Len(accepted) = 0
    /\ ~first => last = accepted[Len(accepted)].counter

(* As protect made it. *)
Untouched(f) ==
    /\ ~f.short
    /\ f.counter = (f.n - 1) % M
    /\ f.crc = Crc(ConfigOf[f.by], f.counter, f.payload)

(* Without faults and overtaking, the frames of the receiver's peer that   *)
(* are in transit or in the hands of a thread are those that follow the    *)
(* accepted ones, each once, those in transit in order and in front of     *)
(* those held.                                                             *)
InTransit(q) == {i \in 1..Len(net) : net[i].by = q}
InHand(q) == {t \in Threads : held[t] # Nothing /\ held[t].by = q}

Complete(q) ==
    \A n \in Len(accepted) + 1..count[q] :
        (\E i \in InTransit(q) : net[i].n = n) \/ (\E t \in InHand(q) : held[t].n = n)

Ordered(q) ==
    /\ \A i \in InTransit(q) : net[i].n \in Len(accepted) + 1..count[q]
    /\ \A t \in InHand(q) : held[t].n \in Len(accepted) + 1..count[q]
    /\ \A i, j \in InTransit(q) : i < j => net[i].n < net[j].n
    /\ \A i \in InTransit(q), t \in InHand(q) : net[i].n < held[t].n
    /\ \A t, u \in InHand(q) : t # u => held[t].n # held[u].n

AllUntouched ==
    /\ \A t \in Threads : held[t] # Nothing => Untouched(held[t])
    /\ \A i \in 1..Len(net) : Untouched(net[i])

Numbered == \A i \in 1..Len(accepted) : accepted[i].n = i

Undisturbed ==
    faults = 0 /\ ~overtaken =>
        /\ AllUntouched
        /\ Numbered
        /\ \A q \in Protectors : ConfigOf[q] = ReceiverConfig =>
              /\ Len(accepted) <= count[q]
              /\ Complete(q) /\ Ordered(q)

IInv ==
    /\ Types
    /\ AcceptedIsAuthentic
    /\ Remembers /\ NoSilentGap
    /\ Undisturbed /\ NoFalseAlarm

-----------------------------------------------------------------------------
(* Lemmas about the steps.  First, what a frame is made of. *)

LEMMA FrameFields ==
    ASSUME NEW f \in Frame
    PROVE  /\ f.n \in Nat \ {0} /\ f.by \in Protectors /\ f.short \in BOOLEAN
           /\ f.counter \in 0..M - 1 /\ f.crc \in Crcs /\ f.sound \in BOOLEAN
           /\ Genuine(f)
           /\ f # Nothing
BY DEF Frame, FrameRecord, Nothing

LEMMA NumberRange == ASSUME NEW f \in Frame PROVE (f.n - 1) % M \in 0..M - 1
BY FrameFields, ModRange

(* What matches was made by a protector with the receiver's configuration, *)
(* and is what it made.                                                    *)
LEMMA MatchIsAuthentic ==
    ASSUME NEW f \in Frame, CrcMatches(f)
    PROVE  /\ ConfigOf[f.by] = ReceiverConfig
           /\ f.counter = (f.n - 1) % M
           /\ f.payload \in Payloads
           /\ f.crc = Crc(ConfigOf[f.by], f.counter, f.payload)
<1>1. f.crc # FlippedCrc
  BY CrcIntact DEF CrcMatches
<1>2. PICK d \in Payloads : f.crc = Crc(ConfigOf[f.by], (f.n - 1) % M, d)
  BY <1>1, FrameFields DEF Genuine
<1>3. ConfigOf[f.by] = ReceiverConfig /\ (f.n - 1) % M = f.counter /\ d = f.payload
  BY <1>2 DEF CrcMatches, Crc
<1> QED BY <1>2, <1>3

LEMMA InitIInv == ASSUME Init PROVE IInv
<1>1. 0 % M = 0 /\ M \in Nat \ {0, 1}
  BY E2EAssumption
<1>2. Len(net) = 0 /\ Len(accepted) = 0 /\ DOMAIN accepted = {}
  BY DEF Init
<1>3. Types
  <2>1. net \in Seq(Frame) /\ accepted \in Seq(Frame)
    BY EmptySeq DEF Init
  <2>2. 0 \in 0..M - 1
    BY <1>1
  <2>3. \A p \in Protectors : seq[p] = count[p] % M
    BY <1>1 DEF Init
  <2> QED BY <2>1, <2>2, <2>3 DEF Init, Types
<1>4. AcceptedIsAuthentic /\ Remembers /\ NoSilentGap /\ NoFalseAlarm
  BY <1>2 DEF Init, AcceptedIsAuthentic, Remembers, NoSilentGap, NoFalseAlarm
<1>5. Undisturbed
  <2>1. AllUntouched /\ Numbered
    BY <1>2 DEF Init, AllUntouched, Numbered
  <2>2. ASSUME NEW q \in Protectors
        PROVE  Len(accepted) <= count[q] /\ Complete(q) /\ Ordered(q)
    <3>1. InTransit(q) = {} /\ InHand(q) = {} /\ count[q] = 0
      BY <1>2 DEF Init, InTransit, InHand
    <3> QED BY <1>2, <3>1 DEF Complete, Ordered
  <2> QED BY <2>1, <2>2 DEF Undisturbed
<1> QED BY <1>3, <1>4, <1>5 DEF IInv

-----------------------------------------------------------------------------
(* protect *)

LEMMA ProtectTypes ==
    ASSUME Types, NEW t \in Threads, NEW p \in Protectors, NEW d \in Payloads, Protect(t, p, d)
    PROVE  /\ Types'
           /\ held'[t] \in Frame /\ held'[t].n = count[p] + 1 /\ held'[t].by = p
           /\ Untouched(held'[t])
           /\ \A u \in Threads \ {t} : held'[u] = held[u]
<1> DEFINE f == [n |-> count[p] + 1, by |-> p, short |-> FALSE,
                 ids |-> ConfigOf[p], counter |-> seq[p], payload |-> d,
                 crc |-> Crc(ConfigOf[p], seq[p], d), sound |-> TRUE]
<1>1. /\ held' = [held EXCEPT ![t] = f] /\ count' = [count EXCEPT ![p] = @ + 1]
      /\ seq' = [seq EXCEPT ![p] = (@ + 1) % M]
      /\ UNCHANGED <<net, receiver, accepted, faults, overtaken>>
  BY DEF Protect
<1>2. count[p] \in Nat /\ seq[p] \in 0..M - 1 /\ seq[p] = count[p] % M
  BY DEF Types
<1>3. f \in Frame
  <2>1. Crc(ConfigOf[p], seq[p], d) \in Crcs
    BY <1>2 DEF Crcs, Configs
  <2>2. Genuine(f)
    BY <1>2 DEF Genuine
  <2> QED BY <1>2, <2>1, <2>2 DEF Frame, FrameRecord, Configs
<1>4. Untouched(f)
  BY <1>2 DEF Untouched
<1>6. held' \in [Threads -> Frame \cup {Nothing}]
  BY <1>1, <1>3 DEF Types
<1>7. /\ seq' \in [Protectors -> 0..M - 1] /\ count' \in [Protectors -> Nat]
      /\ \A q \in Protectors : seq'[q] = count'[q] % M
  <2>1. (seq[p] + 1) % M \in 0..M - 1 /\ (seq[p] + 1) % M = (count[p] + 1) % M
    BY <1>2, ModRange, ModNext
  <2> QED BY <1>1, <2>1 DEF Types
<1>8. held'[t] = f /\ \A u \in Threads \ {t} : held'[u] = held[u]
  BY <1>1 DEF Types
<1>9. Types'
  BY <1>1, <1>6, <1>7 DEF Types, receiver
<1> QED BY <1>3, <1>4, <1>8, <1>9

LEMMA ProtectIInv ==
    ASSUME IInv, NEW t \in Threads, NEW p \in Protectors, NEW d \in Payloads, Protect(t, p, d)
    PROVE  IInv'
<1> USE DEF IInv
<1>1. /\ held[t] = Nothing /\ count' = [count EXCEPT ![p] = @ + 1]
      /\ UNCHANGED <<net, last, first, verdict, accepted, faults, overtaken>>
  BY DEF Protect, receiver
<1>2. Types'
  BY ProtectTypes
<1>3. /\ held'[t].n = count[p] + 1 /\ held'[t].by = p /\ held'[t] # Nothing
      /\ Untouched(held'[t])
      /\ \A u \in Threads \ {t} : held'[u] = held[u]
  BY ProtectTypes, FrameFields
<1>5. AcceptedIsAuthentic' /\ Remembers' /\ NoSilentGap' /\ NoFalseAlarm'
  BY <1>1 DEF AcceptedIsAuthentic, Remembers, NoSilentGap, NoFalseAlarm
<1>6. Undisturbed'
  <2> SUFFICES ASSUME faults = 0, ~overtaken PROVE
        /\ AllUntouched' /\ Numbered'
        /\ \A q \in Protectors : ConfigOf[q] = ReceiverConfig =>
              Len(accepted') <= count'[q] /\ Complete(q)' /\ Ordered(q)'
    BY <1>1 DEF Undisturbed
  <2>1. AllUntouched' /\ Numbered'
    BY <1>1, <1>3 DEF Undisturbed, AllUntouched, Untouched, Numbered
  <2>2. ASSUME NEW q \in Protectors, ConfigOf[q] = ReceiverConfig
        PROVE  Len(accepted') <= count'[q] /\ Complete(q)' /\ Ordered(q)'
    <3>1. Len(accepted) <= count[q] /\ Complete(q) /\ Ordered(q)
      BY <2>2 DEF Undisturbed
    <3>2. Len(accepted) \in Nat /\ count[q] \in Nat
      BY DEF Types
    <3>3. InTransit(q)' = InTransit(q)
      BY <1>1 DEF InTransit
    <3>4. CASE q # p
      <4>1. count'[q] = count[q]
        BY <1>1, <3>4 DEF Types
      <4>2. InHand(q)' = InHand(q) /\ t \notin InHand(q)
        BY <1>1, <1>3, <3>4 DEF InHand
      <4>3. \A u \in InHand(q) : held'[u] = held[u]
        BY <1>3, <4>2 DEF InHand
      <4>4. Complete(q)'
        BY <1>1, <3>1, <3>3, <4>1, <4>2, <4>3 DEF Complete
      <4>5. Ordered(q)'
        BY <1>1, <3>1, <3>3, <4>1, <4>2, <4>3 DEF Ordered
      <4> QED BY <1>1, <3>1, <4>1, <4>4, <4>5
    <3>5. CASE q = p
      <4>1. count'[q] = count[q] + 1 /\ held'[t].n = count[q] + 1
        BY <1>1, <1>3, <3>5 DEF Types
      <4>2. InHand(q)' = InHand(q) \cup {t} /\ t \notin InHand(q)
        BY <1>1, <1>3, <3>5 DEF InHand
      <4>3. \A u \in InHand(q) : held'[u] = held[u]
        BY <1>3, <4>2 DEF InHand
      <4>4. Complete(q)'
        <5> SUFFICES ASSUME NEW n \in Len(accepted) + 1..count[q] + 1
                     PROVE  \/ \E i \in InTransit(q) : net[i].n = n
                            \/ \E u \in InHand(q)' : held'[u].n = n
          BY <1>1, <3>3, <4>1 DEF Complete
        <5>1. CASE n = count[q] + 1
          BY <4>1, <4>2, <5>1
        <5>2. CASE n # count[q] + 1
          <6>1. n \in Len(accepted) + 1..count[q]
            BY <3>2, <5>2
          <6> QED BY <3>1, <4>2, <4>3, <6>1 DEF Complete
        <5> QED BY <5>1, <5>2
      <4>5. Ordered(q)'
        <5>1. /\ \A i \in InTransit(q) : net[i].n \in Len(accepted) + 1..count[q]
              /\ \A u \in InHand(q) : held[u].n \in Len(accepted) + 1..count[q]
          BY <3>1 DEF Ordered
        <5>2. Len(accepted) + 1..count[q] \subseteq Len(accepted) + 1..count[q] + 1
          BY <3>2
        <5>3. count[q] + 1 \in Len(accepted) + 1..count[q] + 1
          BY <3>1, <3>2
        <5>4. \A n \in Len(accepted) + 1..count[q] : n < count[q] + 1
          BY <3>2
        <5> QED BY <1>1, <3>1, <3>3, <4>1, <4>2, <4>3, <5>1, <5>2, <5>3, <5>4 DEF Ordered
      <4> QED BY <1>1, <3>1, <3>2, <4>1, <4>4, <4>5
    <3> QED BY <3>4, <3>5
  <2> QED BY <2>1, <2>2
<1> QED BY <1>2, <1>5, <1>6

-----------------------------------------------------------------------------
(* Sending, and the transport. *)

LEMMA NetGrows ==
    ASSUME Types, NEW f \in Frame, net' = Append(net, f)
    PROVE  /\ net' \in Seq(Frame)
           /\ Len(net') = Len(net) + 1 /\ Len(net) \in Nat
           /\ \A i \in 1..Len(net) : net'[i] = net[i]
           /\ net'[Len(net) + 1] = f
<1> net \in Seq(Frame)
  BY DEF Types
<1> QED BY AppendProperties, LenProperties

LEMMA TransmitIInv == ASSUME IInv, NEW t \in Threads, Transmit(t) PROVE IInv'
<1> USE DEF IInv
<1> DEFINE f == held[t]
<1>1. /\ f # Nothing /\ net' = Append(net, f) /\ held' = [held EXCEPT ![t] = Nothing]
      /\ UNCHANGED <<seq, last, first, verdict, count, accepted, faults>>
  BY DEF Transmit, receiver
<1>2. f \in Frame
  BY <1>1 DEF Types
<1>3. /\ net' \in Seq(Frame) /\ Len(net') = Len(net) + 1 /\ Len(net) \in Nat
      /\ \A i \in 1..Len(net) : net'[i] = net[i]
      /\ net'[Len(net) + 1] = f
  BY <1>1, <1>2, NetGrows
<1>4. /\ held'[t] = Nothing /\ \A u \in Threads \ {t} : held'[u] = held[u]
      /\ held' \in [Threads -> Frame \cup {Nothing}]
  BY <1>1 DEF Types
<1>5. Types'
  <2>1. overtaken' \in BOOLEAN
    BY DEF Transmit, Types
  <2> QED BY <1>1, <1>3, <1>4, <2>1 DEF Types
<1>6. AcceptedIsAuthentic' /\ Remembers' /\ NoSilentGap'
  BY <1>1 DEF AcceptedIsAuthentic, Remembers, NoSilentGap
<1>7. overtaken' = (overtaken \/ \E u \in Threads : /\ held[u] # Nothing
                                                   /\ held[u].by = f.by
                                                   /\ held[u].n < f.n)
  BY DEF Transmit
<1>8. NoFalseAlarm'
  BY <1>1, <1>7 DEF NoFalseAlarm
<1>9. Undisturbed'
  <2> SUFFICES ASSUME faults = 0, ~overtaken, ~overtaken' PROVE
        /\ AllUntouched' /\ Numbered'
        /\ \A q \in Protectors : ConfigOf[q] = ReceiverConfig =>
              Len(accepted') <= count'[q] /\ Complete(q)' /\ Ordered(q)'
    BY <1>1, <1>7 DEF Undisturbed
  <2>1. AllUntouched' /\ Numbered'
    <3>1. AllUntouched /\ Numbered
      BY DEF Undisturbed
    <3>2. \A i \in 1..Len(net') : i \in 1..Len(net) \/ i = Len(net) + 1
      BY <1>3
    <3>3. \A i \in 1..Len(net') : Untouched(net'[i])
      BY <1>1, <1>3, <3>1, <3>2 DEF AllUntouched
    <3> QED BY <1>1, <1>4, <3>1, <3>3 DEF AllUntouched, Numbered, Untouched
  <2>2. ASSUME NEW q \in Protectors, ConfigOf[q] = ReceiverConfig
        PROVE  Len(accepted') <= count'[q] /\ Complete(q)' /\ Ordered(q)'
    <3>1. Len(accepted) <= count[q] /\ Complete(q) /\ Ordered(q)
      BY <2>2 DEF Undisturbed
    <3>2. \A u \in InHand(q) \ {t} : held'[u] = held[u]
      BY <1>4 DEF InHand
    <3>3. InHand(q)' = InHand(q) \ {t}
      BY <1>4 DEF InHand
    <3>4. CASE q # f.by
      <4>1. InTransit(q)' = InTransit(q) /\ t \notin InHand(q)
        BY <1>3, <3>4 DEF InTransit, InHand
      <4>2. \A i \in InTransit(q) : net'[i] = net[i]
        BY <1>3 DEF InTransit
      <4>3. InHand(q)' = InHand(q) /\ \A u \in InHand(q) : held'[u] = held[u]
        BY <3>2, <3>3, <4>1
      <4>4. Complete(q)'
        <5> SUFFICES ASSUME NEW n \in Len(accepted) + 1..count[q]
                     PROVE  \/ \E i \in InTransit(q)' : net'[i].n = n
                            \/ \E u \in InHand(q)' : held'[u].n = n
          BY <1>1 DEF Complete
        <5>1. CASE \E i \in InTransit(q) : net[i].n = n
          BY <4>1, <4>2, <5>1
        <5>2. CASE \E u \in InHand(q) : held[u].n = n
          BY <4>3, <5>2
        <5> QED BY <3>1, <5>1, <5>2 DEF Complete
      <4>5. Ordered(q)'
        BY <1>1, <3>1, <4>1, <4>2, <4>3 DEF Ordered
      <4> QED BY <1>1, <3>1, <4>4, <4>5
    <3>5. CASE q = f.by
      <4>1. InTransit(q)' = InTransit(q) \cup {Len(net) + 1} /\ t \in InHand(q)
        BY <1>1, <1>3, <3>5 DEF InTransit, InHand
      <4>2. \A i \in InTransit(q) : net'[i] = net[i] /\ i < Len(net) + 1 /\ i \in Nat
        BY <1>3 DEF InTransit
      <4>3. Complete(q)'
        <5> SUFFICES ASSUME NEW n \in Len(accepted) + 1..count[q]
                     PROVE  \/ \E i \in InTransit(q)' : net'[i].n = n
                            \/ \E u \in InHand(q)' : held'[u].n = n
          BY <1>1 DEF Complete
        <5>1. CASE \E i \in InTransit(q) : net[i].n = n
          BY <4>1, <4>2, <5>1
        <5>2. CASE \E u \in InHand(q) \ {t} : held[u].n = n
          BY <3>2, <3>3, <5>2
        <5>3. CASE f.n = n
          BY <1>3, <4>1, <5>3
        <5> QED BY <3>1, <5>1, <5>2, <5>3 DEF Complete
      <4>4. \A u \in InHand(q) \ {t} : f.n < held[u].n
        <5>1. \A u \in InHand(q) \ {t} : ~(held[u].n < f.n) /\ held[u].n # f.n
          BY <1>7, <3>1, <3>5, <4>1 DEF InHand, Ordered
        <5>2. \A u \in InHand(q) : held[u].n \in Nat
          BY FrameFields DEF InHand, Types
        <5> QED BY <5>1, <5>2, <1>2, FrameFields
      <4>5. Ordered(q)'
        <5>1. /\ \A i \in InTransit(q)' : net'[i].n \in Len(accepted) + 1..count[q]
              /\ \A u \in InHand(q)' : held'[u].n \in Len(accepted) + 1..count[q]
          BY <1>3, <3>1, <3>2, <3>3, <4>1, <4>2 DEF Ordered
        <5>2. ASSUME NEW i \in InTransit(q)', NEW j \in InTransit(q)', i < j
              PROVE  net'[i].n < net'[j].n
          <6>1. i \in InTransit(q)
            BY <1>3, <4>1, <4>2, <5>2
          <6>2. CASE j \in InTransit(q)
            BY <3>1, <4>2, <5>2, <6>1, <6>2 DEF Ordered
          <6>3. CASE j = Len(net) + 1
            BY <1>3, <3>1, <4>1, <4>2, <6>1, <6>3 DEF Ordered
          <6> QED BY <4>1, <6>2, <6>3
        <5>3. \A i \in InTransit(q)', u \in InHand(q)' : net'[i].n < held'[u].n
          BY <1>3, <3>1, <3>2, <3>3, <4>1, <4>2, <4>4 DEF Ordered
        <5>4. \A u, v \in InHand(q)' : u # v => held'[u].n # held'[v].n
          BY <3>1, <3>2, <3>3 DEF Ordered
        <5> QED BY <1>1, <5>1, <5>2, <5>3, <5>4 DEF Ordered
      <4> QED BY <1>1, <3>1, <4>3, <4>5
    <3> QED BY <3>4, <3>5
  <2> QED BY <2>1, <2>2
<1> QED BY <1>5, <1>6, <1>8, <1>9

LEMMA WithoutIsNet ==
    ASSUME net \in Seq(Frame), NEW i \in 1..Len(net)
    PROVE  Without(i) \in Seq(Frame)
<1>1. Len(net) \in Nat /\ \A j \in 1..Len(net) : net[j] \in Frame
  BY ElementOfSeq, LenProperties
<1>2. SubSeq(net, 1, i - 1) \in Seq(Frame)
  <2>1. \A j \in 1..i - 1 : net[j] \in Frame
    BY <1>1
  <2> QED BY <1>1, <2>1, SubSeqProperties
<1>3. SubSeq(net, i + 1, Len(net)) \in Seq(Frame)
  <2>1. \A j \in i + 1..Len(net) : net[j] \in Frame
    BY <1>1
  <2> QED BY <1>1, <2>1, SubSeqProperties
<1> QED BY <1>2, <1>3, ConcatProperties DEF Without

(* No fault makes a frame of the transport into one whose CRC matches      *)
(* something that no protector has protected.                              *)
LEMMA FlippedIsFrame ==
    ASSUME NEW f \in Frame, NEW kind \in Faults, NEW g \in Flipped(f, kind)
    PROVE  g \in Frame
<1>1. f \in FrameRecord /\ Genuine(f)
  BY DEF Frame
<1>2. CASE kind = "truncate"
  BY <1>1, <1>2 DEF Flipped, Frame, FrameRecord, Genuine
<1>3. CASE kind = "flip_ids"
  BY <1>1, <1>3 DEF Flipped, Frame, FrameRecord, Genuine
<1>4. CASE kind = "flip_counter"
  <2>1. PICK c \in 0..M - 1 : g = [f EXCEPT !.counter = c, !.sound = FALSE]
    BY <1>4 DEF Flipped
  <2> QED BY <1>1, <2>1 DEF Frame, FrameRecord, Genuine
<1>5. CASE kind = "flip_crc"
  <2>1. g = [f EXCEPT !.crc = FlippedCrc, !.sound = FALSE]
    BY <1>5 DEF Flipped, FlippedCrc
  <2>2. FlippedCrc \in Crcs
    BY DEF Crcs
  <2> QED BY <1>1, <2>1, <2>2 DEF Frame, FrameRecord, Genuine
<1>6. CASE kind = "flip_payload"
  BY <1>1, <1>6 DEF Flipped, Frame, FrameRecord, Genuine
<1> QED BY <1>2, <1>3, <1>4, <1>5, <1>6 DEF Flipped

LEMMA FaultIInv ==
    ASSUME IInv, NEW kind \in Faults, NEW i \in DOMAIN net, Fault(kind, i) PROVE IInv'
<1> USE DEF IInv
<1>1. /\ UNCHANGED <<seq, held, last, first, verdict, count, accepted, overtaken>>
      /\ faults' = faults + 1
  BY DEF Fault, receiver
<1>2. /\ net \in Seq(Frame) /\ DOMAIN net = 1..Len(net) /\ i \in 1..Len(net)
      /\ Len(net) \in Nat /\ net[i] \in Frame
  BY ElementOfSeq, LenProperties DEF Types
<1>3. net' \in Seq(Frame)
  <2>1. CASE net' = Without(i)
    BY <1>2, <2>1, WithoutIsNet
  <2>2. CASE net' = Append(net, net[i])
    BY <1>2, <2>2, AppendProperties
  <2>3. CASE i < Len(net) /\ net' = [net EXCEPT ![i] = net[i + 1], ![i + 1] = net[i]]
    <3>1. i + 1 \in 1..Len(net)
      BY <1>2, <2>3
    <3>2. net[i + 1] \in Frame
      BY <1>2, <3>1, ElementOfSeq
    <3> QED BY <1>2, <2>3, <3>1, <3>2, ExceptSeq
  <2>4. ASSUME NEW g \in Flipped(net[i], kind), net' = [net EXCEPT ![i] = g]
        PROVE  net' \in Seq(Frame)
    BY <1>2, <2>4, FlippedIsFrame, ExceptSeq
  <2> QED BY <2>1, <2>2, <2>3, <2>4 DEF Fault
<1>4. Types'
  BY <1>1, <1>3 DEF Types
<1>5. AcceptedIsAuthentic' /\ Remembers' /\ NoSilentGap'
  BY <1>1 DEF AcceptedIsAuthentic, Remembers, NoSilentGap
<1>6. faults' # 0
  BY <1>1 DEF Types
<1> QED BY <1>4, <1>5, <1>6 DEF Undisturbed, NoFalseAlarm

-----------------------------------------------------------------------------
(* unwrap *)

LEMMA HeadOfNet ==
    ASSUME Types, net # << >>, net' = Tail(net)
    PROVE  /\ Head(net) \in Frame /\ Head(net) = net[1] /\ 1 \in 1..Len(net)
           /\ net' \in Seq(Frame) /\ Len(net') = Len(net) - 1 /\ Len(net) \in Nat
           /\ \A i \in 1..Len(net') : net'[i] = net[i + 1] /\ i + 1 \in 1..Len(net)
<1>1. net \in Seq(Frame) /\ Len(net) \in Nat \ {0}
  BY EmptySeq DEF Types
<1>2. Head(net) = net[1]
  BY <1>1
<1>3. net' \in Seq(Frame) /\ Len(net') = Len(net) - 1 /\ Head(net) \in Frame
  BY <1>1, HeadTailProperties
<1>4. \A i \in 1..Len(net') : net'[i] = net[i + 1]
  BY <1>1, HeadTailProperties
<1> QED BY <1>1, <1>2, <1>3, <1>4

(* Without disturbance a frame of the peer that arrives is the next one.   *)
LEMMA ArrivesInOrder ==
    ASSUME IInv, net # << >>, faults = 0, ~overtaken,
           ConfigOf[Head(net).by] = ReceiverConfig
    PROVE  /\ Head(net).n = Len(accepted) + 1 /\ Len(accepted) + 1 <= count[Head(net).by]
           /\ ~Head(net).short /\ CrcMatches(Head(net)) /\ InSequence(Head(net))
<1> DEFINE f == Head(net)
           q == f.by
<1>1. f \in Frame /\ f = net[1] /\ 1 \in 1..Len(net) /\ Len(net) \in Nat
  <2>1. net \in Seq(Frame) /\ Len(net) \in Nat \ {0}
    BY EmptySeq DEF IInv, Types
  <2> QED BY <2>1, HeadTailProperties
<1>2. q \in Protectors /\ f.n \in Nat \ {0}
  BY <1>1, FrameFields
<1>3. /\ AllUntouched /\ Numbered /\ Remembers
      /\ Len(accepted) <= count[q] /\ Complete(q) /\ Ordered(q)
  BY <1>2 DEF IInv, Undisturbed
<1>4. Len(accepted) \in Nat /\ count[q] \in Nat /\ last \in 0..M - 1
  BY <1>2, LenProperties DEF IInv, Types
<1>5. 1 \in InTransit(q) /\ f.n \in Len(accepted) + 1..count[q]
  BY <1>1, <1>3 DEF InTransit, Ordered
<1>6. f.n = Len(accepted) + 1
  <2>1. Len(accepted) + 1 \in Len(accepted) + 1..count[q]
    BY <1>4, <1>5
  <2>2. ASSUME NEW i \in InTransit(q), net[i].n = Len(accepted) + 1
        PROVE  f.n <= Len(accepted) + 1
    <3>1. i = 1 \/ 1 < i
      BY <1>1 DEF InTransit
    <3>2. 1 < i => f.n < net[i].n
      BY <1>1, <1>3, <1>5 DEF Ordered
    <3> QED BY <1>1, <1>4, <1>5, <2>2, <3>1, <3>2
  <2>3. ASSUME NEW t \in InHand(q), held[t].n = Len(accepted) + 1
        PROVE  f.n <= Len(accepted) + 1
    <3>1. f.n < held[t].n
      BY <1>1, <1>3, <1>5 DEF Ordered
    <3> QED BY <1>4, <1>5, <2>3, <3>1
  <2> QED BY <1>3, <1>4, <1>5, <2>1, <2>2, <2>3 DEF Complete
<1>7. Untouched(f)
  BY <1>1, <1>3 DEF AllUntouched
<1>8. CrcMatches(f)
  BY <1>7 DEF Untouched, CrcMatches
<1>9. InSequence(f)
  <2>1. f.counter = Len(accepted) % M
    BY <1>4, <1>6, <1>7 DEF Untouched
  <2>2. CASE Len(accepted) = 0
    BY <1>3, <2>2 DEF Remembers, InSequence
  <2>3. CASE Len(accepted) # 0
    <3> DEFINE k == Len(accepted)
               g == accepted[k]
    <3>1. accepted \in Seq(Frame) /\ k \in Nat /\ k # 0
      BY <2>3, LenProperties DEF IInv, Types
    <3>2. k \in 1..Len(accepted) /\ k - 1 \in Nat /\ k \in DOMAIN accepted
      BY <3>1, LenProperties
    <3>3. g.n = k /\ last = g.counter
      BY <1>3, <2>3, <3>1, <3>2 DEF Numbered, Remembers
    <3>4. g.counter = (k - 1) % M
      BY <3>1, <3>2, <3>3 DEF IInv, AcceptedIsAuthentic
    <3>5. ((k - 1) + 1) % M = (((k - 1) % M) + 1) % M
      BY <3>2, ModNext
    <3>6. (k - 1) + 1 = k
      BY <3>1
    <3>7. last = (k - 1) % M /\ f.counter = k % M
      BY <2>1, <3>3, <3>4
    <3> QED BY <3>5, <3>6, <3>7 DEF InSequence
  <2> QED BY <2>2, <2>3
<1> QED BY <1>5, <1>4, <1>6, <1>7, <1>8, <1>9 DEF Untouched

(* The frame leaves the transport; what it was of its sender is gone. *)
LEMMA TakenInOrder ==
    ASSUME Types, net # << >>, net' = Tail(net), UNCHANGED <<held, count>>,
           NEW q \in Protectors, Len(accepted) <= count[q], Complete(q), Ordered(q),
           Len(accepted') = IF Head(net).by = q THEN Len(accepted) + 1 ELSE Len(accepted),
           Head(net).by = q => Head(net).n = Len(accepted) + 1
    PROVE  Complete(q)' /\ Ordered(q)'
<1>1. /\ Head(net) = net[1] /\ Len(net') = Len(net) - 1 /\ Len(net) \in Nat
      /\ \A i \in 1..Len(net') : net'[i] = net[i + 1] /\ i + 1 \in 1..Len(net)
      /\ 1 \in 1..Len(net)
  BY HeadOfNet
<1>2. Len(accepted) \in Nat /\ count[q] \in Nat
  BY LenProperties DEF Types
<1>3. InHand(q)' = InHand(q)
  BY DEF InHand
<1>4. \A i \in InTransit(q)' : i + 1 \in InTransit(q) /\ net'[i] = net[i + 1] /\ i \in Nat
  BY <1>1 DEF InTransit
<1>5. \A i \in InTransit(q) : i = 1 \/ (i - 1 \in InTransit(q)' /\ net'[i - 1] = net[i])
  <2> SUFFICES ASSUME NEW i \in InTransit(q), i # 1
               PROVE  i - 1 \in InTransit(q)' /\ net'[i - 1] = net[i]
    OBVIOUS
  <2>1. i - 1 \in 1..Len(net') /\ (i - 1) + 1 = i /\ net[i].by = q
    BY <1>1 DEF InTransit
  <2>2. net'[i - 1] = net[i]
    BY <1>1, <2>1
  <2> QED BY <2>1, <2>2 DEF InTransit
<1>6. Len(accepted) <= Len(accepted') /\ Len(accepted') \in Nat
  BY <1>2
<1>7. Complete(q)'
  <2> SUFFICES ASSUME NEW n \in Len(accepted') + 1..count[q]
               PROVE  \/ \E i \in InTransit(q)' : net'[i].n = n
                      \/ \E t \in InHand(q) : held[t].n = n
    BY <1>3 DEF Complete
  <2>1. n \in Len(accepted) + 1..count[q]
    BY <1>2, <1>6
  <2>2. ASSUME NEW i \in InTransit(q), net[i].n = n PROVE \E j \in InTransit(q)' : net'[j].n = n
    <3>1. i # 1
      <4> SUFFICES ASSUME i = 1 PROVE FALSE
        OBVIOUS
      <4>1. Head(net).by = q /\ Head(net).n = n
        BY <1>1, <2>2 DEF InTransit
      <4> QED BY <1>2, <4>1
    <3> QED BY <1>5, <2>2, <3>1
  <2> QED BY <2>1, <2>2 DEF Complete
<1>8. \A n \in Len(accepted) + 1..count[q] :
          n # Len(accepted) + 1 \/ Len(accepted') = Len(accepted)
              => n \in Len(accepted') + 1..count[q]
  BY <1>2
<1>9. Head(net).by = q => 1 \in InTransit(q) /\ net[1].n = Len(accepted) + 1
  BY <1>1 DEF InTransit
<1>10. Ordered(q)'
  <2>1. \A i \in InTransit(q)' : net'[i].n \in Len(accepted') + 1..count[q]
    <3> SUFFICES ASSUME NEW i \in InTransit(q)'
                 PROVE  net[i + 1].n \in Len(accepted') + 1..count[q]
      BY <1>4
    <3>1. net[i + 1].n \in Len(accepted) + 1..count[q]
      BY <1>4 DEF Ordered
    <3>2. Head(net).by = q => net[1].n < net[i + 1].n
      <4>1. i \in Nat /\ i + 1 \in 1..Len(net) /\ 1 < i + 1
        BY <1>1, <1>4 DEF InTransit
      <4> QED BY <1>4, <1>9, <4>1 DEF Ordered
    <3> QED BY <1>2, <1>8, <1>9, <3>1, <3>2
  <2>2. \A t \in InHand(q) : held[t].n \in Len(accepted') + 1..count[q]
    <3> SUFFICES ASSUME NEW t \in InHand(q)
                 PROVE  held[t].n \in Len(accepted') + 1..count[q]
      OBVIOUS
    <3>1. held[t].n \in Len(accepted) + 1..count[q]
      BY DEF Ordered
    <3>2. Head(net).by = q => net[1].n < held[t].n
      BY <1>9 DEF Ordered
    <3> QED BY <1>2, <1>8, <1>9, <3>1, <3>2
  <2>3. ASSUME NEW i \in InTransit(q)', NEW j \in InTransit(q)', i < j
        PROVE  net'[i].n < net'[j].n
    <3>1. i + 1 < j + 1
      BY <1>4, <2>3
    <3> QED BY <1>4, <3>1 DEF Ordered
  <2>4. \A i \in InTransit(q)', t \in InHand(q) : net'[i].n < held[t].n
    BY <1>4 DEF Ordered
  <2> QED BY <1>3, <2>1, <2>2, <2>3, <2>4 DEF Ordered
<1> QED BY <1>7, <1>10

LEMMA AcceptedGrows ==
    ASSUME Types, NEW f \in Frame, accepted' = Append(accepted, f)
    PROVE  /\ accepted' \in Seq(Frame)
           /\ Len(accepted') = Len(accepted) + 1 /\ Len(accepted) \in Nat
           /\ DOMAIN accepted = 1..Len(accepted) /\ DOMAIN accepted' = 1..Len(accepted')
           /\ \A i \in 1..Len(accepted) : accepted'[i] = accepted[i]
           /\ accepted'[Len(accepted) + 1] = f
<1> accepted \in Seq(Frame)
  BY DEF Types
<1> QED BY AppendProperties, LenProperties

(* The new frame follows the one accepted before it. *)
LEMMA AcceptKeepsSafety ==
    ASSUME IInv, NEW f \in Frame, CrcMatches(f), InSequence(f),
           first' = FALSE, last' = f.counter, accepted' = Append(accepted, f)
    PROVE  AcceptedIsAuthentic' /\ Remembers' /\ NoSilentGap'
<1> USE DEF IInv
<1>1. /\ Len(accepted') = Len(accepted) + 1 /\ Len(accepted) \in Nat
      /\ DOMAIN accepted = 1..Len(accepted) /\ DOMAIN accepted' = 1..Len(accepted')
      /\ \A i \in 1..Len(accepted) : accepted'[i] = accepted[i]
      /\ accepted'[Len(accepted) + 1] = f
      /\ accepted' \in Seq(Frame)
  BY AcceptedGrows
<1>2. \A i \in DOMAIN accepted' : i \in DOMAIN accepted \/ i = Len(accepted) + 1
  BY <1>1
<1>3. AcceptedIsAuthentic'
  <2>1. /\ ConfigOf[f.by] = ReceiverConfig
        /\ f.counter = (f.n - 1) % M
        /\ f.payload \in Payloads
        /\ f.crc = Crc(ConfigOf[f.by], f.counter, f.payload)
    BY MatchIsAuthentic
  <2> QED BY <1>1, <1>2, <2>1 DEF AcceptedIsAuthentic
<1>4. Remembers'
  BY <1>1 DEF Remembers
<1>5. NoSilentGap'
  <2> SUFFICES ASSUME NEW i \in 1..Len(accepted') - 1
               PROVE  LET d == accepted'[i + 1].n - accepted'[i].n
                      IN  d = 1 \/ d <= 1 - M \/ d >= 1 + M
    BY DEF NoSilentGap
  <2>1. CASE i \in 1..Len(accepted) - 1
    <3>1. accepted'[i] = accepted[i] /\ accepted'[i + 1] = accepted[i + 1]
      BY <1>1, <2>1
    <3> QED BY <2>1, <3>1 DEF NoSilentGap
  <2>2. CASE i = Len(accepted) /\ Len(accepted) # 0
    <3> DEFINE g == accepted[i]
    <3>1. i \in DOMAIN accepted /\ accepted'[i] = g /\ accepted'[i + 1] = f
      BY <1>1, <2>2
    <3>2. g \in Frame /\ f.n \in Nat \ {0} /\ g.n \in Nat \ {0}
      BY <1>1, <3>1, ElementOfSeq, FrameFields DEF Types
    <3>3. ~first /\ last = g.counter
      BY <2>2 DEF Remembers
    <3>4. f.counter = (last + 1) % M
      BY <3>3 DEF InSequence
    <3>5. f.counter = (f.n - 1) % M /\ g.counter = (g.n - 1) % M
      BY <3>1, MatchIsAuthentic DEF AcceptedIsAuthentic
    <3>6. (f.n - 1) % M = (((g.n - 1) % M) + 1) % M
      BY <3>3, <3>4, <3>5
    <3>7. f.n - 1 \in Int /\ g.n - 1 \in Int /\ (f.n - 1) - (g.n - 1) = f.n - g.n
      BY <3>2
    <3>8. LET d == (f.n - 1) - (g.n - 1) IN d = 1 \/ d <= 1 - M \/ d >= 1 + M
      BY <3>6, <3>7, ModGap
    <3> QED BY <3>1, <3>7, <3>8
  <2>3. i \in 1..Len(accepted) - 1 \/ (i = Len(accepted) /\ Len(accepted) # 0)
    <3> DEFINE a == Len(accepted)
    <3>1. a \in Nat /\ i \in 1..(a + 1) - 1
      BY <1>1
    <3> HIDE DEF a, IInv
    <3>2. i \in 1..a - 1 \/ (i = a /\ a # 0)
      BY <3>1
    <3> QED BY <3>2 DEF a
  <2> QED BY <2>1, <2>2, <2>3
<1> QED BY <1>3, <1>4, <1>5

LEMMA UnwrapIInv == ASSUME IInv, Unwrap PROVE IInv'
<1> USE DEF IInv
<1> DEFINE f == Head(net)
<1>1. net # << >> /\ net' = Tail(net) /\ UNCHANGED <<seq, held, count, faults, overtaken>>
  BY DEF Unwrap
<1>2. /\ f \in Frame /\ net' \in Seq(Frame) /\ Len(net) \in Nat /\ f = net[1]
      /\ \A i \in 1..Len(net') : net'[i] = net[i + 1] /\ i + 1 \in 1..Len(net)
      /\ 1 \in 1..Len(net)
  BY <1>1, HeadOfNet
<1>3. f.by \in Protectors /\ f.counter \in 0..M - 1
  BY <1>2, FrameFields
<1>4. AllUntouched => AllUntouched'
  BY <1>1, <1>2 DEF AllUntouched, Untouched
<1>5. CASE verdict' = "accepted"
  <2>1. /\ ~f.short /\ CrcMatches(f) /\ InSequence(f)
        /\ first' = FALSE /\ last' = f.counter /\ accepted' = Append(accepted, f)
    BY <1>5 DEF Unwrap
  <2>2. /\ Len(accepted') = Len(accepted) + 1 /\ Len(accepted) \in Nat
        /\ accepted' \in Seq(Frame)
        /\ \A i \in 1..Len(accepted) : accepted'[i] = accepted[i]
        /\ accepted'[Len(accepted) + 1] = f
    BY <1>2, <2>1, AcceptedGrows
  <2>3. Types'
    BY <1>1, <1>2, <1>3, <1>5, <2>1, <2>2 DEF Types
  <2>4. AcceptedIsAuthentic' /\ Remembers' /\ NoSilentGap'
    BY <1>2, <2>1, AcceptKeepsSafety
  <2>5. NoFalseAlarm'
    BY <1>5 DEF NoFalseAlarm
  <2>6. Undisturbed'
    <3> SUFFICES ASSUME faults = 0, ~overtaken PROVE
          /\ AllUntouched' /\ Numbered'
          /\ \A q \in Protectors : ConfigOf[q] = ReceiverConfig =>
                Len(accepted') <= count[q] /\ Complete(q)' /\ Ordered(q)'
      BY <1>1 DEF Undisturbed
    <3>1. ConfigOf[f.by] = ReceiverConfig
      BY <1>2, <2>1, MatchIsAuthentic
    <3>2. f.n = Len(accepted) + 1 /\ Len(accepted) + 1 <= count[f.by]
      BY <1>1, <3>1, ArrivesInOrder
    <3>3. Numbered'
      <4>1. \A i \in 1..Len(accepted') : i \in 1..Len(accepted) \/ i = Len(accepted) + 1
        BY <2>2
      <4> QED BY <2>2, <3>2, <4>1 DEF Undisturbed, Numbered
    <3>4. ASSUME NEW q \in Protectors, ConfigOf[q] = ReceiverConfig
          PROVE  Len(accepted') <= count[q] /\ Complete(q)' /\ Ordered(q)'
      <4>1. q = f.by
        BY <1>3, <3>1, <3>4, E2EAssumption
      <4>2. Len(accepted) <= count[q] /\ Complete(q) /\ Ordered(q)
        BY <3>4 DEF Undisturbed
      <4>3. Complete(q)' /\ Ordered(q)'
        BY <1>1, <2>2, <3>2, <4>1, <4>2, TakenInOrder
      <4> QED BY <2>2, <3>2, <4>1, <4>3
    <3> QED BY <1>4, <3>3, <3>4 DEF Undisturbed
  <2> QED BY <2>3, <2>4, <2>5, <2>6
<1>6. CASE verdict' # "accepted"
  <2>1. UNCHANGED <<last, first, accepted>>
    BY <1>6 DEF Unwrap
  <2>2. verdict' \in {"HeaderTooShort", "CRCMismatch", "SequenceGap"}
    BY <1>6 DEF Unwrap
  <2>3. Types'
    BY <1>1, <1>2, <2>1, <2>2 DEF Types
  <2>4. AcceptedIsAuthentic' /\ Remembers' /\ NoSilentGap'
    BY <2>1 DEF AcceptedIsAuthentic, Remembers, NoSilentGap
  <2>5. \/ f.short \/ ~CrcMatches(f) \/ ~InSequence(f)
    BY <1>6 DEF Unwrap
  <2>6. ASSUME faults = 0, ~overtaken PROVE ConfigOf[f.by] # ReceiverConfig
    BY <1>1, <2>5, <2>6, ArrivesInOrder
  <2>7. NoFalseAlarm'
    <3> SUFFICES ASSUME faults = 0, ~overtaken
                 PROVE  /\ verdict' = "CRCMismatch"
                        /\ \E p \in Protectors : ConfigOf[p] # ReceiverConfig
      BY <1>1 DEF NoFalseAlarm
    <3>1. ConfigOf[f.by] # ReceiverConfig
      BY <2>6
    <3>2. ~CrcMatches(f)
      BY <1>2, <3>1, MatchIsAuthentic
    <3>3. ~f.short
      BY <1>2 DEF Undisturbed, AllUntouched, Untouched
    <3> QED BY <1>3, <3>1, <3>2, <3>3 DEF Unwrap
  <2>8. Undisturbed'
    <3> SUFFICES ASSUME faults = 0, ~overtaken PROVE
          \A q \in Protectors : ConfigOf[q] = ReceiverConfig =>
              Complete(q)' /\ Ordered(q)'
      BY <1>1, <1>4, <2>1 DEF Undisturbed, Numbered
    <3>1. ASSUME NEW q \in Protectors, ConfigOf[q] = ReceiverConfig
          PROVE  Complete(q)' /\ Ordered(q)'
      <4>1. q # f.by
        BY <2>6, <3>1
      <4>2. Len(accepted) <= count[q] /\ Complete(q) /\ Ordered(q)
        BY <3>1 DEF Undisturbed
      <4> QED BY <1>1, <2>1, <4>1, <4>2, TakenInOrder
    <3> QED BY <3>1
  <2> QED BY <2>3, <2>4, <2>7, <2>8
<1> QED BY <1>5, <1>6

-----------------------------------------------------------------------------
LEMMA NextIInv == ASSUME IInv, [Next]_vars PROVE IInv'
<1>1. ASSUME NEW t \in Threads, NEW p \in Protectors, NEW d \in Payloads, Protect(t, p, d)
      PROVE  IInv'
  BY <1>1, ProtectIInv
<1>2. ASSUME NEW t \in Threads, Transmit(t) PROVE IInv'
  BY <1>2, TransmitIInv
<1>3. ASSUME NEW kind \in Faults, NEW i \in DOMAIN net, Fault(kind, i) PROVE IInv'
  BY <1>3, FaultIInv
<1>4. CASE Unwrap  BY <1>4, UnwrapIInv
<1>5. CASE UNCHANGED vars
  BY <1>5 DEF vars, receiver, history, IInv, Types, AcceptedIsAuthentic, Remembers,
              NoSilentGap, Undisturbed, AllUntouched, Numbered, Complete, Ordered,
              InTransit, InHand, NoFalseAlarm
<1> QED BY <1>1, <1>2, <1>3, <1>4, <1>5 DEF Next

LEMMA Invariance == Spec => []IInv
<1>1. IInv /\ [Next]_vars => IInv'
  BY NextIInv
<1>2. Init => IInv
  BY InitIInv
<1> QED BY <1>1, <1>2, PTL DEF Spec

(* The counters stay in their range, wrapping included, and a protector's  *)
(* counter is the number of its calls modulo the range (seq_++).           *)
THEOREM TypeCorrect == Spec => []TypeOK
<1>1. IInv => TypeOK
  <2> SUFFICES ASSUME IInv PROVE TypeOK
    OBVIOUS
  <2>1. ASSUME NEW i \in DOMAIN net PROVE net[i].counter \in 0..M - 1
    <3>1. net[i] \in Frame
      BY ElementOfSeq, LenProperties DEF IInv, Types
    <3> QED BY <3>1, FrameFields
  <2> QED BY <2>1 DEF IInv, Types, TypeOK
<1> QED BY <1>1, Invariance, PTL

(* unwrap accepts only what the receiver's own peer protected: no frame of *)
(* a protector with another configuration, none with a changed counter,    *)
(* CRC or payload, whatever the transport does.                            *)
THEOREM Authentic == Spec => []AcceptedIsAuthentic
<1>1. IInv => AcceptedIsAuthentic
  BY DEF IInv
<1> QED BY <1>1, Invariance, PTL

(* No frame lost, repeated or out of order goes unnoticed, short of a      *)
(* whole round of the counter, also across the wrap and after rejections.  *)
THEOREM GapsNoticed == Spec => []NoSilentGap
<1>1. IInv => NoSilentGap
  BY DEF IInv
<1> QED BY <1>1, Invariance, PTL

(* Without faults and without threads overtaking each other, unwrap        *)
(* rejects no frame of its peer, for any number of frames and wraps.       *)
THEOREM NothingRejectedWrongly == Spec => []NoFalseAlarm
<1>1. IInv => NoFalseAlarm
  BY DEF IInv
<1> QED BY <1>1, Invariance, PTL

=============================================================================
