--------------------------------- MODULE E2E ---------------------------------
(***************************************************************************)
(* lin::safety::Protector and Receiver (src/safety/e2e.cpp) at the two     *)
(* ends of a transport that may lose, repeat, swap, truncate or corrupt    *)
(* what it carries.  On this bus all of that is ordinary: a response slot  *)
(* that is published again before it is polled loses a frame, one that is  *)
(* polled twice repeats it, and subscriber channels drop.                  *)
(*                                                                         *)
(* The CRC is represented by what it was computed over: it matches exactly *)
(* when that is the same.  CRC-16 does so for every change of up to 16     *)
(* adjacent bits.                                                          *)
(***************************************************************************)
EXTENDS Integers, Sequences

CONSTANTS
    Protectors,      \* the Protector objects
    ConfigOf,        \* ConfigOf[p] is the Config (DataID, SourceID) of p
    ReceiverConfig,  \* the Receiver's Config
    Threads,         \* threads that protect a payload and send the result
    Payloads,
    M,               \* counter values: 2^32 in the code
    Faults,          \* what the transport may do
    MaxFrames, MaxFaults, MaxNet   \* bounds of the state space

FaultKinds == {"lose", "repeat", "swap", "truncate",
               "flip_ids", "flip_counter", "flip_crc", "flip_payload"}

ASSUME E2EAssumption ==
    /\ M \in Nat \ {0, 1}
    /\ Faults \subseteq FaultKinds
    /\ \A p, q \in Protectors : ConfigOf[p] = ConfigOf[q] => p = q
    /\ MaxFrames \in Nat /\ MaxFaults \in Nat /\ MaxNet \in Nat

VARIABLES
    seq,       \* seq_ of each protector
    held,      \* what each thread has protected and not sent yet
    net,       \* the transport, in order
    last,      \* last_seq_
    first,     \* first_
    verdict,   \* how the last unwrap ended
    count,     \* history: protect calls of each protector
    accepted,  \* history: the frames unwrap accepted
    faults,    \* history: faults so far
    overtaken  \* history: two payloads of one protector were sent out of order

receiver == <<last, first, verdict>>
history == <<count, accepted, faults, overtaken>>
vars == <<seq, held, net, receiver, history>>

Nothing == [n |-> 0]

(* What the CRC is computed over: header bytes 0-7 and the payload. *)
Crc(config, s, payload) == <<config, s, payload>>

Init ==
    /\ seq = [p \in Protectors |-> 0]
    /\ held = [t \in Threads |-> Nothing]
    /\ net = << >>
    /\ last = 0
    /\ first = TRUE
    /\ verdict = "none"
    /\ count = [p \in Protectors |-> 0]
    /\ accepted = << >>
    /\ faults = 0
    /\ overtaken = FALSE

-----------------------------------------------------------------------------
(* Mutant: the counter is read and written back in two steps that another  *)
(* thread can separate, so that its increment may be lost.                 *)
ProtectNotAtomic(t, p, payload) ==
    /\ held[t] = Nothing
    /\ count[p] < MaxFrames
    /\ seq' \in {seq, [seq EXCEPT ![p] = (@ + 1) % M]}
    /\ count' = [count EXCEPT ![p] = @ + 1]
    /\ held' = [held EXCEPT ![t] =
           [n |-> count[p] + 1, by |-> p, short |-> FALSE,
            ids |-> ConfigOf[p], counter |-> seq[p], payload |-> payload,
            crc |-> Crc(ConfigOf[p], seq[p], payload), sound |-> TRUE]]
    /\ UNCHANGED <<net, receiver, accepted, faults, overtaken>>

(* protect: seq_++ is atomic and wraps; the rest works on local data.  n,  *)
(* by and sound are known to the properties only.                          *)
Protect(t, p, payload) ==
    /\ held[t] = Nothing
    /\ count[p] < MaxFrames
    /\ seq' = [seq EXCEPT ![p] = (@ + 1) % M]
    /\ count' = [count EXCEPT ![p] = @ + 1]
    /\ held' = [held EXCEPT ![t] =
           [n |-> count[p] + 1, by |-> p, short |-> FALSE,
            ids |-> ConfigOf[p], counter |-> seq[p], payload |-> payload,
            crc |-> Crc(ConfigOf[p], seq[p], payload), sound |-> TRUE]]
    /\ UNCHANGED <<net, receiver, accepted, faults, overtaken>>

(* The thread sends what it protected; another may have been faster. *)
Transmit(t) ==
    /\ held[t] # Nothing
    /\ Len(net) < MaxNet
    /\ net' = Append(net, held[t])
    /\ held' = [held EXCEPT ![t] = Nothing]
    /\ overtaken' = (overtaken \/ \E u \in Threads : /\ held[u] # Nothing
                                                    /\ held[u].by = held[t].by
                                                    /\ held[u].n < held[t].n)
    /\ UNCHANGED <<seq, receiver, count, accepted, faults>>

-----------------------------------------------------------------------------
(* The transport *)

Without(i) == SubSeq(net, 1, i - 1) \o SubSeq(net, i + 1, Len(net))

Flipped(f, kind) ==
    CASE kind = "truncate"     -> {[f EXCEPT !.short = TRUE, !.sound = FALSE]}
      [] kind = "flip_ids"     -> {[f EXCEPT !.ids = "flipped", !.sound = FALSE]}
      [] kind = "flip_counter" -> {[f EXCEPT !.counter = c, !.sound = FALSE] :
                                      c \in (0..M - 1) \ {f.counter}}
      [] kind = "flip_crc"     -> {[f EXCEPT !.crc = <<"flipped">>, !.sound = FALSE]}
      [] kind = "flip_payload" -> {[f EXCEPT !.payload = "flipped", !.sound = FALSE]}
      [] OTHER                 -> {}

Fault(kind, i) ==
    /\ faults < MaxFaults
    /\ faults' = faults + 1
    /\ \/ kind = "lose" /\ net' = Without(i)
       \/ kind = "repeat" /\ Len(net) < MaxNet /\ net' = Append(net, net[i])
       \/ /\ kind = "swap" /\ i < Len(net)
          /\ net' = [net EXCEPT ![i] = net[i + 1], ![i + 1] = net[i]]
       \/ net[i].sound /\ \E g \in Flipped(net[i], kind) : net' = [net EXCEPT ![i] = g]
    /\ UNCHANGED <<seq, held, receiver, count, accepted, overtaken>>

-----------------------------------------------------------------------------
(* unwrap *)

(* Mutant: the CRC is recomputed with the identifiers in the frame. *)
CrcMatchesAnySource(f) == f.crc = Crc(f.ids, f.counter, f.payload)

CrcMatches(f) == f.crc = Crc(ReceiverConfig, f.counter, f.payload)

(* Mutant: last_seq_ + 1 is not reduced to 32 bits. *)
InSequenceNoWrap(f) == first \/ f.counter = last + 1

InSequence(f) == first \/ f.counter = (last + 1) % M

(* Mutant: a frame that is out of sequence resynchronises the receiver. *)
UnwrapResyncs ==
    /\ net # << >>
    /\ LET f == Head(net)
       IN  /\ verdict' = IF f.short THEN "HeaderTooShort"
                         ELSE IF ~CrcMatches(f) THEN "CRCMismatch"
                         ELSE IF ~InSequence(f) THEN "SequenceGap" ELSE "accepted"
           /\ last' = IF f.short \/ ~CrcMatches(f) THEN last ELSE f.counter
           /\ first' = (first /\ (f.short \/ ~CrcMatches(f)))
           /\ accepted' = IF verdict' = "accepted" THEN Append(accepted, f) ELSE accepted
    /\ net' = Tail(net)
    /\ UNCHANGED <<seq, held, count, faults, overtaken>>

(* The checks in the order of the code; a frame that fails one leaves the  *)
(* receiver as it was.  The CRC is recomputed with the receiver's own      *)
(* DataID and SourceID, not with bytes 0-3 of the frame.                   *)
Unwrap ==
    /\ net # << >>
    /\ LET f == Head(net)
       IN  \/ f.short /\ verdict' = "HeaderTooShort" /\ UNCHANGED <<last, first, accepted>>
           \/ /\ ~f.short /\ ~CrcMatches(f)
              /\ verdict' = "CRCMismatch" /\ UNCHANGED <<last, first, accepted>>
           \/ /\ ~f.short /\ CrcMatches(f) /\ ~InSequence(f)
              /\ verdict' = "SequenceGap" /\ UNCHANGED <<last, first, accepted>>
           \/ /\ ~f.short /\ CrcMatches(f) /\ InSequence(f)
              /\ verdict' = "accepted"
              /\ first' = FALSE
              /\ last' = f.counter
              /\ accepted' = Append(accepted, f)
    /\ net' = Tail(net)
    /\ UNCHANGED <<seq, held, count, faults, overtaken>>

-----------------------------------------------------------------------------
Next ==
    \/ \E t \in Threads, p \in Protectors, d \in Payloads : Protect(t, p, d)
    \/ \E t \in Threads : Transmit(t)
    \/ \E kind \in Faults, i \in DOMAIN net : Fault(kind, i)
    \/ Unwrap

Spec == Init /\ [][Next]_vars

-----------------------------------------------------------------------------
(* Type invariant *)
TypeOK ==
    /\ seq \in [Protectors -> 0..M - 1]
    /\ last \in 0..M - 1 /\ first \in BOOLEAN
    /\ verdict \in {"none", "accepted", "HeaderTooShort", "CRCMismatch", "SequenceGap"}
    /\ \A i \in DOMAIN net : net[i].counter \in 0..M - 1
    /\ \A p \in Protectors : seq[p] = count[p] % M

(* Nothing is accepted that the receiver's own peer did not protect: no    *)
(* frame of a protector with another configuration, and no frame whose     *)
(* counter, CRC or payload changed on the way.                             *)
AcceptedIsAuthentic ==
    \A i \in DOMAIN accepted :
        LET f == accepted[i]
        IN  /\ ConfigOf[f.by] = ReceiverConfig
            /\ f.counter = (f.n - 1) % M
            /\ f.payload \in Payloads
            /\ f.crc = Crc(ConfigOf[f.by], f.counter, f.payload)

(* No frame lost, repeated or out of order goes unnoticed: from one        *)
(* accepted frame to the next the receiver accepts the very next frame     *)
(* protected.  The counter being finite, the exception is a frame that is  *)
(* a whole round of the counter too early or too late.  In particular a    *)
(* rejected frame never makes a later gap acceptable (H-04).               *)
NoSilentGap ==
    \A i \in 1..Len(accepted) - 1 :
        LET d == accepted[i + 1].n - accepted[i].n
        IN  d = 1 \/ d <= 1 - M \/ d >= 1 + M

(* No false alarm (REQ-SAFETY-011): without a fault, and without two       *)
(* threads overtaking each other, unwrap accepts every frame of its peer,  *)
(* also when the counter wraps.  It may only complain of a foreign frame.  *)
NoFalseAlarm ==
    faults = 0 /\ ~overtaken =>
        /\ verdict \notin {"SequenceGap", "HeaderTooShort"}
        /\ verdict = "CRCMismatch" => \E p \in Protectors : ConfigOf[p] # ReceiverConfig

(* sas.md, M-03: the CRC covers the whole header, so that no frame with a  *)
(* changed bit is accepted (SG-05).                                        *)
CorruptionDetected == \A i \in DOMAIN accepted : accepted[i].sound

=============================================================================
