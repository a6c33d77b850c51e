------------------------------ MODULE LinAdapter ------------------------------
(***************************************************************************)
(* lin::LinAdapter (src/lin.cpp): a bus seen as a relay::INode.  send()    *)
(* turns a relay::Message into a registered response.  subscribe() makes   *)
(* two channels with a detached thread between them: the bus puts frames   *)
(* in the first (always DropNewest, whatever the caller asked for), the    *)
(* thread numbers and converts them and puts them in the second with the   *)
(* caller's back-pressure policy.                                          *)
(*                                                                         *)
(* A header is one step here: its broadcast holds the bus's lock and its   *)
(* offers go to different channels (VirtualBus has it step by step).       *)
(***************************************************************************)
EXTENDS Integers, Sequences, FiniteSetsExt

CONSTANTS
    Texts,       \* Message::id strings, as the number stoull reads in them
    MaxID,       \* kLINMaxID
    NotANumber,  \* the value of a string in which stoull finds no number
    DiagIds,
    Requests,    \* what subscribe is called with: sequences of options
    InnerDepth,  \* depth of the bus's channel, 64 in the code
    DefaultDepth, \* depth of the adapter's channel on no request, 64 as well
    SelfClosers, \* subscriptions whose consumer may close its channel
    MaxSubs, MaxHeaders   \* bounds of the state space

(* stoull reads the number at the front of the string and ignores what     *)
(* follows it: "16" and "16abc" are the same member of Texts.              *)
ASSUME AdapterAssumption ==
    /\ MaxID \in Nat
    /\ Texts \subseteq Nat \cup {NotANumber}
    /\ NotANumber \notin Nat
    /\ DiagIds \subseteq 0..MaxID
    /\ Requests \subseteq Seq([policy : {"DropNewest", "DropOldest", "Block"}]
                               \cup [depth : Int])
    /\ InnerDepth \in Nat \ {0} /\ DefaultDepth \in Nat \ {0}
    /\ MaxSubs \in Nat /\ MaxHeaders \in Nat

VARIABLES
    responses,  \* the bus's responses_: the checksum type, the data is left out
    busClosed,
    frameCh,    \* per subscription the bus's channel: a sequence of frames
    pump,       \* per subscription the thread: [at, seq, msg]
    out,        \* per subscription the adapter's channel: [items, policy, depth, closed]
    got,        \* messages each consumer has received
    ended,      \* subscriptions whose consumer has been told nullopt
    sent,       \* history: number of headers
    entered     \* history: per subscription the frames that entered frameCh

vars == <<responses, busClosed, frameCh, pump, out, got, ended, sent, entered>>

NoMessage == [seq |-> 0]

Subs == DOMAIN out

Init ==
    /\ responses = << >>
    /\ busClosed = FALSE
    /\ frameCh = << >> /\ pump = << >> /\ out = << >> /\ got = << >>
    /\ ended = {}
    /\ sent = 0
    /\ entered = << >>

-----------------------------------------------------------------------------
(* send() *)

ChecksumMeta == {"absent", "classic", "enhanced", "other"}

(* from_message: the identifier, as far as stoull reads the string, must   *)
(* be in range and lin.checksum_type known.                                *)
Converts(text, meta) ==
    text # NotANumber /\ text <= MaxID /\ meta # "other"

(* A message without lin.checksum_type is classic, a diagnostic one too.   *)
ChecksumOf(id, meta) ==
    IF meta = "enhanced" /\ id \notin DiagIds THEN "enhanced" ELSE "classic"

Register(id, ct) ==
    responses' = [i \in DOMAIN responses \cup {id} |-> IF i = id THEN ct ELSE responses[i]]

Deregister(id) == responses' = [i \in DOMAIN responses \ {id} |-> responses[i]]

(* A message that does not convert (ErrPayloadTooLarge) and one that finds *)
(* the bus closed (ErrClosed) register nothing.                            *)
Send(id, meta, empty) ==
    /\ Converts(id, meta)
    /\ ~busClosed
    /\ IF empty THEN Deregister(id) ELSE Register(id, ChecksumOf(id, meta))
    /\ UNCHANGED <<busClosed, frameCh, pump, out, got, ended, sent, entered>>

-----------------------------------------------------------------------------
(* subscribe(), and close() of the adapter or of the bus under it *)

(* What the last option about a field says of it, or else its default.     *)
Said(opts, field, default) ==
    LET about == {i \in DOMAIN opts : field \in DOMAIN opts[i]}
    IN  IF about = {} THEN {default}
        ELSE {opts[i][field] : i \in {n \in about : \A j \in about : j <= n}}

(* Each option overrides what an earlier one said: the set of the one      *)
(* configuration that results.                                             *)
apply_options(opts) ==
    [policy : Said(opts, "policy", "DropNewest"), depth : Said(opts, "depth", 0)]

(* Mutant: the depth is taken as it was asked for. *)
effective_depthAsAsked(cfg, default) == cfg.depth

(* A depth of 0 or below asks for the default.                             *)
effective_depth(cfg, default) == IF cfg.depth > 0 THEN cfg.depth ELSE default

Subscribe(opts) ==
    /\ ~busClosed
    /\ Len(out) < MaxSubs
    /\ frameCh' = Append(frameCh, << >>)
    /\ pump' = Append(pump, [at |-> "recv", seq |-> 0, msg |-> NoMessage])
    /\ \E cfg \in apply_options(opts) :
          out' = Append(out, [items |-> << >>, policy |-> cfg.policy,
                              depth |-> effective_depth(cfg, DefaultDepth),
                              closed |-> FALSE])
    /\ got' = Append(got, << >>)
    /\ entered' = Append(entered, << >>)
    /\ UNCHANGED <<responses, busClosed, ended, sent>>

(* frameCh is closed with the bus. *)
Close ==
    /\ busClosed' = TRUE
    /\ UNCHANGED <<responses, frameCh, pump, out, got, ended, sent, entered>>

(* A master polls the identifier; a full frameCh drops the frame. *)
SendHeader(id) ==
    /\ ~busClosed
    /\ id \in DOMAIN responses
    /\ sent < MaxHeaders
    /\ sent' = sent + 1
    /\ LET f == [id |-> id, ct |-> responses[id], stamp |-> sent + 1]
           Accepts(s) == Len(frameCh[s]) < InnerDepth
       IN  /\ frameCh' = [s \in Subs |-> IF Accepts(s) THEN Append(frameCh[s], f)
                                         ELSE frameCh[s]]
           /\ entered' = [s \in Subs |-> IF Accepts(s) THEN Append(entered[s], f)
                                         ELSE entered[s]]
    /\ UNCHANGED <<responses, busClosed, pump, out, got, ended>>

-----------------------------------------------------------------------------
(* The detached thread of a subscription *)

(* Mutant: one counter for all subscriptions of the adapter. *)
PumpRecvSharedSeq(s) ==
    /\ pump[s].at = "recv"
    /\ frameCh[s] # << >>
    /\ LET f == Head(frameCh[s])
           n == Max({pump[t].seq : t \in Subs}) + 1
       IN  pump' = [pump EXCEPT ![s] = [at |-> "offer", seq |-> n,
                       msg |-> [id |-> f.id, ct |-> f.ct, seq |-> n, stamp |-> f.stamp]]]
    /\ frameCh' = [frameCh EXCEPT ![s] = Tail(@)]
    /\ UNCHANGED <<responses, busClosed, out, got, ended, sent, entered>>

(* recv() and to_message(); the identifier and the checksum type survive   *)
(* the conversion, stamp is known to the properties only.                  *)
PumpRecv(s) ==
    /\ pump[s].at = "recv"
    /\ frameCh[s] # << >>
    /\ LET f == Head(frameCh[s])
           n == pump[s].seq + 1
       IN  pump' = [pump EXCEPT ![s] = [at |-> "offer", seq |-> n,
                       msg |-> [id |-> f.id, ct |-> f.ct, seq |-> n, stamp |-> f.stamp]]]
    /\ frameCh' = [frameCh EXCEPT ![s] = Tail(@)]
    /\ UNCHANGED <<responses, busClosed, out, got, ended, sent, entered>>

(* Mutant: the thread leaves as soon as the bus is closed. *)
PumpEndsEarly(s) ==
    /\ pump[s].at = "recv"
    /\ busClosed
    /\ pump' = [pump EXCEPT ![s].at = "done"]
    /\ out' = [out EXCEPT ![s].closed = TRUE]
    /\ UNCHANGED <<responses, busClosed, frameCh, got, ended, sent, entered>>

(* nullopt from frameCh: out is closed and the thread ends. *)
PumpEnd(s) ==
    /\ pump[s].at = "recv"
    /\ frameCh[s] = << >> /\ busClosed
    /\ pump' = [pump EXCEPT ![s].at = "done"]
    /\ out' = [out EXCEPT ![s].closed = TRUE]
    /\ UNCHANGED <<responses, busClosed, frameCh, got, ended, sent, entered>>

(* Mutant: room is tested with <=. *)
HasRoomOffByOne(s) == Len(out[s].items) <= out[s].depth

HasRoom(s) == Len(out[s].items) < out[s].depth

Push(s) == out' = [out EXCEPT ![s].items = Append(@, pump[s].msg)]

(* Mutant: send for every policy. *)
PumpOfferAlwaysWaits(s) ==
    /\ pump[s].at = "offer"
    /\ \/ out[s].closed /\ UNCHANGED out
       \/ ~out[s].closed /\ HasRoom(s) /\ Push(s)
    /\ pump' = [pump EXCEPT ![s].at = "recv", ![s].msg = NoMessage]
    /\ UNCHANGED <<responses, busClosed, frameCh, got, ended, sent, entered>>

(* try_send, send_drop_oldest or send; the answer is ignored.  Only send   *)
(* waits, for room or for the consumer to close the channel.               *)
PumpOffer(s) ==
    /\ pump[s].at = "offer"
    /\ \/ out[s].closed /\ UNCHANGED out
       \/ ~out[s].closed /\ HasRoom(s) /\ Push(s)
       \/ /\ ~out[s].closed /\ ~HasRoom(s)
          /\ out[s].policy = "DropNewest"
          /\ UNCHANGED out
       \/ /\ ~out[s].closed /\ ~HasRoom(s)
          /\ out[s].policy = "DropOldest"
          /\ out' = [out EXCEPT ![s].items = Append(Tail(@), pump[s].msg)]
    /\ pump' = [pump EXCEPT ![s].at = "recv", ![s].msg = NoMessage]
    /\ UNCHANGED <<responses, busClosed, frameCh, got, ended, sent, entered>>

Pump(s) == PumpRecv(s) \/ PumpEnd(s) \/ PumpOffer(s)

-----------------------------------------------------------------------------
(* The consumers *)

Recv(s) ==
    /\ out[s].items # << >>
    /\ got' = [got EXCEPT ![s] = Append(@, Head(out[s].items))]
    /\ out' = [out EXCEPT ![s].items = Tail(@)]
    /\ UNCHANGED <<responses, busClosed, frameCh, pump, ended, sent, entered>>

RecvEnd(s) ==
    /\ out[s].items = << >> /\ out[s].closed
    /\ s \notin ended
    /\ ended' = ended \cup {s}
    /\ UNCHANGED <<responses, busClosed, frameCh, pump, out, got, sent, entered>>

SelfClose(s) ==
    /\ s \in SelfClosers
    /\ ~out[s].closed
    /\ out' = [out EXCEPT ![s].closed = TRUE]
    /\ UNCHANGED <<responses, busClosed, frameCh, pump, got, ended, sent, entered>>

-----------------------------------------------------------------------------
Next ==
    \/ \E t \in Texts, meta \in ChecksumMeta, empty \in BOOLEAN : Send(t, meta, empty)
    \/ \E opts \in Requests : Subscribe(opts)
    \/ Close
    \/ \E id \in 0..MaxID : SendHeader(id)
    \/ \E s \in Subs : Pump(s) \/ Recv(s) \/ RecvEnd(s) \/ SelfClose(s)

(* The detached threads run; consumers may stop reading. *)
Spec == Init /\ [][Next]_vars /\ \A s \in 1..MaxSubs : WF_vars(s \in Subs /\ Pump(s))

ConsumerFairness == \A s \in 1..MaxSubs : WF_vars(s \in Subs /\ (Recv(s) \/ RecvEnd(s)))

-----------------------------------------------------------------------------
(* Type invariant *)
TypeOK ==
    /\ DOMAIN responses \subseteq 0..MaxID
    /\ \A i \in DOMAIN responses : responses[i] \in {"classic", "enhanced"}
    /\ busClosed \in BOOLEAN
    /\ \A s \in Subs : /\ Len(frameCh[s]) <= InnerDepth
                       /\ Len(out[s].items) <= out[s].depth
                       /\ pump[s].at \in {"recv", "offer", "done"}
    /\ ended \subseteq Subs
    /\ sent \in 0..MaxHeaders

(* What got through the second channel or can still do so, in order. *)
Passed(s) == got[s] \o out[s].items

(* seq tells the consumer exactly what the second hop dropped: message n   *)
(* of a subscription is the n-th frame that the bus put into its channel,  *)
(* converted, and messages arrive in the order of their numbers, whatever  *)
(* the policy drops and whatever the other subscriptions do.               *)
SeqNumbersFrames ==
    \A s \in Subs :
        /\ \A i \in DOMAIN Passed(s) :
              LET m == Passed(s)[i]
              IN  /\ m.seq \in DOMAIN entered[s]
                  /\ [id |-> m.id, ct |-> m.ct, stamp |-> m.stamp] = entered[s][m.seq]
        /\ \A i, j \in DOMAIN Passed(s) : i < j => Passed(s)[i].seq < Passed(s)[j].seq

(* Under the Block policy the second hop loses nothing: numbers are        *)
(* consecutive, and when the consumer is told that the stream ended it has *)
(* every frame that entered the first channel, also those that were in it  *)
(* when the bus closed.  (The first channel drops what finds it full.)     *)
BlockForwardsEverything ==
    \A s \in Subs \ SelfClosers : out[s].policy = "Block" =>
        /\ \A i \in DOMAIN Passed(s) : Passed(s)[i].seq = i
        /\ s \in ended => Len(got[s]) = Len(entered[s])

(* The threads end after a close, when the consumers keep reading or when  *)
(* no subscription has the Block policy (sas.md, M-07: "Background         *)
(* subscriber threads exit when the underlying Chan<Frame> is closed").    *)
NoBlockSubscription == \A s \in Subs : out[s].policy # "Block"

PumpsExit ==
    ConsumerFairness \/ []NoBlockSubscription =>
        (busClosed ~> \A s \in Subs : pump[s].at = "done")

(* Every consumer that keeps reading is told of the end, whatever depth it *)
(* asked for.                                                              *)
ConsumersFinish == ConsumerFairness => (busClosed ~> ended = Subs)

=============================================================================
