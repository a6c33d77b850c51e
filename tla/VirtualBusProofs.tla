-------------------------- MODULE VirtualBusProofs --------------------------
(***************************************************************************)
(* Proofs about VirtualBus, for any masters, drainers, identifiers,        *)
(* payloads and subscriptions.  In this order:                             *)
(*   types, a bus that holds still under a broadcast, the final nullopt    *)
(*     (IInv)                                                              *)
(*   what the subscribers get (DInv)                                       *)
(*   the order in which they get it (OInv)                                 *)
(*   the Block policy (KInv), the counters (CInv) and close_with_drain     *)
(*     (ZInv)                                                              *)
(*   the bus implements AbstractBus, which needs IInv, DInv, OInv, KInv     *)
(***************************************************************************)
EXTENDS VirtualBus, SequenceTheorems, FiniteSetTheorems, TLAPS

(* The initial state has the types. *)
LEMMA InitType == Init => TypeOK
<1> SUFFICES ASSUME Init PROVE TypeOK
  OBVIOUS
<1> USE BusAssumption
<1>1. BusType /\ SubsType /\ ChannelType /\ HistoryType
  <2>1. \A S : << >> \in Seq(S)
    BY EmptySeq
  <2>2. Len(<< >>) = 0 /\ DOMAIN << >> = {}
    OBVIOUS
  <2>3. BusType
    BY <2>2 DEF Init, BusType
  <2>4. SubsType /\ ChannelType
    <3>1. \A i \in DOMAIN << >> : FALSE
      BY <2>2
    <3> QED BY <2>1, <2>2, <3>1 DEF Init, SubsType, ChannelType
  <2>5. HistoryType
    BY <2>1, <2>2 DEF Init, HistoryType
  <2> QED BY <2>3, <2>4, <2>5
<1>2. call \in [Masters -> Calls]
  BY DEF Init, Calls
<1>3. drain \in [Drainers -> Drains]
  BY DEF Init, Drains, HeaderSets
<1>4. metrics \in [Counters -> Nat]
  BY DEF Init, Counters
<1> QED BY <1>1, <1>2, <1>3, <1>4 DEF TypeOK

(* A change of one channel that keeps its type and its limit keeps those   *)
(* of all channels.                                                        *)
LEMMA OneChannelChanges ==
    ASSUME ChannelType, NEW k \in DOMAIN chans, NEW c \in Channels,
           Len(c.items) <= c.depth, chans' = [chans EXCEPT ![k] = c]
    PROVE  ChannelType' /\ Len(chans') = Len(chans) /\ DOMAIN chans' = DOMAIN chans
<1>1. chans' \in Seq(Channels) /\ Len(chans') = Len(chans) /\ DOMAIN chans' = DOMAIN chans
  BY ExceptSeq DEF ChannelType
<1>2. ASSUME NEW i \in DOMAIN chans' PROVE Len(chans'[i].items) <= chans'[i].depth
  <2>1. CASE i = k
    BY <2>1, <1>1
  <2>2. CASE i # k
    BY <2>2, <1>1 DEF ChannelType
  <2> QED BY <2>1, <2>2
<1> QED BY <1>1, <1>2 DEF ChannelType

(* What depends on the number of channels only. *)
LEMMA SameChannelCount ==
    ASSUME DOMAIN chans' = DOMAIN chans, Len(chans') = Len(chans)
    PROVE  /\ SubsType /\ UNCHANGED <<subs, closed>> => SubsType'
           /\ HistoryType /\ UNCHANGED <<got, ended, sent, made>> => HistoryType'
BY DEF SubsType, HistoryType

(* The lookup and the counters leave the call in a well-typed place. *)
LEMMA ContinueType ==
    ASSUME SubsType, ChannelType, call \in [Masters -> Calls], NEW m \in Masters,
           NEW f \in Frames, NEW c \in Nat \ {0}, ContinueFrom(m, f, c)
    PROVE  call' \in [Masters -> Calls]
<1> DEFINE rest == {i \in c..Len(subs) : MatchesAny(subs[i].filters, f)}
<1> USE BusAssumption
<1>1. CASE call' = [call EXCEPT ![m] = NoCall]
  BY <1>1 DEF Calls
<1>2. CASE \E i \in rest : call' = [call EXCEPT ![m] =
                                        [at |-> "offer", frame |-> f, cursor |-> i]]
  <2>1. PICK i \in rest : call' = [call EXCEPT ![m] =
                                       [at |-> "offer", frame |-> f, cursor |-> i]]
    BY <1>2
  <2>2. i \in 1..MaxSubs
    BY LenProperties DEF SubsType, ChannelType
  <2> QED BY <2>1, <2>2 DEF Calls
<1> QED BY <1>1, <1>2 DEF ContinueFrom

(* Counters stay natural numbers. *)
LEMMA CountTwo ==
    ASSUME metrics \in [Counters -> Nat], NEW x \in Counters, NEW y \in Counters,
           NEW a \in Nat, NEW b \in Nat
    PROVE  [metrics EXCEPT ![x] = @ + a, ![y] = @ + b] \in [Counters -> Nat]
OBVIOUS

(* The same for one counter. *)
LEMMA CountOne ==
    ASSUME metrics \in [Counters -> Nat], NEW x \in Counters, NEW a \in Nat
    PROVE  [metrics EXCEPT ![x] = @ + a] \in [Counters -> Nat]
OBVIOUS

(* A drainer's record with a new place, cursor and settled set. *)
LEMMA DrainFields ==
    ASSUME NEW r \in Drains, NEW c \in 0..(MaxSubs + 1), NEW s \in HeaderSets,
           NEW at \in {"idle", "poll", "scan", "close", "lastClose", "done"}
    PROVE  [r EXCEPT !.at = at, !.cursor = c, !.settled = s] \in Drains
BY DEF Drains

(* The place of a drainer changes and no more than that. *)
LEMMA DrainGoesType ==
    ASSUME drain \in [Drainers -> Drains], NEW d \in Drainers, NEW c \in 0..(MaxSubs + 1),
           NEW at \in {"idle", "poll", "scan", "close", "lastClose", "done"},
           DrainGoes(d, at, c)
    PROVE  drain' \in [Drainers -> Drains]
<1>1. drain[d] \in Drains
  OBVIOUS
<1> DEFINE e == [drain[d] EXCEPT !.at = at, !.cursor = c]
<1>2. e \in Drains
  BY <1>1 DEF Drains
<1>3. drain' = [drain EXCEPT ![d] = e]
  BY DEF DrainGoes
<1> HIDE DEF e
<1> QED BY <1>2, <1>3

-----------------------------------------------------------------------------
(* The steps of the clients *)

LEMMA DoPublishType ==
    ASSUME TypeOK, NEW id \in ValidIds, NEW p \in Payloads,
           NEW ct \in {"classic", "enhanced"}, DoPublish(id, p, ct)
    PROVE  TypeOK'
<1>1. BusType'
  BY DEF TypeOK, DoPublish, BusType, Responses
<1> QED BY <1>1 DEF TypeOK, DoPublish, SubsType, ChannelType, HistoryType

LEMMA UnpublishType == ASSUME TypeOK, NEW id \in ValidIds, Unpublish(id) PROVE TypeOK'
<1>1. BusType'
  BY DEF TypeOK, Unpublish, BusType
<1> QED BY <1>1 DEF TypeOK, Unpublish, SubsType, ChannelType, HistoryType

LEMMA CountErrorType == TypeOK /\ CountError => TypeOK'
<1> SUFFICES ASSUME TypeOK, CountError PROVE TypeOK'
  OBVIOUS
<1>1. metrics' \in [Counters -> Nat]
  BY DEF TypeOK, CountError, Counters
<1> QED BY <1>1 DEF TypeOK, CountError, bus, BusType, SubsType, ChannelType, HistoryType

LEMMA SetScheduleType == ASSUME TypeOK, NEW s \in Schedules, SetSchedule(s) PROVE TypeOK'
BY DEF TypeOK, SetSchedule, BusType, SubsType, ChannelType, HistoryType

LEMMA SubscribeType == ASSUME TypeOK, NEW o \in Options, Subscribe(o) PROVE TypeOK'
<1> USE BusAssumption
<1> DEFINE c == [items |-> << >>, depth |-> o.depth, closed |-> FALSE]
           s == [filters |-> o.filters, policy |-> o.policy, ch |-> Len(chans) + 1]
           d == [filters |-> o.filters, policy |-> o.policy, since |-> Len(sent)]
<1>1. Len(chans) \in Nat /\ Len(chans) + 1 <= MaxSubs /\ Len(subs) = Len(chans)
  BY LenProperties DEF TypeOK, Subscribe, ChannelType, SubsType
<1>2. c \in Channels /\ Len(c.items) = 0
  BY EmptySeq DEF Channels
<1>3. s \in Subscriptions
  BY <1>1 DEF Subscriptions, Filters
<1>4. d \in Made
  BY LenProperties DEF TypeOK, HistoryType, Made, Filters
<1>5. ChannelType'
  <2>1. /\ chans' \in Seq(Channels) /\ Len(chans') = Len(chans) + 1
        /\ \A i \in 1..Len(chans) : chans'[i] = chans[i]
        /\ chans'[Len(chans) + 1] = c
    BY <1>2, AppendProperties DEF TypeOK, Subscribe, ChannelType
  <2>2. ASSUME NEW k \in DOMAIN chans' PROVE Len(chans'[k].items) <= chans'[k].depth
    <3>1. k \in 1..Len(chans) \/ k = Len(chans) + 1
      BY <2>1, <1>1, LenProperties
    <3>2. o.depth \in Nat \ {0}
      OBVIOUS
    <3>3. CASE k \in 1..Len(chans)
      BY <3>3, <2>1, LenProperties DEF TypeOK, ChannelType
    <3>4. CASE k = Len(chans) + 1
      BY <3>4, <2>1, <1>2, <3>2
    <3> QED BY <3>1, <3>3, <3>4
  <2> QED BY <2>1, <2>2, <1>1 DEF ChannelType
<1>6. SubsType'
  <2>1. /\ subs' \in Seq(Subscriptions) /\ Len(subs') = Len(subs) + 1
        /\ \A i \in 1..Len(subs) : subs'[i] = subs[i]
        /\ subs'[Len(subs) + 1] = s
    BY <1>3, AppendProperties DEF TypeOK, Subscribe, SubsType
  <2>2. Len(chans') = Len(chans) + 1 /\ closed' = FALSE
    BY <1>2, AppendProperties DEF TypeOK, Subscribe, ChannelType
  <2>3. ASSUME NEW i \in DOMAIN subs' PROVE subs'[i].ch = i
    <3>1. i \in 1..Len(subs) \/ i = Len(subs) + 1
      BY <2>1, <1>1, LenProperties
    <3> QED BY <3>1, <2>1, <1>1, LenProperties DEF TypeOK, SubsType
  <2> QED BY <2>1, <2>2, <2>3, <1>1 DEF SubsType
<1>7. HistoryType'
  <2>1. got' \in Seq(Seq(Frames)) /\ Len(got') = Len(got) + 1
    BY EmptySeq, AppendProperties DEF TypeOK, Subscribe, HistoryType
  <2>2. made' \in Seq(Made) /\ Len(made') = Len(made) + 1
    BY <1>4, AppendProperties DEF TypeOK, Subscribe, HistoryType
  <2>3. Len(chans') = Len(chans) + 1 /\ DOMAIN chans \subseteq DOMAIN chans'
    BY <1>2, <1>1, AppendProperties, LenProperties DEF TypeOK, Subscribe, ChannelType
  <2> QED BY <2>1, <2>2, <2>3 DEF TypeOK, Subscribe, HistoryType
<1>8. BusType'
  BY DEF TypeOK, Subscribe, BusType
<1> QED BY <1>5, <1>6, <1>7, <1>8 DEF TypeOK, Subscribe

(* Closing the bus keeps the number and the contents of the channels. *)
LEMMA CloseBusKeepsChannels ==
    ASSUME TypeOK, CloseBus
    PROVE  /\ ChannelType' /\ Len(chans') = Len(chans) /\ DOMAIN chans' = DOMAIN chans
           /\ \A k \in DOMAIN chans : /\ chans'[k].items = chans[k].items
                                      /\ chans[k].closed => chans'[k].closed
<1>1. CASE closed
  BY <1>1 DEF CloseBus, TypeOK, ChannelType
<1>2. CASE ~closed
  <2> DEFINE c(k) == [chans[k] EXCEPT !.closed =
                          @ \/ \E i \in DOMAIN subs : subs[i].ch = k]
  <2>1. chans' = [k \in DOMAIN chans |-> c(k)] /\ DOMAIN chans = 1..Len(chans)
    BY <1>2, LenProperties DEF CloseBus, TypeOK, ChannelType
  <2>2. ASSUME NEW k \in DOMAIN chans
        PROVE  /\ c(k) \in Channels /\ c(k).items = chans[k].items
               /\ c(k).depth = chans[k].depth /\ (chans[k].closed => c(k).closed)
    <3>1. chans[k] \in Channels
      BY <2>1, ElementOfSeq DEF TypeOK, ChannelType
    <3> QED BY <3>1 DEF Channels
  <2> HIDE DEF c
  <2>3. chans' \in Seq(Channels)
    BY <2>1, <2>2, IsASeq, LenProperties DEF TypeOK, ChannelType
  <2>4. Len(chans') = Len(chans) /\ DOMAIN chans' = DOMAIN chans
    BY <2>1, <2>3, LenProperties DEF TypeOK, ChannelType
  <2> QED BY <2>1, <2>2, <2>3, <2>4 DEF TypeOK, ChannelType
<1> QED BY <1>1, <1>2

LEMMA CloseBusType ==
    ASSUME TypeOK, CloseBus, UNCHANGED <<got, ended, sent, made>>
    PROVE  BusType' /\ SubsType' /\ ChannelType' /\ HistoryType'
<1>1. BusType'
  BY DEF CloseBus, TypeOK, BusType, bus
<1>2. SubsType'
  <2>1. CASE closed
    BY <2>1, CloseBusKeepsChannels DEF CloseBus, TypeOK, SubsType, bus
  <2>2. CASE ~closed
    <3>1. subs' = << >> /\ closed' = TRUE
      BY <2>2 DEF CloseBus
    <3>2. << >> \in Seq(Subscriptions) /\ Len(<< >>) = 0 /\ DOMAIN << >> = {}
      BY EmptySeq
    <3> QED BY <3>1, <3>2 DEF SubsType
  <2> QED BY <2>1, <2>2
<1>3. ChannelType' /\ HistoryType'
  BY CloseBusKeepsChannels DEF TypeOK, HistoryType
<1> QED BY <1>1, <1>2, <1>3

LEMMA CloseType == TypeOK /\ Close => TypeOK'
BY CloseBusType DEF TypeOK, Close

-----------------------------------------------------------------------------
(* The steps of the masters *)

LEMMA SendHeaderType ==
    ASSUME TypeOK, NEW m \in Masters, NEW id \in ValidIds, SendHeader(m, id)
    PROVE  TypeOK'
<1> USE BusAssumption
<1> DEFINE f == [id |-> id, data |-> responses[id].data, ct |-> responses[id].ct,
                 by |-> m, stamp |-> Len(sent) + 1]
<1>1. Len(sent) \in Nat /\ Len(sent) < MaxHeaders
  BY LenProperties DEF TypeOK, SendHeader, HistoryType
<1>2. f \in Frames
  BY <1>1 DEF TypeOK, SendHeader, BusType, Responses, Frames
<1>3. call' \in [Masters -> Calls]
  <2>1. ContinueFrom(m, f, 1)
    BY DEF SendHeader
  <2> HIDE DEF f
  <2> QED BY <1>2, <2>1, ContinueType DEF TypeOK
<1>4. metrics' \in [Counters -> Nat]
  <2>1. Size[f.data] \in Nat
    BY <1>2 DEF Frames
  <2> HIDE DEF f
  <2>2. metrics' = [metrics EXCEPT !.write = @ + 1, !.bytesWritten = @ + Size[f.data]]
    BY DEF SendHeader, f
  <2>3. "write" \in Counters /\ "bytesWritten" \in Counters
    BY DEF Counters
  <2> QED BY <2>1, <2>2, <2>3, CountTwo DEF TypeOK
<1>5. HistoryType'
  <2>1. sent' \in Seq(Frames) /\ Len(sent') = Len(sent) + 1
    BY <1>2, AppendProperties DEF TypeOK, SendHeader, HistoryType
  <2> QED BY <2>1, <1>1 DEF TypeOK, SendHeader, HistoryType
<1> QED BY <1>3, <1>4, <1>5 DEF TypeOK, SendHeader, bus, BusType, SubsType, ChannelType

(* The offer of frame f to channel k changes that channel only, if at all. *)
LEMMA OfferChangesOne ==
    ASSUME TypeOK, NEW k \in DOMAIN chans, NEW f \in Frames, NEW r \in Answers,
           TrySend(k, f, r) \/ SendDropOldest(k, f, r) \/ BlockingSend(k, f, r)
    PROVE  \/ UNCHANGED chans
           \/ /\ ~chans[k].closed
              /\ \E c \in Channels :
                    /\ chans' = [chans EXCEPT ![k] = c]
                    /\ Len(c.items) <= c.depth
                    /\ \/ c.items = Append(chans[k].items, f)
                       \/ /\ chans[k].items # << >>
                          /\ c.items = Append(Tail(chans[k].items), f)
<1>1. chans[k] \in Channels /\ Len(chans[k].items) <= chans[k].depth
  BY ElementOfSeq, LenProperties DEF TypeOK, ChannelType
<1>2. chans[k].items \in Seq(Frames) /\ chans[k].depth \in Nat \ {0}
      /\ Len(chans[k].items) \in Nat
  BY <1>1, LenProperties DEF Channels
<1>3. CASE ~chans[k].closed /\ HasRoom(k) /\ Push(k, f)
  <2> DEFINE c == [chans[k] EXCEPT !.items = Append(@, f)]
  <2>1. chans' = [chans EXCEPT ![k] = c] /\ c.items = Append(chans[k].items, f)
        /\ c.depth = chans[k].depth
    BY <1>3, <1>1 DEF Push, Channels
  <2>2. Append(chans[k].items, f) \in Seq(Frames)
        /\ Len(Append(chans[k].items, f)) = Len(chans[k].items) + 1
    BY <1>2, AppendProperties
  <2>3. c \in Channels
    BY <1>1, <2>2 DEF Channels
  <2>4. Len(c.items) <= c.depth
    BY <1>2, <1>3, <2>1, <2>2 DEF HasRoom
  <2> QED BY <1>3, <2>1, <2>3, <2>4
<1>4. CASE ~chans[k].closed /\ ~HasRoom(k) /\ Evict(k, f)
  <2> DEFINE c == [chans[k] EXCEPT !.items = Append(Tail(@), f)]
  <2>1. chans' = [chans EXCEPT ![k] = c] /\ c.items = Append(Tail(chans[k].items), f)
        /\ c.depth = chans[k].depth
    BY <1>4, <1>1 DEF Evict, Channels
  <2>2. chans[k].items # << >>
    BY <1>2, <1>4 DEF HasRoom
  <2>3. Tail(chans[k].items) \in Seq(Frames)
        /\ Len(Tail(chans[k].items)) = Len(chans[k].items) - 1
    BY <1>2, <2>2, HeadTailProperties
  <2>4. Append(Tail(chans[k].items), f) \in Seq(Frames)
        /\ Len(Append(Tail(chans[k].items), f)) = Len(chans[k].items)
    BY <1>2, <2>3, AppendProperties
  <2>5. c \in Channels
    BY <1>1, <2>4 DEF Channels
  <2>6. Len(c.items) <= c.depth
    BY <1>1, <2>1, <2>4
  <2> QED BY <1>4, <2>1, <2>2, <2>5, <2>6
<1> QED BY <1>3, <1>4 DEF TrySend, SendDropOldest, BlockingSend

(* The subscription under a master's cursor, and its channel. *)
LEMMA CursorInRange ==
    ASSUME TypeOK, BroadcastOnStableBus, NEW m \in Masters, Holding(m)
    PROVE  /\ call[m].frame \in Frames
           /\ call[m].cursor \in DOMAIN subs
           /\ subs[call[m].cursor].ch = call[m].cursor
           /\ call[m].cursor \in DOMAIN chans
           /\ call[m].cursor \in 1..MaxSubs
           /\ call[m].at \in {"offer", "account"}
           /\ DOMAIN subs = DOMAIN chans
<1>1. call[m] \in Calls /\ call[m] # NoCall
  BY DEF TypeOK, Holding
<1>2. call[m].frame \in Frames /\ call[m].cursor \in 1..MaxSubs
      /\ call[m].at \in {"offer", "account"}
  BY <1>1 DEF Calls
<1>3. ~closed /\ call[m].cursor \in DOMAIN subs
  BY DEF BroadcastOnStableBus
<1>4. DOMAIN subs = DOMAIN chans
  BY <1>3, LenProperties DEF TypeOK, SubsType, ChannelType
<1> QED BY <1>2, <1>3, <1>4 DEF TypeOK, SubsType

LEMMA OfferType ==
    ASSUME TypeOK, BroadcastOnStableBus, NEW m \in Masters, Offer(m)
    PROVE  TypeOK' /\ DOMAIN chans' = DOMAIN chans
<1> DEFINE k == call[m].cursor
           f == call[m].frame
<1>1. /\ f \in Frames /\ k \in DOMAIN subs /\ subs[k].ch = k /\ k \in DOMAIN chans
      /\ k \in 1..MaxSubs
  BY CursorInRange DEF Offer
<1>2. PICK r \in Answers :
        /\ TrySend(k, f, r) \/ SendDropOldest(k, f, r) \/ BlockingSend(k, f, r)
        /\ call' = [call EXCEPT ![m] = [at |-> "account", frame |-> f, cursor |-> @.cursor,
                                        answer |-> r]]
  BY <1>1 DEF Offer
<1>3. call' \in [Masters -> Calls]
  BY <1>1, <1>2 DEF TypeOK, Calls
<1>4. ChannelType' /\ Len(chans') = Len(chans) /\ DOMAIN chans' = DOMAIN chans
  <2>1. CASE UNCHANGED chans
    BY <2>1 DEF TypeOK, ChannelType
  <2>2. CASE ~UNCHANGED chans
    <3>1. PICK c \in Channels : chans' = [chans EXCEPT ![k] = c] /\ Len(c.items) <= c.depth
      BY <1>1, <1>2, <2>2, OfferChangesOne
    <3> QED BY <1>1, <3>1, OneChannelChanges DEF TypeOK
  <2> QED BY <2>1, <2>2
<1>5. SubsType' /\ HistoryType'
  BY <1>4, SameChannelCount DEF TypeOK, Offer, bus
<1> QED BY <1>3, <1>4, <1>5 DEF TypeOK, Offer, bus, BusType

LEMMA AccountType ==
    ASSUME TypeOK, BroadcastOnStableBus, NEW m \in Masters, Account(m)
    PROVE  TypeOK'
<1> USE BusAssumption
<1>1. call[m].frame \in Frames /\ call[m].cursor + 1 \in Nat \ {0}
  BY CursorInRange DEF Account
<1>2. call' \in [Masters -> Calls]
  BY <1>1, ContinueType DEF TypeOK, Account
<1>3. metrics' \in [Counters -> Nat]
  <2>1. Size[call[m].frame.data] \in Nat
    BY <1>1 DEF Frames
  <2>2. {"deliver", "bytesDelivered", "drop"} \subseteq Counters
    BY DEF Counters
  <2>3. \/ metrics' = [metrics EXCEPT !.deliver = @ + 1,
                                      !.bytesDelivered = @ + Size[call[m].frame.data]]
        \/ metrics' = [metrics EXCEPT !.drop = @ + 1]
        \/ metrics' = metrics
    BY DEF Account
  <2>4. metrics \in [Counters -> Nat]
    BY DEF TypeOK
  <2>5. [metrics EXCEPT !.deliver = @ + 1, !.bytesDelivered = @ + Size[call[m].frame.data]]
            \in [Counters -> Nat]
    BY <2>1, <2>2, <2>4, CountTwo
  <2>6. [metrics EXCEPT !.drop = @ + 1] \in [Counters -> Nat]
    BY <2>2, <2>4, CountOne
  <2> QED BY <2>3, <2>4, <2>5, <2>6
<1> QED BY <1>2, <1>3 DEF TypeOK, Account, bus, BusType, SubsType, ChannelType, HistoryType

-----------------------------------------------------------------------------
(* The steps of the drainers and of the readers *)

LEMMA DrainType ==
    ASSUME TypeOK, NEW d \in Drainers,
           CloseWithDrain(d) \/ Deadline(d) \/ DrainPoll(d) \/ DrainScan(d) \/ DrainClose(d)
    PROVE  TypeOK'
<1> USE BusAssumption
<1>1. drain[d] \in Drains /\ Len(sent) \in Nat /\ Len(sent) <= MaxHeaders
  BY LenProperties DEF TypeOK, HistoryType
<1>2. DOMAIN subs \subseteq 1..MaxSubs
  BY LenProperties DEF TypeOK, SubsType, ChannelType
<1>3. CASE CloseWithDrain(d)
  <2>1. drain' \in [Drainers -> Drains]
    BY <1>3, DrainGoesType DEF CloseWithDrain, TypeOK
  <2> QED BY <1>3, <2>1 DEF CloseWithDrain, TypeOK, bus, BusType, SubsType, ChannelType,
             HistoryType
<1>7. CASE Deadline(d)
  <2> DEFINE e == [drain[d] EXCEPT !.expired = TRUE]
  <2>1. e \in Drains /\ drain' = [drain EXCEPT ![d] = e]
    BY <1>1, <1>7 DEF Deadline, Drains
  <2> HIDE DEF e
  <2>2. drain' \in [Drainers -> Drains]
    BY <2>1 DEF TypeOK
  <2> QED BY <1>7, <2>2 DEF Deadline, TypeOK, bus, BusType, SubsType, ChannelType, HistoryType
<1>4. CASE DrainPoll(d)
  <2>1. ASSUME DrainScans(d) PROVE drain' \in [Drainers -> Drains]
    <3> DEFINE S == {n \in 1..Len(sent) :
                        \A m \in Masters : Holding(m) => call[m].frame.stamp # n}
               e == [drain[d] EXCEPT !.at = "scan", !.cursor = 1, !.settled = S]
    <3>1. S \in HeaderSets
      BY <1>1 DEF HeaderSets
    <3>2. drain' = [drain EXCEPT ![d] = e]
      BY <2>1 DEF DrainScans
    <3>4. 1 \in 0..(MaxSubs + 1)
      OBVIOUS
    <3> HIDE DEF S
    <3>3. e \in Drains
      BY <1>1, <3>1, <3>4, DrainFields
    <3> HIDE DEF e
    <3> QED BY <3>2, <3>3 DEF TypeOK
  <2>2. ASSUME DrainGoes(d, "lastClose", 0) PROVE drain' \in [Drainers -> Drains]
    BY <2>2, DrainGoesType DEF TypeOK
  <2>3. drain' \in [Drainers -> Drains]
    BY <1>4, <2>1, <2>2 DEF DrainPoll, TypeOK
  <2> QED BY <1>4, <2>3 DEF DrainPoll, TypeOK, bus, BusType, SubsType, ChannelType, HistoryType
<1>5. CASE DrainScan(d)
  <2>1. ASSUME DrainRetries(d) PROVE drain' \in [Drainers -> Drains]
    <3> DEFINE e == [drain[d] EXCEPT !.at = "poll", !.cursor = 0, !.settled = {}]
    <3>1. drain' = [drain EXCEPT ![d] = e]
      BY <2>1 DEF DrainRetries
    <3>2. {} \in HeaderSets
      BY DEF HeaderSets
    <3>4. 0 \in 0..(MaxSubs + 1)
      OBVIOUS
    <3>3. e \in Drains
      BY <1>1, <3>2, <3>4, DrainFields
    <3> HIDE DEF e
    <3> QED BY <3>1, <3>3 DEF TypeOK
  <2>2. ASSUME DrainGoes(d, "close", 0) PROVE drain' \in [Drainers -> Drains]
    BY <2>2, DrainGoesType DEF TypeOK
  <2>3. ASSUME drain[d].cursor \in DOMAIN subs, DrainGoes(d, "scan", drain[d].cursor + 1)
        PROVE  drain' \in [Drainers -> Drains]
    BY <1>2, <2>3, DrainGoesType DEF TypeOK
  <2>4. drain' \in [Drainers -> Drains]
    BY <1>5, <2>1, <2>2, <2>3 DEF DrainScan
  <2> QED BY <1>5, <2>4 DEF DrainScan, TypeOK, bus, BusType, SubsType, ChannelType, HistoryType
<1>6. CASE DrainClose(d)
  <2>1. drain' \in [Drainers -> Drains]
    BY <1>1, <1>6 DEF DrainClose, DrainReturns, Drains, TypeOK
  <2> QED BY <1>6, <2>1, CloseBusType DEF DrainClose, TypeOK
<1> QED BY <1>3, <1>4, <1>5, <1>6, <1>7

LEMMA RecvType ==
    ASSUME TypeOK, NEW k \in DOMAIN chans, Recv(k)
    PROVE  TypeOK' /\ DOMAIN chans' = DOMAIN chans
<1> DEFINE c == [chans[k] EXCEPT !.items = Tail(@)]
<1>1. chans[k] \in Channels /\ Len(chans[k].items) <= chans[k].depth
  BY ElementOfSeq, LenProperties DEF TypeOK, ChannelType
<1>2. chans[k].items \in Seq(Frames) /\ chans[k].items # << >> /\ chans[k].depth \in Nat
  BY <1>1 DEF Channels, Recv
<1>3. /\ Tail(chans[k].items) \in Seq(Frames)
      /\ Len(Tail(chans[k].items)) = Len(chans[k].items) - 1
      /\ Len(chans[k].items) \in Nat
      /\ Head(chans[k].items) \in Frames
  BY <1>2, HeadTailProperties, LenProperties
<1>4. c \in Channels /\ Len(c.items) <= c.depth
  BY <1>1, <1>2, <1>3 DEF Channels
<1>5. ChannelType' /\ Len(chans') = Len(chans) /\ DOMAIN chans' = DOMAIN chans
  <2> HIDE DEF c
  <2>1. chans' = [chans EXCEPT ![k] = c]
    BY DEF Recv, c
  <2> QED BY <1>4, <2>1, OneChannelChanges DEF TypeOK
<1>6. got' \in Seq(Seq(Frames)) /\ Len(got') = Len(got)
  <2>1. k \in 1..Len(got) /\ got[k] \in Seq(Frames)
    BY LenProperties, ElementOfSeq DEF TypeOK, HistoryType, ChannelType
  <2>2. Append(got[k], Head(chans[k].items)) \in Seq(Frames)
    BY <1>3, <2>1, AppendProperties
  <2> QED BY <2>1, <2>2, ExceptSeq DEF TypeOK, HistoryType, Recv
<1>7. SubsType'
  BY <1>5, SameChannelCount DEF TypeOK, Recv, bus
<1>8. HistoryType'
  BY <1>5, <1>6 DEF TypeOK, HistoryType, Recv
<1> QED BY <1>5, <1>7, <1>8 DEF TypeOK, Recv, bus, BusType

LEMMA RecvEndType == ASSUME TypeOK, NEW k \in DOMAIN chans, RecvEnd(k) PROVE TypeOK'
BY DEF TypeOK, RecvEnd, bus, BusType, SubsType, ChannelType, HistoryType

LEMMA SelfCloseType ==
    ASSUME TypeOK, NEW k \in DOMAIN chans, SelfClose(k)
    PROVE  TypeOK' /\ DOMAIN chans' = DOMAIN chans
<1> DEFINE c == [chans[k] EXCEPT !.closed = TRUE]
<1>1. chans[k] \in Channels /\ Len(chans[k].items) <= chans[k].depth
  BY ElementOfSeq, LenProperties DEF TypeOK, ChannelType
<1>2. c \in Channels /\ Len(c.items) <= c.depth
  BY <1>1 DEF Channels
<1>3. ChannelType' /\ Len(chans') = Len(chans) /\ DOMAIN chans' = DOMAIN chans
  <2> HIDE DEF c
  <2>1. chans' = [chans EXCEPT ![k] = c]
    BY DEF SelfClose, c
  <2> QED BY <1>2, <2>1, OneChannelChanges DEF TypeOK
<1>4. SubsType' /\ HistoryType'
  BY <1>3, SameChannelCount DEF TypeOK, SelfClose, bus
<1> QED BY <1>3, <1>4 DEF TypeOK, SelfClose, bus, BusType

-----------------------------------------------------------------------------
(* The bus holds still under a broadcast *)

(* A writer of mu_ finds no broadcast that it could disturb. *)
LEMMA StableForWriters == Exclusive /\ UNCHANGED call => BroadcastOnStableBus'
BY DEF Exclusive, Holding, BroadcastOnStableBus

(* What leaves the bus and the calls alone leaves the broadcasts alone. *)
LEMMA StableIfSame == BroadcastOnStableBus /\ UNCHANGED <<bus, call>> => BroadcastOnStableBus'
BY DEF BroadcastOnStableBus, Holding, bus

(* The cursor stops only at subscriptions that want the frame. *)
LEMMA StableOnContinue ==
    ASSUME TypeOK, BroadcastOnStableBus, UNCHANGED bus, NEW m \in Masters,
           NEW f \in Frames, NEW c \in Nat \ {0}, ContinueFrom(m, f, c),
           ~closed, f.id \in DOMAIN responses,
           responses[f.id] = [data |-> f.data, ct |-> f.ct]
    PROVE  BroadcastOnStableBus'
<1> SUFFICES ASSUME NEW n \in Masters, Holding(n)'
             PROVE  /\ ~closed' /\ call'[n].frame.id \in DOMAIN responses'
                    /\ responses'[call'[n].frame.id] =
                           [data |-> call'[n].frame.data, ct |-> call'[n].frame.ct]
                    /\ call'[n].cursor \in DOMAIN subs'
                    /\ MatchesAny(subs'[call'[n].cursor].filters, call'[n].frame)
  BY DEF BroadcastOnStableBus
<1>1. call \in [Masters -> Calls]
  BY DEF TypeOK
<1>2. CASE n # m
  <2>1. call'[n] = call[n] /\ Holding(n)
    BY <1>1, <1>2 DEF ContinueFrom, Holding
  <2> QED BY <2>1 DEF BroadcastOnStableBus, bus
<1>3. CASE n = m
  <2>1. call'[m] # NoCall
    BY <1>3 DEF Holding
  <2>2. PICK i \in c..Len(subs) :
            /\ MatchesAny(subs[i].filters, f)
            /\ call'[m] = [at |-> "offer", frame |-> f, cursor |-> i]
    BY <1>1, <2>1 DEF ContinueFrom
  <2>3. i \in DOMAIN subs
    BY LenProperties DEF TypeOK, SubsType
  <2> QED BY <1>3, <2>2, <2>3 DEF bus
<1> QED BY <1>2, <1>3

(* The lookup finds an open bus and broadcasts the response it found. *)
LEMMA StableOnSendHeader ==
    ASSUME TypeOK, BroadcastOnStableBus, NEW m \in Masters, NEW id \in ValidIds,
           SendHeader(m, id)
    PROVE  BroadcastOnStableBus'
<1> USE BusAssumption
<1> DEFINE f == [id |-> id, data |-> responses[id].data, ct |-> responses[id].ct,
                 by |-> m, stamp |-> Len(sent) + 1]
<1>1. Len(sent) \in Nat /\ Len(sent) < MaxHeaders
  BY LenProperties DEF TypeOK, SendHeader, HistoryType
<1>2. responses[id] \in Responses /\ id \in DOMAIN responses
  BY DEF TypeOK, SendHeader, BusType
<1>3. f \in Frames
  BY <1>1, <1>2 DEF Responses, Frames
<1>4. responses[f.id] = [data |-> f.data, ct |-> f.ct] /\ f.id \in DOMAIN responses
  BY <1>2 DEF Responses
<1>5. ContinueFrom(m, f, 1) /\ ~closed /\ UNCHANGED bus
  BY DEF SendHeader
<1> HIDE DEF f
<1> QED BY <1>3, <1>4, <1>5, StableOnContinue

(* An offer and its accounting stay with the frame and go on from there. *)
LEMMA StableOnOffer ==
    ASSUME TypeOK, BroadcastOnStableBus, NEW m \in Masters, Offer(m)
    PROVE  BroadcastOnStableBus'
<1>1. PICK r \in Answers : call' = [call EXCEPT ![m] =
          [at |-> "account", frame |-> call[m].frame, cursor |-> @.cursor, answer |-> r]]
  BY DEF Offer
<1>2. call \in [Masters -> Calls]
  BY DEF TypeOK
<1>3. \A n \in Masters : Holding(n)' => /\ Holding(n)
                                        /\ call'[n].frame = call[n].frame
                                        /\ call'[n].cursor = call[n].cursor
  BY <1>1, <1>2 DEF Offer, Holding
<1>4. UNCHANGED bus
  BY DEF Offer
<1> QED BY <1>3, <1>4 DEF BroadcastOnStableBus, bus

(* The next offer is made to the bus that the last one found. *)
LEMMA StableOnAccount ==
    ASSUME TypeOK, BroadcastOnStableBus, NEW m \in Masters, Account(m)
    PROVE  BroadcastOnStableBus'
<1> USE BusAssumption
<1>1. call[m].frame \in Frames /\ call[m].cursor + 1 \in Nat \ {0}
  BY CursorInRange DEF Account
<1>2. /\ ~closed /\ call[m].frame.id \in DOMAIN responses
      /\ responses[call[m].frame.id] =
             [data |-> call[m].frame.data, ct |-> call[m].frame.ct]
  BY DEF Account, BroadcastOnStableBus
<1>3. ContinueFrom(m, call[m].frame, call[m].cursor + 1) /\ UNCHANGED bus
  BY DEF Account
<1> QED BY <1>1, <1>2, <1>3, StableOnContinue

-----------------------------------------------------------------------------
(* The end of a stream is final *)

(* What changes no channel that has ended keeps the ends final. *)
LEMMA EndIfSame ==
    ASSUME EndOfStreamIsFinal, UNCHANGED ended,
           \A k \in ended : /\ chans[k].closed => chans'[k].closed
                            /\ chans'[k].items = chans[k].items
    PROVE  EndOfStreamIsFinal'
BY DEF EndOfStreamIsFinal

(* No policy puts a frame into a closed channel. *)
LEMMA EndOnOffer ==
    ASSUME TypeOK, BroadcastOnStableBus, EndOfStreamIsFinal, NEW m \in Masters, Offer(m)
    PROVE  EndOfStreamIsFinal'
<1> DEFINE k == call[m].cursor
           f == call[m].frame
<1>1. f \in Frames /\ k \in DOMAIN subs /\ subs[k].ch = k /\ k \in DOMAIN chans
  BY CursorInRange DEF Offer
<1>2. PICK r \in Answers :
          TrySend(k, f, r) \/ SendDropOldest(k, f, r) \/ BlockingSend(k, f, r)
  BY <1>1 DEF Offer
<1>3. \/ UNCHANGED chans
      \/ ~chans[k].closed /\ \E c \in Channels : chans' = [chans EXCEPT ![k] = c]
  BY <1>1, <1>2, OfferChangesOne
<1>4. \A j \in ended : chans'[j] = chans[j]
  BY <1>3 DEF EndOfStreamIsFinal, TypeOK, HistoryType
<1> QED BY <1>4, EndIfSame DEF Offer

(* A reader who was told the end finds nothing more to take. *)
LEMMA EndOnRecv ==
    ASSUME TypeOK, EndOfStreamIsFinal, NEW k \in DOMAIN chans, Recv(k)
    PROVE  EndOfStreamIsFinal'
<1>1. k \notin ended
  BY DEF EndOfStreamIsFinal, Recv
<1>2. \A j \in ended : chans'[j] = chans[j]
  BY <1>1 DEF Recv, TypeOK, HistoryType
<1> QED BY <1>2, EndIfSame DEF Recv

(* A subscriber that closes its channel takes nothing out of it. *)
LEMMA EndOnSelfClose ==
    ASSUME TypeOK, EndOfStreamIsFinal, NEW k \in DOMAIN chans, SelfClose(k)
    PROVE  EndOfStreamIsFinal'
<1>1. k \notin ended
  BY DEF EndOfStreamIsFinal, SelfClose
<1>2. \A j \in ended : chans'[j] = chans[j]
  BY <1>1 DEF SelfClose, TypeOK, HistoryType
<1> QED BY <1>2, EndIfSame DEF SelfClose

(* A new subscription leaves the channels before it as they are. *)
LEMMA EndOnSubscribe ==
    ASSUME TypeOK, EndOfStreamIsFinal, NEW o \in Options, Subscribe(o)
    PROVE  EndOfStreamIsFinal'
<1> USE BusAssumption
<1> DEFINE c == [items |-> << >>, depth |-> o.depth, closed |-> FALSE]
<1>1. c \in Channels
  BY EmptySeq DEF Channels
<1>2. \A i \in 1..Len(chans) : chans'[i] = chans[i]
  BY <1>1, AppendProperties DEF TypeOK, Subscribe, ChannelType
<1>3. \A j \in ended : chans'[j] = chans[j]
  BY <1>2, LenProperties DEF TypeOK, HistoryType, ChannelType
<1> QED BY <1>3, EndIfSame DEF Subscribe

(* close closes channels and empties none. *)
LEMMA EndOnCloseBus ==
    ASSUME TypeOK, EndOfStreamIsFinal, CloseBus, UNCHANGED ended
    PROVE  EndOfStreamIsFinal'
<1>1. ended \subseteq DOMAIN chans
  BY DEF TypeOK, HistoryType
<1> QED BY <1>1, CloseBusKeepsChannels, EndIfSame

-----------------------------------------------------------------------------
(* Types alone are not inductive: an offer is well typed because the       *)
(* cursor it was left with is still a subscription.                        *)
IInv == TypeOK /\ BroadcastOnStableBus /\ EndOfStreamIsFinal

(* The invariant holds at the start. *)
LEMMA InitIInv == Init => IInv
<1> SUFFICES ASSUME Init PROVE IInv
  OBVIOUS
<1>1. BroadcastOnStableBus /\ EndOfStreamIsFinal
  BY DEF Init, BroadcastOnStableBus, Holding, EndOfStreamIsFinal
<1> QED BY <1>1, InitType DEF IInv

(* Steps that only clients take. *)
LEMMA ClientIInv == IInv /\ Client => IInv'
<1> SUFFICES ASSUME IInv, Client PROVE IInv'
  OBVIOUS
<1> USE DEF IInv
<1>1. CASE \E id \in ValidIds, p \in Payloads : Publish(id, p) \/ PublishClassic(id, p)
  <2>1. PICK id \in ValidIds, p \in Payloads, ct \in {"classic", "enhanced"} :
            DoPublish(id, p, ct)
    BY <1>1 DEF Publish, PublishClassic
  <2> QED BY <2>1, DoPublishType, StableForWriters, EndIfSame DEF DoPublish
<1>2. CASE \E id \in ValidIds : Unpublish(id)
  BY <1>2, UnpublishType, StableForWriters, EndIfSame DEF Unpublish
<1>3. CASE CountError
  BY <1>3, CountErrorType, StableIfSame, EndIfSame DEF CountError
<1>4. CASE \E s \in Schedules : SetSchedule(s)
  BY <1>4, SetScheduleType, StableForWriters, EndIfSame DEF SetSchedule
<1>5. CASE \E o \in Options : Subscribe(o)
  BY <1>5, SubscribeType, StableForWriters, EndOnSubscribe DEF Subscribe
<1>6. CASE Close
  BY <1>6, CloseType, StableForWriters, EndOnCloseBus DEF Close
<1> QED BY <1>1, <1>2, <1>3, <1>4, <1>5, <1>6 DEF Client, RefuseId, RefuseClosed

(* Steps of a master in send_header. *)
LEMMA MasterIInv == ASSUME IInv, NEW m \in Masters, Master(m) PROVE IInv'
<1> USE DEF IInv
<1>1. CASE \E id \in ValidIds : SendHeader(m, id)
  BY <1>1, SendHeaderType, StableOnSendHeader, EndIfSame DEF SendHeader
<1>2. CASE CountError
  BY <1>2, CountErrorType, StableIfSame, EndIfSame DEF CountError
<1>3. CASE Offer(m)
  BY <1>3, OfferType, StableOnOffer, EndOnOffer
<1>4. CASE Account(m)
  BY <1>4, AccountType, StableOnAccount, EndIfSame DEF Account
<1> QED BY <1>1, <1>2, <1>3, <1>4 DEF Master, RefuseHeader

(* Steps of a drainer in close_with_drain. *)
LEMMA DrainerIInv == ASSUME IInv, NEW d \in Drainers, Drainer(d) PROVE IInv'
<1> USE DEF IInv
<1>1. TypeOK'
  BY DrainType DEF Drainer
<1>2. CASE DrainClose(d)
  BY <1>1, <1>2, StableForWriters, EndOnCloseBus DEF DrainClose
<1>3. CASE UNCHANGED <<bus, chans, call, ended>>
  BY <1>1, <1>3, StableIfSame, EndIfSame
<1> QED BY <1>2, <1>3 DEF Drainer, CloseWithDrain, Deadline, DrainPoll, DrainScan

(* Steps of the reader of a channel. *)
LEMMA ReaderIInv == ASSUME IInv, NEW k \in DOMAIN chans, Reader(k) PROVE IInv'
<1> USE DEF IInv
<1>1. CASE Recv(k)
  BY <1>1, RecvType, StableIfSame, EndOnRecv DEF Recv
<1>2. CASE RecvEnd(k)
  <2>1. EndOfStreamIsFinal'
    BY <1>2 DEF RecvEnd, EndOfStreamIsFinal
  <2> QED BY <1>2, <2>1, RecvEndType, StableIfSame DEF RecvEnd
<1>3. CASE SelfClose(k)
  BY <1>3, SelfCloseType, StableIfSame, EndOnSelfClose DEF SelfClose
<1> QED BY <1>1, <1>2, <1>3 DEF Reader

(* Every step keeps the invariant. *)
LEMMA NextIInv == IInv /\ [Next]_vars => IInv'
<1> SUFFICES ASSUME IInv, [Next]_vars PROVE IInv'
  OBVIOUS
<1>1. CASE Client
  BY <1>1, ClientIInv
<1>2. CASE \E m \in Masters : Master(m)
  BY <1>2, MasterIInv
<1>3. CASE \E d \in Drainers : Drainer(d)
  BY <1>3, DrainerIInv
<1>4. CASE \E k \in DOMAIN chans : Reader(k)
  BY <1>4, ReaderIInv
<1>5. CASE UNCHANGED vars
  <2>1. TypeOK'
    BY <1>5 DEF IInv, vars, bus, TypeOK, BusType, SubsType, ChannelType, HistoryType
  <2> QED BY <1>5, <2>1, StableIfSame, EndIfSame DEF IInv, vars
<1> QED BY <1>1, <1>2, <1>3, <1>4, <1>5 DEF Next

(* The invariant holds in every reachable state of the bus. *)
LEMMA BusIInv == Spec => []IInv
BY InitIInv, NextIInv, PTL DEF Spec

(* Types, for any number of masters, drainers and subscribers: a channel   *)
(* of any depth never holds more than that, and while the bus is open      *)
(* every subscription has its channel.                                     *)
THEOREM TypeCorrect == Spec => []TypeOK
BY BusIInv, PTL DEF IInv

(* From the lookup to the last delivery send_header works on the bus it    *)
(* looked at, however many masters broadcast at once and whoever wants to  *)
(* publish, subscribe or close meanwhile.                                  *)
THEOREM BroadcastStable == Spec => []BroadcastOnStableBus
BY BusIInv, PTL DEF IInv

(* The end of a stream that a reader was told about is final, whichever    *)
(* policies the subscribers have and whoever closes the channel.           *)
THEOREM EndIsFinal == Spec => []EndOfStreamIsFinal
BY BusIInv, PTL DEF IInv

-----------------------------------------------------------------------------
(* What the subscribers get                                                *)

(* Frame f is what header f.stamp sent, and channel k should have it. *)
Right(k, f) == f.stamp \in Matching(k) /\ f = sent[f.stamp]

AllRight(k, s) == \A i \in DOMAIN s : Right(k, s[i])

(* What subs_ remembers of a subscription is what it was made with, and it *)
(* was made before the headers that follow.                                *)
SubsAsMade ==
    /\ \A i \in DOMAIN subs : subs[i].filters = made[i].filters
    /\ \A k \in DOMAIN made : made[k].since <= Len(sent)

(* A frame in flight was sent, and later than every subscription. *)
InFlight ==
    \A m \in Masters : Holding(m) =>
        LET f == call[m].frame
        IN  /\ f.stamp \in DOMAIN sent
            /\ f = sent[f.stamp]
            /\ \A k \in DOMAIN made : made[k].since < f.stamp

(* The frames that were read and those that wait are right. *)
Delivered ==
    \A k \in DOMAIN chans : AllRight(k, got[k]) /\ AllRight(k, chans[k].items)

DInv == SubsAsMade /\ InFlight /\ Delivered

(* Lengths and domains of the sequences of the bus. *)
LEMMA Domains ==
    ASSUME TypeOK
    PROVE  /\ Len(sent) \in Nat /\ DOMAIN sent = 1..Len(sent) /\ sent \in Seq(Frames)
           /\ DOMAIN made = DOMAIN chans /\ DOMAIN got = DOMAIN chans
           /\ DOMAIN chans = 1..Len(chans) /\ Len(chans) \in Nat
           /\ DOMAIN subs = 1..Len(subs) /\ DOMAIN subs \subseteq DOMAIN chans
           /\ \A k \in DOMAIN chans : /\ made[k] \in Made
                                      /\ got[k] \in Seq(Frames)
                                      /\ chans[k] \in Channels
                                      /\ chans[k].items \in Seq(Frames)
<1>1. /\ Len(sent) \in Nat /\ DOMAIN sent = 1..Len(sent) /\ sent \in Seq(Frames)
      /\ DOMAIN made = 1..Len(chans) /\ DOMAIN got = 1..Len(chans)
      /\ DOMAIN chans = 1..Len(chans) /\ Len(chans) \in Nat
      /\ DOMAIN subs = 1..Len(subs)
  BY LenProperties DEF TypeOK, HistoryType, ChannelType, SubsType
<1>2. DOMAIN subs \subseteq DOMAIN chans
  BY <1>1 DEF TypeOK, SubsType
<1>3. ASSUME NEW k \in DOMAIN chans
      PROVE  made[k] \in Made /\ got[k] \in Seq(Frames) /\ chans[k] \in Channels
  BY <1>1, ElementOfSeq DEF TypeOK, HistoryType, ChannelType
<1> QED BY <1>1, <1>2, <1>3 DEF Channels

(* The invariant gives the property: what arrived is what was read         *)
(* followed by what waits.                                                 *)
LEMMA DeliveredIsRight == TypeOK /\ Delivered => OnlyMatchingFrames
<1> SUFFICES ASSUME TypeOK, Delivered,
                    NEW k \in DOMAIN chans, NEW i \in DOMAIN Arrived(k)
             PROVE  Right(k, Arrived(k)[i])
  BY DEF OnlyMatchingFrames, Right
<1>1. got[k] \in Seq(Frames) /\ chans[k].items \in Seq(Frames)
  BY Domains
<1>6. /\ Len(got[k]) \in Nat /\ DOMAIN got[k] = 1..Len(got[k])
      /\ Len(chans[k].items) \in Nat /\ DOMAIN chans[k].items = 1..Len(chans[k].items)
  BY <1>1, LenProperties
<1>2. /\ Len(Arrived(k)) = Len(got[k]) + Len(chans[k].items)
      /\ Arrived(k) \in Seq(Frames)
      /\ \A j \in 1..Len(got[k]) + Len(chans[k].items) :
            Arrived(k)[j] = IF j <= Len(got[k]) THEN got[k][j]
                            ELSE chans[k].items[j - Len(got[k])]
  BY <1>1, ConcatProperties DEF Arrived
<1>3. i \in 1..Len(got[k]) + Len(chans[k].items)
  BY <1>2, LenProperties
<1>4. CASE i <= Len(got[k])
  <2>1. i \in DOMAIN got[k]
    BY <1>3, <1>4, <1>6
  <2> QED BY <1>2, <1>3, <1>4, <2>1 DEF Delivered, AllRight
<1>5. CASE ~(i <= Len(got[k]))
  <2>1. i - Len(got[k]) \in DOMAIN chans[k].items
    <3> DEFINE a == Len(got[k])
               b == Len(chans[k].items)
    <3>1. a \in Nat /\ b \in Nat /\ i \in 1..a + b /\ ~(i <= a)
      BY <1>3, <1>5, <1>6
    <3> HIDE DEF a, b
    <3>2. i - a \in 1..b
      BY <3>1
    <3> QED BY <1>6, <3>2 DEF a, b
  <2>2. Arrived(k)[i] = chans[k].items[i - Len(got[k])]
    BY <1>2, <1>3, <1>5
  <2>3. AllRight(k, chans[k].items)
    BY DEF Delivered
  <2> QED BY <2>1, <2>2, <2>3, Zenon DEF AllRight
<1> QED BY <1>4, <1>5

(* A right frame may join right frames. *)
LEMMA AppendRight ==
    ASSUME NEW k, NEW s \in Seq(Frames), NEW f \in Frames, AllRight(k, s), Right(k, f)
    PROVE  AllRight(k, Append(s, f))
<1>1. /\ DOMAIN Append(s, f) = 1..Len(s) + 1 /\ Len(s) \in Nat /\ DOMAIN s = 1..Len(s)
      /\ \A i \in 1..Len(s) : Append(s, f)[i] = s[i]
      /\ Append(s, f)[Len(s) + 1] = f
  BY AppendProperties, LenProperties
<1>2. \A i \in DOMAIN Append(s, f) : i \in 1..Len(s) \/ i = Len(s) + 1
  BY <1>1
<1> QED BY <1>1, <1>2 DEF AllRight

(* Taking the first of right frames leaves right frames. *)
LEMMA TailRight ==
    ASSUME NEW k, NEW s \in Seq(Frames), s # << >>, AllRight(k, s)
    PROVE  /\ Head(s) \in Frames /\ Right(k, Head(s))
           /\ Tail(s) \in Seq(Frames) /\ AllRight(k, Tail(s))
<1>1. /\ Head(s) = s[1] /\ Head(s) \in Frames /\ Tail(s) \in Seq(Frames)
      /\ Len(Tail(s)) = Len(s) - 1 /\ Len(s) \in Nat /\ DOMAIN s = 1..Len(s)
      /\ \A i \in 1..Len(Tail(s)) : Tail(s)[i] = s[i + 1]
  BY HeadTailProperties, LenProperties
<1>2. DOMAIN Tail(s) = 1..Len(Tail(s)) /\ Len(s) >= 1
  BY <1>1, LenProperties, EmptySeq
<1>3. 1 \in DOMAIN s /\ \A i \in DOMAIN Tail(s) : i + 1 \in DOMAIN s /\ Tail(s)[i] = s[i + 1]
  BY <1>1, <1>2
<1> QED BY <1>1, <1>3 DEF AllRight

(* What a frame should be changes with sent and made only. *)
LEMMA DeliveredIfRight ==
    ASSUME UNCHANGED <<sent, made>>, DOMAIN chans' = DOMAIN chans,
           \A k \in DOMAIN chans : AllRight(k, got'[k]) /\ AllRight(k, chans'[k].items)
    PROVE  Delivered'
BY DEF Delivered, AllRight, Right, Matching

(* Calls that go on with their frame, or return. *)
LEMMA InFlightIfKept ==
    ASSUME InFlight, UNCHANGED <<sent, made>>,
           \A m \in Masters : Holding(m)' => Holding(m) /\ call'[m].frame = call[m].frame
    PROVE  InFlight'
BY DEF InFlight

(* A step that leaves the readers' side and the frames in flight alone.    *)
(* subs may be emptied.                                                    *)
LEMMA DInvIfSame ==
    ASSUME DInv, UNCHANGED <<call, got, sent, made>>,
           UNCHANGED subs \/ subs' = << >>,
           DOMAIN chans' = DOMAIN chans,
           \A k \in DOMAIN chans : chans'[k].items = chans[k].items
    PROVE  DInv'
<1>1. SubsAsMade'
  BY DEF DInv, SubsAsMade
<1>2. InFlight'
  BY DEF DInv, InFlight, Holding
<1>3. Delivered'
  BY DEF DInv, Delivered, AllRight, Right, Matching
<1> QED BY <1>1, <1>2, <1>3 DEF DInv

-----------------------------------------------------------------------------
(* A new subscription finds no frame in flight and has received none. *)
LEMMA DInvOnSubscribe ==
    ASSUME TypeOK, DInv, NEW o \in Options, Subscribe(o)
    PROVE  DInv'
<1> USE BusAssumption
<1> DEFINE c == [items |-> << >>, depth |-> o.depth, closed |-> FALSE]
           s == [filters |-> o.filters, policy |-> o.policy, ch |-> Len(chans) + 1]
           d == [filters |-> o.filters, policy |-> o.policy, since |-> Len(sent)]
           n == Len(chans) + 1
<1>1. /\ Len(sent) \in Nat /\ Len(chans) \in Nat /\ n <= MaxSubs
      /\ DOMAIN chans = 1..Len(chans) /\ DOMAIN subs = DOMAIN chans /\ DOMAIN made = DOMAIN chans
      /\ DOMAIN got = DOMAIN chans /\ Len(subs) = Len(chans)
  BY Domains DEF TypeOK, SubsType, Subscribe
<1>2. c \in Channels /\ s \in Subscriptions /\ d \in Made
  <2>1. c \in Channels
    BY EmptySeq DEF Channels
  <2>2. s \in Subscriptions
    BY <1>1 DEF Subscriptions, Filters
  <2>3. d \in Made
    BY <1>1 DEF TypeOK, HistoryType, Made, Filters
  <2> QED BY <2>1, <2>2, <2>3
<1>3. /\ DOMAIN chans' = 1..n /\ chans'[n] = c
      /\ \A i \in 1..Len(chans) : chans'[i] = chans[i]
  BY <1>2, AppendProperties, LenProperties DEF TypeOK, Subscribe, ChannelType
<1>4. /\ DOMAIN subs' = 1..n /\ subs'[n] = s
      /\ \A i \in 1..Len(chans) : subs'[i] = subs[i]
  BY <1>1, <1>2, AppendProperties, LenProperties DEF TypeOK, Subscribe, SubsType
<1>5. /\ DOMAIN made' = 1..n /\ made'[n] = d
      /\ \A i \in 1..Len(chans) : made'[i] = made[i]
  BY <1>2, AppendProperties, LenProperties DEF TypeOK, Subscribe, HistoryType
<1>6. /\ got'[n] = << >>
      /\ \A i \in 1..Len(chans) : got'[i] = got[i]
  BY EmptySeq, AppendProperties, LenProperties DEF TypeOK, Subscribe, HistoryType
<1>7. \A i \in 1..n : i \in 1..Len(chans) \/ i = n
  BY <1>1
<1>8. UNCHANGED <<call, sent>> /\ \A m \in Masters : ~Holding(m)
  BY DEF Subscribe, Exclusive
<1>9. SubsAsMade'
  BY <1>1, <1>4, <1>5, <1>7, <1>8 DEF DInv, SubsAsMade
<1>10. InFlight'
  BY <1>8 DEF InFlight, Holding
<1>11. Delivered'
  <2> SUFFICES ASSUME NEW k \in 1..n
               PROVE  (AllRight(k, got[k]) /\ AllRight(k, chans[k].items))'
    BY <1>3 DEF Delivered
  <2>1. CASE k \in 1..Len(chans)
    <3>1. AllRight(k, got[k]) /\ AllRight(k, chans[k].items)
      BY <1>1, <2>1 DEF DInv, Delivered
    <3> QED BY <1>3, <1>5, <1>6, <1>8, <2>1, <3>1 DEF AllRight, Right, Matching
  <2>2. CASE k = n
    <3>1. got'[k] = << >> /\ chans'[k].items = << >>
      BY <1>3, <1>6, <2>2
    <3> QED BY <3>1 DEF AllRight
  <2> QED BY <1>7, <2>1, <2>2
<1> QED BY <1>9, <1>10, <1>11 DEF DInv

(* A lookup adds a header that nobody has received yet. *)
LEMMA DInvOnSendHeader ==
    ASSUME TypeOK, DInv, NEW m \in Masters, NEW id \in ValidIds, SendHeader(m, id)
    PROVE  DInv'
<1> USE BusAssumption
<1> DEFINE f == [id |-> id, data |-> responses[id].data, ct |-> responses[id].ct,
                 by |-> m, stamp |-> Len(sent) + 1]
<1>1. Len(sent) \in Nat /\ Len(sent) < MaxHeaders /\ DOMAIN sent = 1..Len(sent)
  BY Domains DEF SendHeader
<1>2. f \in Frames
  BY <1>1 DEF TypeOK, SendHeader, BusType, Responses, Frames
<1>3. ContinueFrom(m, f, 1) /\ sent' = Append(sent, f) /\ f.stamp = Len(sent) + 1
  BY DEF SendHeader
<1>4. UNCHANGED <<subs, chans, got, made>>
  BY DEF SendHeader, bus
<1> HIDE DEF f
<1>5. /\ Len(sent') = Len(sent) + 1 /\ DOMAIN sent' = 1..Len(sent) + 1
      /\ sent'[Len(sent) + 1] = f
      /\ \A i \in 1..Len(sent) : sent'[i] = sent[i]
  BY <1>2, <1>3, AppendProperties, LenProperties DEF TypeOK, HistoryType
<1>6. \A k \in DOMAIN made : made[k].since \in Nat /\ made[k].since <= Len(sent)
  BY Domains DEF Made, DInv, SubsAsMade
<1>7. SubsAsMade'
  BY <1>1, <1>4, <1>5, <1>6 DEF DInv, SubsAsMade
<1>8. InFlight'
  <2> SUFFICES ASSUME NEW n \in Masters, Holding(n)'
               PROVE  /\ call'[n].frame.stamp \in DOMAIN sent'
                      /\ call'[n].frame = sent'[call'[n].frame.stamp]
                      /\ \A k \in DOMAIN made' : made'[k].since < call'[n].frame.stamp
    BY DEF InFlight
  <2>1. CASE n # m
    <3>1. call'[n] = call[n] /\ Holding(n)
      BY <1>3, <2>1 DEF ContinueFrom, Holding, TypeOK
    <3>2. /\ call[n].frame.stamp \in 1..Len(sent)
          /\ call[n].frame = sent[call[n].frame.stamp]
          /\ \A k \in DOMAIN made : made[k].since < call[n].frame.stamp
      BY <1>1, <3>1 DEF DInv, InFlight
    <3> QED BY <1>1, <1>4, <1>5, <3>1, <3>2
  <2>2. CASE n = m
    <3>1. call'[n].frame = f
      BY <1>3, <2>2 DEF ContinueFrom, Holding, TypeOK
    <3> QED BY <1>1, <1>3, <1>4, <1>5, <1>6, <3>1
  <2> QED BY <2>1, <2>2
<1>9. Delivered'
  <2>1. ASSUME NEW k \in DOMAIN chans, NEW g, Right(k, g)
        PROVE  Right(k, g)'
    <3>1. k \in DOMAIN made /\ made[k].since \in Nat
      BY <1>6, Domains
    <3>2. /\ g.stamp \in made[k].since + 1..Len(sent)
          /\ MatchesAny(made[k].filters, sent[g.stamp]) /\ g = sent[g.stamp]
      BY <2>1 DEF Right, Matching
    <3>3. g.stamp \in 1..Len(sent) /\ g.stamp \in made'[k].since + 1..Len(sent')
      BY <1>1, <1>4, <1>5, <3>1, <3>2
    <3>4. sent'[g.stamp] = sent[g.stamp]
      BY <1>5, <3>3
    <3> QED BY <1>4, <3>2, <3>3, <3>4 DEF Right, Matching
  <2>2. ASSUME NEW k \in DOMAIN chans, NEW s, AllRight(k, s)
        PROVE  \A i \in DOMAIN s : Right(k, s[i])'
    BY <2>1, <2>2 DEF AllRight
  <2> QED BY <1>4, <2>1 DEF DInv, Delivered, AllRight
<1> QED BY <1>7, <1>8, <1>9 DEF DInv

(* A subscriber is offered a frame that it wants. *)
LEMMA DInvOnOffer ==
    ASSUME TypeOK, BroadcastOnStableBus, DInv, NEW m \in Masters, Offer(m)
    PROVE  DInv'
<1> DEFINE k == call[m].cursor
           f == call[m].frame
<1>1. f \in Frames /\ k \in DOMAIN subs /\ subs[k].ch = k /\ k \in DOMAIN chans
  BY CursorInRange DEF Offer
<1>2. PICK r \in Answers :
        /\ TrySend(k, f, r) \/ SendDropOldest(k, f, r) \/ BlockingSend(k, f, r)
        /\ call' = [call EXCEPT ![m] = [at |-> "account", frame |-> f, cursor |-> @.cursor,
                                        answer |-> r]]
  BY <1>1 DEF Offer
<1>3. UNCHANGED <<subs, got, sent, made>>
  BY DEF Offer, bus
<1>4. Right(k, f)
  <2>1. /\ f.stamp \in DOMAIN sent /\ f = sent[f.stamp]
        /\ made[k].since < f.stamp /\ made[k].since \in Nat
        /\ made[k].filters = subs[k].filters
    BY <1>1, Domains DEF DInv, InFlight, SubsAsMade, Offer, Made
  <2>2. MatchesAny(subs[k].filters, f)
    BY DEF BroadcastOnStableBus, Offer
  <2>3. f.stamp \in made[k].since + 1..Len(sent)
    BY <2>1, Domains
  <2> HIDE DEF f
  <2> QED BY <2>1, <2>2, <2>3 DEF Right, Matching
<1>5. InFlight'
  <2>1. \A n \in Masters : Holding(n)' => Holding(n) /\ call'[n].frame = call[n].frame
    BY <1>2 DEF Offer, Holding, TypeOK
  <2> QED BY <1>3, <2>1, InFlightIfKept DEF DInv
<1>6. SubsAsMade'
  BY <1>3 DEF DInv, SubsAsMade
<1>7. Delivered'
  <2> HIDE DEF f, k
  <2>1. CASE UNCHANGED chans
    BY <1>3, <2>1, DeliveredIfRight DEF DInv, Delivered
  <2>2. CASE ~UNCHANGED chans
    <3>1. PICK c \in Channels :
              /\ chans' = [chans EXCEPT ![k] = c]
              /\ \/ c.items = Append(chans[k].items, f)
                 \/ /\ chans[k].items # << >>
                    /\ c.items = Append(Tail(chans[k].items), f)
      BY <1>1, <1>2, <2>2, OfferChangesOne
    <3>2. chans[k].items \in Seq(Frames) /\ AllRight(k, chans[k].items)
      BY <1>1, Domains DEF DInv, Delivered
    <3>3. AllRight(k, c.items)
      BY <1>1, <1>4, <3>1, <3>2, AppendRight, TailRight
    <3>4. /\ DOMAIN chans' = DOMAIN chans /\ chans'[k] = c
          /\ \A j \in DOMAIN chans : j # k => chans'[j] = chans[j]
      BY <1>1, <3>1
    <3>5. ASSUME NEW j \in DOMAIN chans
          PROVE  AllRight(j, got'[j]) /\ AllRight(j, chans'[j].items)
      BY <1>3, <3>3, <3>4 DEF DInv, Delivered
    <3> QED BY <1>3, <3>4, <3>5, DeliveredIfRight
  <2> QED BY <2>1, <2>2
<1> QED BY <1>5, <1>6, <1>7 DEF DInv

(* Reading moves a frame from the queue to what was read. *)
LEMMA DInvOnRecv ==
    ASSUME TypeOK, DInv, NEW k \in DOMAIN chans, Recv(k)
    PROVE  DInv'
<1>1. /\ UNCHANGED <<subs, sent, made, call>> /\ chans[k].items # << >>
      /\ got' = [got EXCEPT ![k] = Append(@, Head(chans[k].items))]
      /\ chans' = [chans EXCEPT ![k].items = Tail(@)]
  BY DEF Recv, bus
<1>2. /\ got[k] \in Seq(Frames) /\ AllRight(k, got[k]) /\ chans[k] \in Channels
      /\ chans[k].items \in Seq(Frames) /\ AllRight(k, chans[k].items)
      /\ DOMAIN got = DOMAIN chans
  BY Domains DEF DInv, Delivered
<1>3. /\ Head(chans[k].items) \in Frames /\ Right(k, Head(chans[k].items))
      /\ AllRight(k, Tail(chans[k].items))
  BY <1>1, <1>2, TailRight
<1>4. AllRight(k, Append(got[k], Head(chans[k].items)))
  BY <1>2, <1>3, AppendRight
<1>5. /\ DOMAIN chans' = DOMAIN chans
      /\ got'[k] = Append(got[k], Head(chans[k].items))
      /\ chans'[k].items = Tail(chans[k].items)
      /\ \A j \in DOMAIN chans : j # k => got'[j] = got[j] /\ chans'[j] = chans[j]
  BY <1>1, <1>2 DEF Channels
<1>6. ASSUME NEW j \in DOMAIN chans
      PROVE  AllRight(j, got'[j]) /\ AllRight(j, chans'[j].items)
  <2>1. CASE j = k
    BY <1>3, <1>4, <1>5, <2>1
  <2>2. CASE j # k
    BY <1>5, <2>2 DEF DInv, Delivered
  <2> QED BY <2>1, <2>2
<1>7. Delivered'
  BY <1>1, <1>5, <1>6, DeliveredIfRight
<1>8. SubsAsMade' /\ InFlight'
  BY <1>1 DEF DInv, SubsAsMade, InFlight, Holding
<1> QED BY <1>7, <1>8 DEF DInv

(* Going on with the broadcast keeps the frame. *)
LEMMA DInvOnAccount ==
    ASSUME TypeOK, DInv, NEW m \in Masters, Account(m)
    PROVE  DInv'
<1>1. UNCHANGED <<subs, chans, got, sent, made>>
  BY DEF Account, bus
<1>2. \A n \in Masters : Holding(n)' => Holding(n) /\ call'[n].frame = call[n].frame
  BY DEF Account, ContinueFrom, Holding, TypeOK
<1>3. InFlight'
  BY <1>1, <1>2, InFlightIfKept DEF DInv
<1>4. SubsAsMade' /\ Delivered'
  BY <1>1 DEF DInv, SubsAsMade, Delivered, AllRight, Right, Matching
<1> QED BY <1>3, <1>4 DEF DInv

-----------------------------------------------------------------------------
(* The invariant holds at the start. *)
LEMMA InitDInv == Init => DInv
<1> SUFFICES ASSUME Init PROVE DInv
  OBVIOUS
<1>1. DOMAIN << >> = {}
  OBVIOUS
<1> QED BY <1>1 DEF Init, DInv, SubsAsMade, InFlight, Delivered, Holding

(* Every step keeps the invariant, on a bus that holds still. *)
LEMMA NextDInv == IInv /\ DInv /\ [Next]_vars => DInv'
<1> SUFFICES ASSUME TypeOK, BroadcastOnStableBus, DInv, [Next]_vars PROVE DInv'
  BY DEF IInv
<1>1. ASSUME UNCHANGED <<subs, chans, call, got, sent, made>> PROVE DInv'
  BY <1>1, DInvIfSame
<1>2. ASSUME CloseBus, UNCHANGED <<call, got, sent, made>> PROVE DInv'
  <2>1. UNCHANGED subs \/ subs' = << >>
    BY <1>2 DEF CloseBus, bus
  <2> QED BY <1>2, <2>1, CloseBusKeepsChannels, DInvIfSame
<1>3. CASE Client
  <2>1. CASE \E o \in Options : Subscribe(o)
    BY <2>1, DInvOnSubscribe
  <2>2. CASE Close
    BY <1>2, <2>2 DEF Close
  <2>3. CASE UNCHANGED <<subs, chans, call, got, sent, made>>
    BY <1>1, <2>3
  <2> QED BY <1>3, <2>1, <2>2, <2>3
      DEF Client, Publish, PublishClassic, DoPublish, Unpublish, RefuseId, RefuseClosed,
          CountError, SetSchedule, bus
<1>4. CASE \E m \in Masters : Master(m)
  <2> SUFFICES ASSUME NEW m \in Masters, Master(m) PROVE DInv'
    BY <1>4
  <2>1. CASE \E id \in ValidIds : SendHeader(m, id)
    BY <2>1, DInvOnSendHeader
  <2>2. CASE CountError
    BY <1>1, <2>2 DEF CountError, bus
  <2>3. CASE Offer(m)
    BY <2>3, DInvOnOffer
  <2>4. CASE Account(m)
    BY <2>4, DInvOnAccount
  <2> QED BY <2>1, <2>2, <2>3, <2>4 DEF Master, RefuseHeader
<1>5. CASE \E d \in Drainers : Drainer(d)
  <2> SUFFICES ASSUME NEW d \in Drainers, Drainer(d) PROVE DInv'
    BY <1>5
  <2>1. CASE DrainClose(d)
    BY <1>2, <2>1 DEF DrainClose
  <2>2. CASE UNCHANGED <<subs, chans, call, got, sent, made>>
    BY <1>1, <2>2
  <2> QED BY <2>1, <2>2 DEF Drainer, CloseWithDrain, Deadline, DrainPoll, DrainScan, bus
<1>6. CASE \E k \in DOMAIN chans : Reader(k)
  <2> SUFFICES ASSUME NEW k \in DOMAIN chans, Reader(k) PROVE DInv'
    BY <1>6
  <2>1. CASE Recv(k)
    BY <2>1, DInvOnRecv
  <2>2. CASE RecvEnd(k)
    BY <1>1, <2>2 DEF RecvEnd, bus
  <2>3. CASE SelfClose(k)
    <3>1. chans[k] \in Channels
      BY Domains
    <3>2. /\ DOMAIN chans' = DOMAIN chans
          /\ \A j \in DOMAIN chans : chans'[j].items = chans[j].items
      BY <2>3, <3>1 DEF SelfClose, Channels
    <3> QED BY <2>3, <3>2, DInvIfSame DEF SelfClose, bus
  <2> QED BY <2>1, <2>2, <2>3 DEF Reader
<1>7. CASE UNCHANGED vars
  BY <1>1, <1>7 DEF vars, bus
<1> QED BY <1>3, <1>4, <1>5, <1>6, <1>7 DEF Next

(* A subscriber never gets a frame that it does not want, one that was     *)
(* sent before it subscribed, or one that differs from what was sent,      *)
(* with any number of masters at once, any filters and any policies.       *)
THEOREM DeliveryCorrect == Spec => []OnlyMatchingFrames
<1>1. Spec => []DInv
  BY BusIInv, InitDInv, NextDInv, PTL DEF Spec
<1>2. IInv /\ DInv => OnlyMatchingFrames
  BY DeliveredIsRight DEF IInv, DInv
<1> QED BY <1>1, <1>2, BusIInv, PTL

-----------------------------------------------------------------------------
(* What has arrived at a channel, from one step to the next                *)

(* The elements of a concatenation, counted in each part. *)
LEMMA ConcatElements ==
    ASSUME NEW S, NEW s \in Seq(S), NEW t \in Seq(S)
    PROVE  /\ s \o t \in Seq(S) /\ Len(s \o t) = Len(s) + Len(t)
           /\ Len(s) \in Nat /\ Len(t) \in Nat
           /\ DOMAIN (s \o t) = 1..Len(s) + Len(t)
           /\ \A i \in 1..Len(s) : (s \o t)[i] = s[i]
           /\ \A i \in 1..Len(t) : (s \o t)[Len(s) + i] = t[i]
<1> DEFINE a == Len(s)
           b == Len(t)
           u == s \o t
<1>1. a \in Nat /\ b \in Nat
  BY LenProperties
<1>2. u \in Seq(S) /\ Len(u) = a + b
  BY ConcatProperties
<1>3. \A i \in 1..a + b : u[i] = IF i <= a THEN s[i] ELSE t[i - a]
  BY ConcatProperties
<1>4. DOMAIN u = 1..a + b
  BY <1>2, LenProperties
<1> HIDE DEF a, b, u
<1>5. \A i \in 1..a : u[i] = s[i]
  BY <1>1, <1>3
<1>6. \A i \in 1..b : u[a + i] = t[i]
  <2> SUFFICES ASSUME NEW i \in 1..b PROVE u[a + i] = t[i]
    OBVIOUS
  <2>1. a + i \in 1..a + b /\ ~(a + i <= a) /\ (a + i) - a = i
    BY <1>1
  <2> QED BY <1>3, <2>1
<1> QED BY <1>1, <1>2, <1>4, <1>5, <1>6 DEF a, b, u

(* A frame put at the end of the queue is put at the end of everything. *)
LEMMA PushAtEnd ==
    ASSUME NEW S, NEW s \in Seq(S), NEW t \in Seq(S), NEW e \in S
    PROVE  s \o Append(t, e) = Append(s \o t, e)
<1>1. <<e>> \in Seq(S) /\ s \o t \in Seq(S)
  BY ConcatProperties
<1>2. Append(t, e) = t \o <<e>> /\ Append(s \o t, e) = (s \o t) \o <<e>>
  BY <1>1, AppendIsConcat
<1> QED BY <1>1, <1>2, ConcatAssociative

(* Reading moves the boundary between what was read and what waits. *)
LEMMA ReadMovesBoundary ==
    ASSUME NEW S, NEW s \in Seq(S), NEW t \in Seq(S), t # << >>
    PROVE  Append(s, Head(t)) \o Tail(t) = s \o t
<1>1. Head(t) \in S /\ Tail(t) \in Seq(S) /\ <<Head(t)>> \in Seq(S)
  BY HeadTailProperties
<1>2. Append(s, Head(t)) = s \o <<Head(t)>>
  BY <1>1, AppendIsConcat
<1>3. <<Head(t)>> \o Tail(t) = t
  <2> DEFINE h == <<Head(t)>>
  <2>1. Len(h) = 1 /\ h[1] = t[1] /\ Len(Tail(t)) = Len(t) - 1 /\ Len(t) \in Nat
        /\ \A i \in 1..Len(Tail(t)) : Tail(t)[i] = t[i + 1]
    BY HeadTailProperties, LenProperties
  <2>2. h \o Tail(t) \in Seq(S) /\ Len(h \o Tail(t)) = Len(t)
        /\ (h \o Tail(t))[1] = t[1]
        /\ \A i \in 1..Len(t) - 1 : (h \o Tail(t))[1 + i] = t[i + 1]
    <3> HIDE DEF h
    <3>1. h \in Seq(S)
      BY <1>1 DEF h
    <3> DEFINE w == Tail(t)
    <3>2. w \in Seq(S) /\ Len(w) = Len(t) - 1 /\ Len(t) \in Nat /\ Len(h) = 1
          /\ h[1] = t[1] /\ \A i \in 1..Len(t) - 1 : w[i] = t[i + 1]
      BY <1>1, <2>1
    <3> HIDE DEF w
    <3>3. /\ h \o w \in Seq(S) /\ Len(h \o w) = 1 + (Len(t) - 1)
          /\ \A i \in 1..1 : (h \o w)[i] = h[i]
          /\ \A i \in 1..Len(t) - 1 : (h \o w)[1 + i] = w[i]
      BY <3>1, <3>2, ConcatElements
    <3>4. 1 + (Len(t) - 1) = Len(t)
      BY <3>2
    <3> QED BY <3>2, <3>3, <3>4 DEF w
  <2>3. ASSUME NEW i \in 1..Len(t) PROVE (h \o Tail(t))[i] = t[i]
    <3>1. CASE i = 1
      BY <2>2, <3>1
    <3>2. CASE i # 1
      <4>1. i - 1 \in 1..Len(t) - 1 /\ 1 + (i - 1) = i /\ (i - 1) + 1 = i
        BY <2>1, <3>2
      <4> QED BY <2>2, <4>1
    <3> QED BY <3>1, <3>2
  <2> HIDE DEF h
  <2>4. h \o Tail(t) = t
    BY <2>2, <2>3, SeqEqual
  <2> QED BY <2>4 DEF h
<1> QED BY <1>1, <1>2, <1>3, ConcatAssociative

(* Eviction takes one element out, and the others keep their order. *)
LEMMA EvictShifts ==
    ASSUME NEW S, NEW s \in Seq(S), NEW t \in Seq(S), NEW e \in S, t # << >>
    PROVE  LET u == s \o t
               v == s \o Append(Tail(t), e)
           IN  /\ Len(v) = Len(u) /\ Len(u) \in Nat \ {0} /\ v[Len(u)] = e
               /\ DOMAIN v = 1..Len(u) /\ DOMAIN u = 1..Len(u)
               /\ \A i \in 1..Len(u) - 1 : v[i] = u[IF i <= Len(s) THEN i ELSE i + 1]
<1> DEFINE a == Len(s)
           b == Len(t)
           w == Append(Tail(t), e)
           u == s \o t
           v == s \o w
<1>1. /\ a \in Nat /\ b \in Nat \ {0} /\ Tail(t) \in Seq(S) /\ Len(Tail(t)) = b - 1
      /\ \A i \in 1..b - 1 : Tail(t)[i] = t[i + 1]
  BY HeadTailProperties, LenProperties, EmptySeq
<1>2. /\ w \in Seq(S) /\ Len(w) = b /\ w[b] = e
      /\ \A i \in 1..b - 1 : w[i] = t[i + 1]
  <2>1. /\ w \in Seq(S) /\ Len(w) = (b - 1) + 1 /\ w[(b - 1) + 1] = e
        /\ \A i \in 1..b - 1 : w[i] = Tail(t)[i]
    BY <1>1, AppendProperties
  <2>2. (b - 1) + 1 = b
    BY <1>1
  <2> QED BY <1>1, <2>1, <2>2
<1> HIDE DEF w
<1>3. /\ Len(u) = a + b /\ DOMAIN u = 1..a + b
      /\ \A i \in 1..a : u[i] = s[i]
      /\ \A i \in 1..b : u[a + i] = t[i]
  BY ConcatElements
<1>4. /\ Len(v) = a + b /\ DOMAIN v = 1..a + b
      /\ \A i \in 1..a : v[i] = s[i]
      /\ \A i \in 1..b : v[a + i] = w[i]
  <2>1. /\ Len(v) = Len(s) + Len(w) /\ DOMAIN v = 1..Len(s) + Len(w)
        /\ \A i \in 1..Len(s) : v[i] = s[i]
        /\ \A i \in 1..Len(w) : v[Len(s) + i] = w[i]
    <3>1. w \in Seq(S)
      BY <1>2
    <3> QED BY <3>1, ConcatElements
  <2> QED BY <1>2, <2>1
<1> HIDE DEF a, b, u, v
<1>5. v[a + b] = e
  BY <1>1, <1>2, <1>4
<1>6. ASSUME NEW i \in 1..a + b - 1 PROVE v[i] = u[IF i <= a THEN i ELSE i + 1]
  <2>1. CASE i <= a
    <3>1. i \in 1..a
      BY <1>1, <2>1
    <3> QED BY <1>3, <1>4, <2>1, <3>1
  <2>2. CASE ~(i <= a)
    <3>1. /\ i - a \in 1..b /\ i - a \in 1..b - 1 /\ a + (i - a) = i
          /\ (i - a) + 1 \in 1..b /\ a + ((i - a) + 1) = i + 1
      BY <1>1, <2>2
    <3>2. v[i] = w[i - a] /\ w[i - a] = t[(i - a) + 1] /\ u[i + 1] = t[(i - a) + 1]
      BY <1>2, <1>3, <1>4, <3>1
    <3> QED BY <2>2, <3>2
  <2> QED BY <2>1, <2>2
<1>7. a + b \in Nat \ {0}
  BY <1>1
<1> QED BY <1>3, <1>4, <1>5, <1>6, <1>7 DEF a, u, v, w


(* Everything that arrived at a channel. *)
LEMMA ArrivedIsSeq ==
    ASSUME TypeOK, NEW k \in DOMAIN chans
    PROVE  /\ Arrived(k) \in Seq(Frames) /\ Len(Arrived(k)) \in Nat
           /\ DOMAIN Arrived(k) = 1..Len(Arrived(k))
           /\ \A i \in DOMAIN Arrived(k) : Arrived(k)[i] \in Frames
<1>1. Arrived(k) \in Seq(Frames)
  BY Domains, ConcatProperties DEF Arrived
<1> QED BY <1>1, LenProperties, ElementOfSeq

(* v is u, perhaps without some of its elements, with f at the end. *)
Gains(u, v, f) ==
    \E n \in Nat \ {0} : \E e \in [1..n - 1 -> DOMAIN u] :
        /\ DOMAIN v = 1..n /\ v[n] = f
        /\ \A i \in 1..n - 1 : v[i] = u[e[i]]
        /\ \A i, j \in 1..n - 1 : i < j => e[i] < e[j]

(* An offer to channel k that changes it puts the frame last, keeps the    *)
(* order of the rest, and with the Block policy keeps all of it.           *)
LEMMA ArrivedOnOffer ==
    ASSUME TypeOK, NEW k \in DOMAIN chans, NEW f \in Frames, NEW c \in Channels,
           NEW v, v = got[k] \o c.items,
           \/ c.items = Append(chans[k].items, f)
           \/ chans[k].items # << >> /\ c.items = Append(Tail(chans[k].items), f)
    PROVE  /\ Gains(Arrived(k), v, f)
           /\ c.items = Append(chans[k].items, f) => v = Append(Arrived(k), f)
<1> DEFINE s == got[k]
           t == chans[k].items
           u == Arrived(k)
<1>1. s \in Seq(Frames) /\ t \in Seq(Frames) /\ u = s \o t
  BY Domains DEF Arrived
<1>2. v = s \o c.items
  OBVIOUS
<1>3. /\ u \in Seq(Frames) /\ Len(u) \in Nat /\ DOMAIN u = 1..Len(u)
  BY ArrivedIsSeq
<1>4. Len(s) \in Nat
  BY <1>1, LenProperties
<1>7. (c.items = Append(t, f)) => v = Append(u, f)
  <2> HIDE DEF s, t, u
  <2>1. s \o Append(t, f) = Append(s \o t, f)
    BY <1>1, PushAtEnd
  <2> QED BY <1>1, <1>2, <2>1
<1>8. CASE c.items = Append(t, f)
  <2>1. v = Append(u, f)
    BY <1>7, <1>8
  <2> DEFINE e == [i \in 1..(Len(u) + 1) - 1 |-> i]
  <2> HIDE DEF u
  <2>2. /\ DOMAIN v = 1..Len(u) + 1 /\ v[Len(u) + 1] = f
        /\ \A i \in 1..Len(u) : v[i] = u[i]
    <3>1. v \in Seq(Frames) /\ Len(v) = Len(u) + 1
      BY <1>3, <2>1, AppendProperties
    <3> QED BY <1>3, <2>1, <3>1, AppendProperties, LenProperties
  <2>3. e \in [1..(Len(u) + 1) - 1 -> DOMAIN u] /\ Len(u) + 1 \in Nat \ {0}
    BY <1>3
  <2>4. \A i \in 1..(Len(u) + 1) - 1 : v[i] = u[e[i]]
    <3>1. (Len(u) + 1) - 1 = Len(u)
      BY <1>3
    <3> QED BY <2>2, <3>1
  <2>5. \A i, j \in 1..(Len(u) + 1) - 1 : i < j => e[i] < e[j]
    OBVIOUS
  <2> HIDE DEF e
  <2>6. Gains(u, v, f)
    BY <2>2, <2>3, <2>4, <2>5 DEF Gains
  <2> QED BY <1>2, <2>1, <2>6 DEF u
<1>9. CASE t # << >> /\ c.items = Append(Tail(t), f)
  <2> DEFINE n == Len(u)
             e == [i \in 1..n - 1 |-> IF i <= Len(s) THEN i ELSE i + 1]
  <2>1. /\ n \in Nat \ {0} /\ v[n] = f /\ DOMAIN v = 1..n /\ DOMAIN u = 1..n
        /\ \A i \in 1..n - 1 : v[i] = u[IF i <= Len(s) THEN i ELSE i + 1]
    <3> HIDE DEF s, t, u
    <3> DEFINE x == s \o t
               y == s \o Append(Tail(t), f)
    <3>1. /\ Len(y) = Len(x) /\ Len(x) \in Nat \ {0} /\ y[Len(x)] = f
          /\ DOMAIN y = 1..Len(x) /\ DOMAIN x = 1..Len(x)
          /\ \A i \in 1..Len(x) - 1 : y[i] = x[IF i <= Len(s) THEN i ELSE i + 1]
      <4>1. s \in Seq(Frames) /\ t \in Seq(Frames) /\ t # << >>
        BY <1>1, <1>9
      <4> QED BY <4>1, EvictShifts
    <3>2. u = x /\ v = y
      BY <1>1, <1>2, <1>9
    <3> HIDE DEF x, y
    <3> QED BY <3>1, <3>2
  <2> HIDE DEF n, u, s
  <2>2. e \in [1..n - 1 -> DOMAIN u]
    BY <2>1
  <2>3. \A i \in 1..n - 1 : v[i] = u[e[i]]
    BY <2>1
  <2>4. \A i, j \in 1..n - 1 : i < j => e[i] < e[j]
    BY <1>4, <2>1
  <2> HIDE DEF e
  <2>5. Gains(u, v, f)
    BY <2>1, <2>2, <2>3, <2>4 DEF Gains
  <2> QED BY <1>2, <1>7, <2>5 DEF u
<1> QED BY <1>8, <1>9

(* Reading changes nothing of what has arrived. *)
LEMMA ArrivedOnRecv ==
    ASSUME TypeOK, NEW k \in DOMAIN chans, Recv(k)
    PROVE  DOMAIN chans' = DOMAIN chans /\ \A j \in DOMAIN chans : Arrived(j)' = Arrived(j)
<1>1. /\ got' = [got EXCEPT ![k] = Append(@, Head(chans[k].items))]
      /\ chans' = [chans EXCEPT ![k].items = Tail(@)]
      /\ chans[k].items # << >>
  BY DEF Recv
<1>2. /\ got[k] \in Seq(Frames) /\ chans[k] \in Channels /\ DOMAIN got = DOMAIN chans
      /\ chans[k].items \in Seq(Frames)
  BY Domains
<1>3. /\ DOMAIN chans' = DOMAIN chans
      /\ got'[k] = Append(got[k], Head(chans[k].items))
      /\ chans'[k].items = Tail(chans[k].items)
      /\ \A j \in DOMAIN chans : j # k => got'[j] = got[j] /\ chans'[j] = chans[j]
  BY <1>1, <1>2 DEF Channels
<1>4. Arrived(k)' = Arrived(k)
  <2> DEFINE s == got[k]
             t == chans[k].items
  <2>1. Arrived(k)' = Append(s, Head(t)) \o Tail(t) /\ Arrived(k) = s \o t
    BY <1>3 DEF Arrived
  <2>2. s \in Seq(Frames) /\ t \in Seq(Frames) /\ t # << >>
    BY <1>1, <1>2
  <2> HIDE DEF s, t
  <2> QED BY <2>1, <2>2, ReadMovesBoundary
<1>5. \A j \in DOMAIN chans : j # k => Arrived(j)' = Arrived(j)
  BY <1>3 DEF Arrived
<1> QED BY <1>3, <1>4, <1>5

-----------------------------------------------------------------------------
(* The headers of one master stay in order                                 *)

(* Master m still has to offer its frame to channel k, if k wants it. *)
ToOffer(m, k) == call[m].cursor < k \/ (call[m].cursor = k /\ call[m].at = "offer")

FromMaster == \A m \in Masters : Holding(m) => call[m].frame.by = m

(* Where a master still has to offer its frame, its earlier ones are older. *)
NotYet ==
    \A m \in Masters : Holding(m) =>
        \A k \in DOMAIN chans : ToOffer(m, k) =>
            \A i \in DOMAIN Arrived(k) :
                Arrived(k)[i].by = m => Arrived(k)[i].stamp < call[m].frame.stamp

OInv == FromMaster /\ NotYet /\ SenderOrder

(* A step that leaves what arrived alone, and in which masters go forward. *)
LEMMA OInvIfSame ==
    ASSUME OInv, DOMAIN chans' = DOMAIN chans,
           \A k \in DOMAIN chans : Arrived(k)' = Arrived(k),
           \A m \in Masters : Holding(m)' =>
               /\ Holding(m) /\ call'[m].frame = call[m].frame
               /\ \A k \in DOMAIN chans : ToOffer(m, k)' => ToOffer(m, k)
    PROVE  OInv'
<1>1. FromMaster'
  BY DEF OInv, FromMaster
<1>2. NotYet'
  BY DEF OInv, NotYet
<1>3. SenderOrder'
  BY DEF OInv, SenderOrder
<1> QED BY <1>1, <1>2, <1>3 DEF OInv

(* A step that leaves the calls, the queues and what was read alone. *)
LEMMA OInvIfQuiet ==
    ASSUME OInv, UNCHANGED <<call, got>>, DOMAIN chans' = DOMAIN chans,
           \A k \in DOMAIN chans : chans'[k].items = chans[k].items
    PROVE  OInv'
<1>1. \A k \in DOMAIN chans : Arrived(k)' = Arrived(k)
  BY DEF Arrived
<1> QED BY <1>1, OInvIfSame DEF Holding, ToOffer

(* A new subscription has received nothing, and nobody is broadcasting. *)
LEMMA OInvOnSubscribe ==
    ASSUME TypeOK, OInv, NEW o \in Options, Subscribe(o)
    PROVE  OInv'
<1> USE BusAssumption
<1> DEFINE c == [items |-> << >>, depth |-> o.depth, closed |-> FALSE]
<1>1. c \in Channels /\ Len(chans) \in Nat /\ DOMAIN chans = 1..Len(chans)
      /\ DOMAIN got = DOMAIN chans /\ Len(got) = Len(chans)
  BY EmptySeq, Domains DEF Channels, TypeOK, HistoryType
<1>0. PICK n \in Nat : n = Len(chans) + 1
  BY <1>1
<1>2. /\ DOMAIN chans' = 1..n /\ chans'[n] = c
      /\ \A i \in 1..Len(chans) : chans'[i] = chans[i]
  BY <1>0, <1>1, AppendProperties, LenProperties DEF TypeOK, Subscribe, ChannelType
<1>3. /\ got'[n] = << >>
      /\ \A i \in 1..Len(chans) : got'[i] = got[i]
  BY <1>0, <1>1, EmptySeq, AppendProperties, LenProperties DEF TypeOK, Subscribe, HistoryType
<1>4. \A m \in Masters : ~Holding(m)'
  BY DEF Subscribe, Exclusive, Holding
<1>5. \A k \in 1..Len(chans) : Arrived(k)' = Arrived(k)
  BY <1>2, <1>3 DEF Arrived
<1>6. DOMAIN Arrived(n)' = {}
  <2>1. Arrived(n)' = << >> \o << >>
    BY <1>2, <1>3 DEF Arrived
  <2>2. << >> \in Seq(Frames) /\ Len(<< >>) = 0
    BY EmptySeq
  <2>3. << >> \o << >> = << >>
    BY <2>2, ConcatEmptySeq
  <2> QED BY <2>1, <2>3
<1>7. \A k \in 1..n : k \in 1..Len(chans) \/ k = n
  BY <1>0, <1>1
<1>8. SenderOrder'
  <2> SUFFICES ASSUME NEW k \in 1..n, NEW i \in DOMAIN Arrived(k)',
                      NEW j \in DOMAIN Arrived(k)', i < j,
                      Arrived(k)'[i].by = Arrived(k)'[j].by
               PROVE  Arrived(k)'[i].stamp < Arrived(k)'[j].stamp
    BY <1>2 DEF SenderOrder
  <2>1. k \in 1..Len(chans)
    BY <1>6, <1>7
  <2> QED BY <1>1, <1>5, <2>1 DEF OInv, SenderOrder
<1> QED BY <1>4, <1>8 DEF OInv, FromMaster, NotYet

(* A new header is younger than all that has arrived. *)
LEMMA OInvOnSendHeader ==
    ASSUME TypeOK, OnlyMatchingFrames, OInv, NEW m \in Masters, NEW id \in ValidIds,
           SendHeader(m, id)
    PROVE  OInv'
<1> DEFINE f == [id |-> id, data |-> responses[id].data, ct |-> responses[id].ct,
                 by |-> m, stamp |-> Len(sent) + 1]
<1>1. ContinueFrom(m, f, 1) /\ f.by = m /\ f.stamp = Len(sent) + 1
  BY DEF SendHeader
<1>2. UNCHANGED <<chans, got>> /\ \A k : Arrived(k)' = Arrived(k)
  BY DEF SendHeader, Arrived
<1> HIDE DEF f
<1>3. \A n \in Masters : n # m => call'[n] = call[n]
  BY <1>1 DEF ContinueFrom, TypeOK
<1>4. Holding(m)' => call'[m].frame = f
  BY <1>1 DEF ContinueFrom, Holding, TypeOK
<1>5. ASSUME NEW k \in DOMAIN chans, NEW i \in DOMAIN Arrived(k)
      PROVE  Arrived(k)[i].stamp < Len(sent) + 1
  <2>1. Arrived(k)[i].stamp \in Matching(k)
    BY DEF OnlyMatchingFrames
  <2>2. made[k].since \in Nat /\ Len(sent) \in Nat
    BY Domains DEF Made
  <2> QED BY <2>1, <2>2 DEF Matching
<1>6. FromMaster'
  BY <1>1, <1>3, <1>4 DEF OInv, FromMaster, Holding
<1>7. NotYet'
  <2> SUFFICES ASSUME NEW n \in Masters, Holding(n)', NEW k \in DOMAIN chans, ToOffer(n, k)',
                      NEW i \in DOMAIN Arrived(k), Arrived(k)[i].by = n
               PROVE  Arrived(k)[i].stamp < call'[n].frame.stamp
    BY <1>2 DEF NotYet
  <2>1. CASE n = m
    BY <1>1, <1>4, <1>5, <2>1
  <2>2. CASE n # m
    <3>1. Holding(n) /\ ToOffer(n, k)
      BY <1>3, <2>2 DEF Holding, ToOffer
    <3> QED BY <1>3, <2>2, <3>1 DEF OInv, NotYet
  <2> QED BY <2>1, <2>2
<1>8. SenderOrder'
  BY <1>2 DEF OInv, SenderOrder
<1> QED BY <1>6, <1>7, <1>8 DEF OInv

(* An offered frame is younger than what its master offered before, and is *)
(* not offered to the same channel again.                                  *)
LEMMA OInvOnOffer ==
    ASSUME TypeOK, BroadcastOnStableBus, OInv, NEW m \in Masters, Offer(m)
    PROVE  OInv'
<1>1. PICK k \in DOMAIN chans, f \in Frames :
          /\ k = call[m].cursor /\ f = call[m].frame
          /\ k \in DOMAIN subs /\ subs[k].ch = k /\ k \in Nat
  BY CursorInRange DEF Offer
<1>2. PICK r \in Answers :
        /\ TrySend(k, f, r) \/ SendDropOldest(k, f, r) \/ BlockingSend(k, f, r)
        /\ call' = [call EXCEPT ![m] = [at |-> "account", frame |-> f, cursor |-> @.cursor,
                                        answer |-> r]]
  BY <1>1 DEF Offer
<1>3. UNCHANGED got
  BY DEF Offer
<1>4. /\ Holding(m) /\ ToOffer(m, k) /\ f.by = m
      /\ \A n \in Masters : n # m => call'[n] = call[n]
      /\ call'[m].at = "account" /\ call'[m].frame = f /\ call'[m].cursor = k
  BY <1>1, <1>2 DEF Offer, OInv, FromMaster, ToOffer, TypeOK
<1>5. ASSUME NEW n \in Masters, Holding(n)'
      PROVE  /\ Holding(n) /\ call'[n].frame = call[n].frame
             /\ \A j \in DOMAIN chans : ToOffer(n, j)' => ToOffer(n, j)
             /\ n = m => ~ToOffer(n, k)'
  BY <1>1, <1>4, <1>5 DEF ToOffer, Holding
<1>6. CASE UNCHANGED chans
  <2>1. DOMAIN chans' = DOMAIN chans /\ \A j : Arrived(j)' = Arrived(j)
    BY <1>3, <1>6 DEF Arrived
  <2> QED BY <1>5, <2>1, OInvIfSame
<1>7. CASE ~UNCHANGED chans
  <2>1. PICK c \in Channels :
            /\ chans' = [chans EXCEPT ![k] = c]
            /\ \/ c.items = Append(chans[k].items, f)
               \/ /\ chans[k].items # << >>
                  /\ c.items = Append(Tail(chans[k].items), f)
    BY <1>1, <1>2, <1>7, OfferChangesOne
  <2>2. \A j \in DOMAIN chans \ {k} : Arrived(j)' = Arrived(j)
    BY <1>3, <2>1 DEF Arrived
  <2>11. Arrived(k)' = got[k] \o c.items
    BY <1>1, <1>3, <2>1 DEF Arrived
  <2>12. Gains(Arrived(k), got[k] \o c.items, f)
    BY <1>1, <2>1, ArrivedOnOffer
  <2>3. PICK n \in Nat \ {0} : \E e \in [1..n - 1 -> DOMAIN Arrived(k)] :
              /\ DOMAIN Arrived(k)' = 1..n /\ Arrived(k)'[n] = f
              /\ \A i \in 1..n - 1 : Arrived(k)'[i] = Arrived(k)[e[i]]
              /\ \A i, j \in 1..n - 1 : i < j => e[i] < e[j]
    <3> DEFINE u == Arrived(k)
               v == Arrived(k)'
    <3>1. Gains(u, v, f)
      BY <2>11, <2>12
    <3> HIDE DEF u, v
    <3>2. \E n \in Nat \ {0} : \E e \in [1..n - 1 -> DOMAIN u] :
              /\ DOMAIN v = 1..n /\ v[n] = f
              /\ \A i \in 1..n - 1 : v[i] = u[e[i]]
              /\ \A i, j \in 1..n - 1 : i < j => e[i] < e[j]
      BY <3>1 DEF Gains
    <3> QED BY <3>2, Zenon DEF u, v
  <2>4. PICK e \in [1..n - 1 -> DOMAIN Arrived(k)] :
              /\ DOMAIN Arrived(k)' = 1..n /\ Arrived(k)'[n] = f
              /\ \A i \in 1..n - 1 : Arrived(k)'[i] = Arrived(k)[e[i]]
              /\ \A i, j \in 1..n - 1 : i < j => e[i] < e[j]
    BY <2>3
  <2>5. DOMAIN chans' = DOMAIN chans
    BY <2>1
  <2>6. \A i \in 1..n : i = n \/ (i \in 1..n - 1 /\ e[i] \in DOMAIN Arrived(k))
    OBVIOUS
  <2>7. \A i \in DOMAIN Arrived(k) : Arrived(k)[i].by = m => Arrived(k)[i].stamp < f.stamp
    BY <1>1, <1>4 DEF OInv, NotYet
  <2>8. FromMaster'
    BY <1>4, <1>5 DEF OInv, FromMaster
  <2>9. NotYet'
    <3> SUFFICES ASSUME NEW p \in Masters, Holding(p)', NEW j \in DOMAIN chans, ToOffer(p, j)',
                        NEW i \in DOMAIN Arrived(j)', Arrived(j)'[i].by = p
                 PROVE  Arrived(j)'[i].stamp < call'[p].frame.stamp
      BY <2>5 DEF NotYet
    <3>1. Holding(p) /\ call'[p].frame = call[p].frame /\ ToOffer(p, j)
      BY <1>5
    <3>2. \A x \in DOMAIN Arrived(j) : Arrived(j)[x].by = p
                                       => Arrived(j)[x].stamp < call[p].frame.stamp
      BY <3>1 DEF OInv, NotYet
    <3>3. CASE j # k
      BY <2>2, <3>1, <3>2, <3>3
    <3>4. CASE j = k
      <4>1. p # m
        BY <1>5, <3>4
      <4>2. i \in 1..n - 1 /\ e[i] \in DOMAIN Arrived(k)
        BY <1>4, <2>4, <2>6, <3>4, <4>1
      <4> QED BY <2>4, <3>1, <3>2, <3>4, <4>2
    <3> QED BY <3>3, <3>4
  <2>10. SenderOrder'
    <3> SUFFICES ASSUME NEW j \in DOMAIN chans, NEW x \in DOMAIN Arrived(j)',
                        NEW y \in DOMAIN Arrived(j)', x < y,
                        Arrived(j)'[x].by = Arrived(j)'[y].by
                 PROVE  Arrived(j)'[x].stamp < Arrived(j)'[y].stamp
      BY <2>5 DEF SenderOrder
    <3>1. \A a, b \in DOMAIN Arrived(j) : a < b /\ Arrived(j)[a].by = Arrived(j)[b].by
                                          => Arrived(j)[a].stamp < Arrived(j)[b].stamp
      BY DEF OInv, SenderOrder
    <3>2. CASE j # k
      BY <2>2, <3>1, <3>2
    <3>3. CASE j = k
      <4>1. x \in 1..n /\ y \in 1..n
        BY <2>4, <3>3
      <4>2. x \in 1..n - 1 /\ e[x] \in DOMAIN Arrived(k) /\ Arrived(k)'[x] = Arrived(k)[e[x]]
        BY <2>4, <4>1
      <4>3. CASE y = n
        BY <1>4, <2>4, <2>7, <3>3, <4>2, <4>3
      <4>4. CASE y # n
        <5>1. /\ y \in 1..n - 1 /\ e[y] \in DOMAIN Arrived(k)
              /\ Arrived(k)'[y] = Arrived(k)[e[y]] /\ e[x] < e[y]
          BY <2>4, <4>1, <4>2, <4>4
        <5> QED BY <3>1, <3>3, <4>2, <5>1
      <4> QED BY <4>3, <4>4
    <3> QED BY <3>2, <3>3
  <2> QED BY <2>8, <2>9, <2>10 DEF OInv
<1> QED BY <1>6, <1>7

(* After the accounting the master goes on to later subscriptions. *)
LEMMA ForwardOnAccount ==
    ASSUME TypeOK, BroadcastOnStableBus, NEW m \in Masters, Account(m)
    PROVE  \A n \in Masters : Holding(n)' =>
               /\ Holding(n) /\ call'[n].frame = call[n].frame
               /\ \A k \in DOMAIN chans : ToOffer(n, k)' => ToOffer(n, k)
<1>1. ContinueFrom(m, call[m].frame, call[m].cursor + 1) /\ Holding(m)
  BY DEF Account
<1>2. call[m].cursor \in Nat /\ Len(subs) \in Nat
  BY <1>1, CursorInRange, LenProperties DEF TypeOK, SubsType
<1>3. \A n \in Masters : n # m => call'[n] = call[n]
  BY <1>1 DEF ContinueFrom, TypeOK
<1>4. Holding(m)' => \E i \in call[m].cursor + 1..Len(subs) :
          call'[m] = [at |-> "offer", frame |-> call[m].frame, cursor |-> i]
  BY <1>1 DEF ContinueFrom, Holding, TypeOK
<1>5. ASSUME Holding(m)', NEW k \in DOMAIN chans, ToOffer(m, k)'
      PROVE  ToOffer(m, k)
  <2>1. PICK i \in call[m].cursor + 1..Len(subs) :
            call'[m] = [at |-> "offer", frame |-> call[m].frame, cursor |-> i]
    BY <1>4, <1>5
  <2>2. k \in Nat /\ i <= k
    BY <1>2, <1>5, <2>1, Domains DEF ToOffer
  <2> QED BY <1>2, <2>2 DEF ToOffer
<1>6. ASSUME NEW n \in Masters, n # m, Holding(n)'
      PROVE  Holding(n) /\ \A k \in DOMAIN chans : ToOffer(n, k)' => ToOffer(n, k)
  BY <1>3, <1>6 DEF Holding, ToOffer
<1>7. Holding(m)' => /\ Holding(m) /\ call'[m].frame = call[m].frame
                     /\ \A k \in DOMAIN chans : ToOffer(m, k)' => ToOffer(m, k)
  <2>1. ASSUME Holding(m)' PROVE \A k \in DOMAIN chans : ToOffer(m, k)' => ToOffer(m, k)
    BY <1>5, <2>1
  <2>2. ASSUME Holding(m)' PROVE call'[m].frame = call[m].frame
    <3>1. PICK i \in call[m].cursor + 1..Len(subs) :
              call'[m] = [at |-> "offer", frame |-> call[m].frame, cursor |-> i]
      BY <1>4, <2>2
    <3> QED BY <3>1
  <2> QED BY <1>1, <2>1, <2>2
<1> QED BY <1>3, <1>6, <1>7

(* The same for the whole accounting. *)
LEMMA OInvOnAccount ==
    ASSUME TypeOK, BroadcastOnStableBus, OInv, NEW m \in Masters, Account(m)
    PROVE  OInv'
<1>1. DOMAIN chans' = DOMAIN chans /\ \A k : Arrived(k)' = Arrived(k)
  BY DEF Account, Arrived
<1> QED BY <1>1, ForwardOnAccount, OInvIfSame

(* The invariant holds at the start. *)
LEMMA InitOInv == Init => OInv
<1> SUFFICES ASSUME Init PROVE OInv
  OBVIOUS
<1>1. DOMAIN << >> = {}
  OBVIOUS
<1> QED BY <1>1 DEF Init, OInv, FromMaster, NotYet, SenderOrder, Holding

(* Every step keeps the order. *)
LEMMA NextOInv == IInv /\ OnlyMatchingFrames /\ OInv /\ [Next]_vars => OInv'
<1> SUFFICES ASSUME TypeOK, BroadcastOnStableBus, OnlyMatchingFrames, OInv, [Next]_vars
             PROVE  OInv'
  BY DEF IInv
<1>1. ASSUME UNCHANGED <<chans, call, got>> PROVE OInv'
  BY <1>1, OInvIfQuiet
<1>2. ASSUME CloseBus, UNCHANGED <<call, got>> PROVE OInv'
  BY <1>2, CloseBusKeepsChannels, OInvIfQuiet
<1>3. CASE Client
  <2>1. CASE \E o \in Options : Subscribe(o)
    BY <2>1, OInvOnSubscribe
  <2>2. CASE Close
    BY <1>2, <2>2 DEF Close
  <2>3. CASE UNCHANGED <<chans, call, got>>
    BY <1>1, <2>3
  <2> QED BY <1>3, <2>1, <2>2, <2>3
      DEF Client, Publish, PublishClassic, DoPublish, Unpublish, RefuseId, RefuseClosed,
          CountError, SetSchedule
<1>4. CASE \E m \in Masters : Master(m)
  <2> SUFFICES ASSUME NEW m \in Masters, Master(m) PROVE OInv'
    BY <1>4
  <2>1. CASE \E id \in ValidIds : SendHeader(m, id)
    BY <2>1, OInvOnSendHeader
  <2>2. CASE CountError
    BY <1>1, <2>2 DEF CountError
  <2>3. CASE Offer(m)
    BY <2>3, OInvOnOffer
  <2>4. CASE Account(m)
    BY <2>4, OInvOnAccount
  <2> QED BY <2>1, <2>2, <2>3, <2>4 DEF Master, RefuseHeader
<1>5. CASE \E d \in Drainers : Drainer(d)
  <2> SUFFICES ASSUME NEW d \in Drainers, Drainer(d) PROVE OInv'
    BY <1>5
  <2>1. CASE DrainClose(d)
    BY <1>2, <2>1 DEF DrainClose
  <2>2. CASE UNCHANGED <<chans, call, got>>
    BY <1>1, <2>2
  <2> QED BY <2>1, <2>2 DEF Drainer, CloseWithDrain, Deadline, DrainPoll, DrainScan
<1>6. CASE \E k \in DOMAIN chans : Reader(k)
  <2> SUFFICES ASSUME NEW k \in DOMAIN chans, Reader(k) PROVE OInv'
    BY <1>6
  <2>1. CASE Recv(k)
    BY <2>1, ArrivedOnRecv, OInvIfSame DEF Recv, Holding, ToOffer
  <2>2. CASE RecvEnd(k)
    BY <1>1, <2>2 DEF RecvEnd
  <2>3. CASE SelfClose(k)
    <3>1. chans[k] \in Channels
      BY Domains
    <3>2. /\ DOMAIN chans' = DOMAIN chans
          /\ \A j \in DOMAIN chans : chans'[j].items = chans[j].items
      BY <2>3, <3>1 DEF SelfClose, Channels
    <3> QED BY <2>3, <3>2, OInvIfQuiet DEF SelfClose
  <2> QED BY <2>1, <2>2, <2>3 DEF Reader
<1>7. CASE UNCHANGED vars
  BY <1>1, <1>7 DEF vars
<1> QED BY <1>3, <1>4, <1>5, <1>6, <1>7 DEF Next

(* The invariant holds in every reachable state of the bus. *)
LEMMA BusOInv == Spec => []OInv
BY BusIInv, DeliveryCorrect, InitOInv, NextOInv, PTL DEF Spec

(* Two headers of one master never overtake each other on the way to a     *)
(* subscriber, and none arrives twice, whatever other masters do and       *)
(* whatever is dropped or evicted on the way.                              *)
THEOREM OrderKept == Spec => []SenderOrder
BY BusOInv, PTL DEF OInv


-----------------------------------------------------------------------------
(* The Block policy loses nothing                                          *)

(* Where the loop over subs_ goes on from subscription c: it still has to  *)
(* serve exactly the subscriptions from c on that want the frame.          *)
LEMMA ContinueOwes ==
    ASSUME TypeOK, NEW m \in Masters, NEW f, NEW c \in Nat, ContinueFrom(m, f, c)
    PROVE  /\ Holding(m)' => call'[m].frame = f
           /\ \A n \in Masters \ {m} : call'[n] = call[n]
           /\ \A k \in DOMAIN subs : MatchesAny(subs[k].filters, f) =>
                  (Holding(m)' /\ ToOffer(m, k)' <=> c <= k)
<1>1. \A n \in Masters \ {m} : call'[n] = call[n]
  BY DEF ContinueFrom, TypeOK
<1>2. /\ DOMAIN subs = 1..Len(subs) /\ Len(subs) \in Nat
  BY LenProperties DEF TypeOK, SubsType
<1> DEFINE rest == {i \in c..Len(subs) : MatchesAny(subs[i].filters, f)}
<1>3. CASE rest = {} /\ call' = [call EXCEPT ![m] = NoCall]
  <2>1. ~Holding(m)'
    BY <1>3 DEF Holding, TypeOK
  <2>2. \A k \in DOMAIN subs : MatchesAny(subs[k].filters, f) => ~(c <= k)
    BY <1>2, <1>3
  <2> QED BY <1>1, <2>1, <2>2
<1>4. CASE \E i \in rest : /\ \A j \in rest : i <= j
                           /\ call' = [call EXCEPT ![m] = [at |-> "offer", frame |-> f,
                                                           cursor |-> i]]
  <2>1. PICK i \in rest : /\ \A j \in rest : i <= j
                          /\ call' = [call EXCEPT ![m] = [at |-> "offer", frame |-> f,
                                                          cursor |-> i]]
    BY <1>4
  <2>2. call'[m] = [at |-> "offer", frame |-> f, cursor |-> i]
    BY <2>1 DEF TypeOK
  <2>3. Holding(m)' /\ call'[m].frame = f /\ \A k : ToOffer(m, k)' <=> i < k \/ i = k
    BY <2>2 DEF Holding, ToOffer, NoCall
  <2>4. \A k \in DOMAIN subs : MatchesAny(subs[k].filters, f) =>
            (i < k \/ i = k <=> c <= k)
    BY <1>2, <2>1
  <2> QED BY <1>1, <2>3, <2>4
<1> QED BY <1>3, <1>4 DEF ContinueFrom

(* Every header that channel k should have arrived, or is still to come. *)
Kept(k) ==
    \A n \in Matching(k) :
        \/ \E i \in DOMAIN Arrived(k) : Arrived(k)[i].stamp = n
        \/ \E m \in Masters : Holding(m) /\ call[m].frame.stamp = n /\ ToOffer(m, k)

(* Only its own subscriber closes a channel of an open bus. *)
OwnClose == \A k \in DOMAIN chans : chans[k].closed => closed \/ k \in SelfClosers

PolicyAsMade == \A i \in DOMAIN subs : subs[i].policy = made[i].policy

KInv == OwnClose /\ PolicyAsMade /\ BlockLosesNothing

LEMMA BlockIsKept ==
    BlockLosesNothing <=>
        \A k \in DOMAIN chans :
            made[k].policy = "Block" /\ (k \in SelfClosers => ~chans[k].closed) => Kept(k)
BY DEF BlockLosesNothing, Kept, ToOffer

(* The same after the step. *)
LEMMA BlockIsKeptNext ==
    ASSUME \A k \in DOMAIN chans' :
               made'[k].policy = "Block" /\ (k \in SelfClosers => ~chans'[k].closed) => Kept(k)'
    PROVE  BlockLosesNothing'
BY DEF BlockLosesNothing, Kept, ToOffer

(* A step that leaves the calls and what arrived alone, and opens nothing. *)
LEMMA KInvIfQuiet ==
    ASSUME KInv, UNCHANGED <<call, sent, made>>, DOMAIN chans' = DOMAIN chans,
           UNCHANGED subs \/ subs' = << >>,
           \A k \in DOMAIN chans :
               /\ Arrived(k)' = Arrived(k)
               /\ chans[k].closed => chans'[k].closed
               /\ chans'[k].closed => chans[k].closed \/ closed' \/ k \in SelfClosers,
           closed => closed'
    PROVE  KInv'
<1>1. OwnClose'
  BY DEF KInv, OwnClose
<1>2. PolicyAsMade'
  <2>1. DOMAIN << >> = {}
    OBVIOUS
  <2> QED BY <2>1 DEF KInv, PolicyAsMade
<1>3. BlockLosesNothing'
  <2>1. ASSUME NEW k \in DOMAIN chans, made[k].policy = "Block",
               k \in SelfClosers => ~chans'[k].closed
        PROVE  Kept(k)'
    <3>1. Kept(k)
      BY <2>1, BlockIsKept DEF KInv
    <3>2. Matching(k)' = Matching(k) /\ Arrived(k)' = Arrived(k)
      BY DEF Matching
    <3>3. \A m \in Masters : /\ Holding(m)' <=> Holding(m)
                             /\ ToOffer(m, k)' <=> ToOffer(m, k)
      BY DEF Holding, ToOffer
    <3> QED BY <3>1, <3>2, <3>3 DEF Kept
  <2> QED BY <2>1, BlockIsKeptNext
<1> QED BY <1>1, <1>2, <1>3 DEF KInv

(* A new subscription has missed nothing yet. *)
LEMMA KInvOnSubscribe ==
    ASSUME TypeOK, KInv, NEW o \in Options, Subscribe(o)
    PROVE  KInv'
<1> USE BusAssumption
<1> DEFINE c == [items |-> << >>, depth |-> o.depth, closed |-> FALSE]
           s == [filters |-> o.filters, policy |-> o.policy, ch |-> Len(chans) + 1]
           d == [filters |-> o.filters, policy |-> o.policy, since |-> Len(sent)]
<1>1. PICK n \in Nat : n = Len(chans) + 1
  BY Domains
<1>2. /\ Len(sent) \in Nat /\ Len(chans) \in Nat /\ n <= MaxSubs
      /\ DOMAIN chans = 1..Len(chans) /\ DOMAIN subs = DOMAIN chans /\ DOMAIN made = DOMAIN chans
      /\ DOMAIN got = DOMAIN chans /\ Len(subs) = Len(chans) /\ Len(got) = Len(chans)
      /\ Len(made) = Len(chans)
  BY <1>1, Domains DEF TypeOK, SubsType, HistoryType, Subscribe
<1>3. c \in Channels /\ s \in Subscriptions /\ d \in Made
  <2>1. c \in Channels
    BY EmptySeq DEF Channels
  <2>2. s \in Subscriptions
    BY <1>1, <1>2 DEF Subscriptions, Filters
  <2>3. d \in Made
    BY <1>2 DEF TypeOK, HistoryType, Made, Filters
  <2> QED BY <2>1, <2>2, <2>3
<1>4. /\ DOMAIN chans' = 1..n /\ chans'[n] = c
      /\ \A i \in 1..Len(chans) : chans'[i] = chans[i]
  BY <1>1, <1>2, <1>3, AppendProperties, LenProperties DEF TypeOK, Subscribe, ChannelType
<1>5. /\ DOMAIN subs' = 1..n /\ subs'[n] = s
      /\ \A i \in 1..Len(chans) : subs'[i] = subs[i]
  BY <1>1, <1>2, <1>3, AppendProperties, LenProperties DEF TypeOK, Subscribe, SubsType
<1>6. /\ made'[n] = d
      /\ \A i \in 1..Len(chans) : made'[i] = made[i]
  BY <1>1, <1>2, <1>3, AppendProperties DEF TypeOK, Subscribe, HistoryType
<1>7. \A i \in 1..Len(chans) : got'[i] = got[i]
  BY <1>2, EmptySeq, AppendProperties DEF TypeOK, Subscribe, HistoryType
<1>8. UNCHANGED <<call, sent, closed>> /\ \A m \in Masters : ~Holding(m)
  BY DEF Subscribe, Exclusive
<1>9. \A k \in 1..n : k \in 1..Len(chans) \/ k = n
  BY <1>1, <1>2
<1>10. OwnClose'
  BY <1>2, <1>4, <1>8, <1>9 DEF KInv, OwnClose
<1>11. PolicyAsMade'
  BY <1>2, <1>5, <1>6, <1>9 DEF KInv, PolicyAsMade
<1>12. BlockLosesNothing'
  <2>1. ASSUME NEW k \in 1..n, made'[k].policy = "Block", k \in SelfClosers => ~chans'[k].closed
        PROVE  Kept(k)'
    <3>1. CASE k \in 1..Len(chans)
      <4>1. Kept(k)
        BY <1>2, <1>4, <1>6, <2>1, <3>1, BlockIsKept DEF KInv
      <4>2. Matching(k)' = Matching(k) /\ Arrived(k)' = Arrived(k)
        BY <1>4, <1>6, <1>7, <1>8, <3>1 DEF Matching, Arrived
      <4>3. \A m \in Masters : ~Holding(m)
        BY <1>8
      <4> QED BY <4>1, <4>2, <4>3 DEF Kept
    <3>2. CASE k = n
      <4>1. made'[k].since + 1 = Len(sent) + 1 /\ Len(sent') = Len(sent)
        BY <1>6, <1>8, <3>2
      <4>2. Matching(k)' = {}
        BY <1>2, <4>1 DEF Matching
      <4> QED BY <4>2 DEF Kept
    <3> QED BY <1>9, <3>1, <3>2
  <2> QED BY <1>4, <2>1, BlockIsKeptNext
<1> QED BY <1>10, <1>11, <1>12 DEF KInv

(* A new header is in the hands of its master for every channel that wants *)
(* it.                                                                     *)
LEMMA KInvOnSendHeader ==
    ASSUME TypeOK, DInv, KInv, NEW m \in Masters, NEW id \in ValidIds, SendHeader(m, id)
    PROVE  KInv'
<1> USE BusAssumption
<1>1. Len(sent) \in Nat /\ Len(sent) < MaxHeaders /\ DOMAIN sent = 1..Len(sent)
  BY Domains DEF SendHeader
<1>2. PICK f \in Frames : /\ ContinueFrom(m, f, 1) /\ sent' = Append(sent, f)
                          /\ f.stamp = Len(sent) + 1
  <2> DEFINE f == [id |-> id, data |-> responses[id].data, ct |-> responses[id].ct,
                   by |-> m, stamp |-> Len(sent) + 1]
  <2>1. f \in Frames
    BY <1>1 DEF TypeOK, SendHeader, BusType, Responses, Frames
  <2>2. ContinueFrom(m, f, 1) /\ sent' = Append(sent, f) /\ f.stamp = Len(sent) + 1
    BY DEF SendHeader
  <2> HIDE DEF f
  <2> QED BY <2>1, <2>2
<1>3. UNCHANGED <<subs, closed, chans, got, made>> /\ ~closed /\ ~Holding(m)
  BY DEF SendHeader, bus
<1>4. /\ Len(sent') = Len(sent) + 1 /\ sent'[Len(sent) + 1] = f
      /\ \A i \in 1..Len(sent) : sent'[i] = sent[i]
  BY <1>2, AppendProperties DEF TypeOK, HistoryType
<1>5. /\ Holding(m)' => call'[m].frame = f
      /\ \A n \in Masters \ {m} : call'[n] = call[n]
      /\ \A k \in DOMAIN subs : MatchesAny(subs[k].filters, f) =>
             (Holding(m)' /\ ToOffer(m, k)' <=> 1 <= k)
  BY <1>2, ContinueOwes
<1>6. OwnClose' /\ PolicyAsMade'
  BY <1>3 DEF KInv, OwnClose, PolicyAsMade
<1>7. ASSUME NEW k \in DOMAIN chans, made[k].policy = "Block",
             k \in SelfClosers => ~chans[k].closed
      PROVE  Kept(k)'
  <2> SUFFICES ASSUME NEW n \in Matching(k)'
               PROVE  \/ \E i \in DOMAIN Arrived(k) : Arrived(k)[i].stamp = n
                      \/ \E p \in Masters : /\ Holding(p)' /\ call'[p].frame.stamp = n
                                            /\ ToOffer(p, k)'
    BY <1>3 DEF Kept, Arrived
  <2>1. /\ made[k].since \in Nat /\ n \in made[k].since + 1..Len(sent) + 1
        /\ MatchesAny(made[k].filters, sent'[n])
    BY <1>3, <1>4, Domains DEF Matching, Made
  <2>2. CASE n = Len(sent) + 1
    <3>1. k \in DOMAIN subs /\ subs[k].filters = made[k].filters /\ 1 <= k
      BY <1>3, Domains DEF DInv, SubsAsMade, TypeOK, SubsType
    <3>2. MatchesAny(subs[k].filters, f)
      BY <1>4, <2>1, <2>2, <3>1
    <3> QED BY <1>2, <1>5, <2>2, <3>1, <3>2
  <2>3. CASE n # Len(sent) + 1
    <3>1. n \in Matching(k)
      BY <1>1, <1>4, <2>1, <2>3 DEF Matching
    <3>2. Kept(k)
      BY <1>7, BlockIsKept DEF KInv
    <3>3. CASE \E p \in Masters : Holding(p) /\ call[p].frame.stamp = n /\ ToOffer(p, k)
      <4>1. PICK p \in Masters : Holding(p) /\ call[p].frame.stamp = n /\ ToOffer(p, k)
        BY <3>3
      <4>2. p # m /\ call'[p] = call[p]
        BY <1>3, <1>5, <4>1
      <4> QED BY <4>1, <4>2 DEF Holding, ToOffer
    <3> QED BY <3>1, <3>2, <3>3 DEF Kept
  <2> QED BY <2>2, <2>3
<1>8. BlockLosesNothing'
  BY <1>3, <1>7, BlockIsKeptNext
<1> QED BY <1>6, <1>8 DEF KInv

(* The Block policy gives up on a channel only when that is closed, which  *)
(* only its subscriber does while a broadcast runs.                        *)
LEMMA KInvOnOffer ==
    ASSUME TypeOK, BroadcastOnStableBus, KInv, NEW m \in Masters, Offer(m)
    PROVE  KInv'
<1>1. PICK k \in DOMAIN chans, f \in Frames :
          /\ k = call[m].cursor /\ f = call[m].frame
          /\ k \in DOMAIN subs /\ subs[k].ch = k /\ k \in Nat
  BY CursorInRange DEF Offer
<1>2. PICK r \in Answers :
        /\ \/ subs[k].policy = "DropNewest" /\ TrySend(k, f, r)
           \/ subs[k].policy = "DropOldest" /\ SendDropOldest(k, f, r)
           \/ subs[k].policy = "Block" /\ BlockingSend(k, f, r)
        /\ call' = [call EXCEPT ![m] = [at |-> "account", frame |-> f, cursor |-> @.cursor,
                                        answer |-> r]]
  BY <1>1 DEF Offer
<1>3. UNCHANGED <<subs, closed, got, sent, made>> /\ Holding(m) /\ ~closed
  BY DEF Offer, bus, BroadcastOnStableBus
<1>4. /\ \A n \in Masters : n # m => call'[n] = call[n]
      /\ Holding(m)' /\ call'[m].frame = f /\ call'[m].cursor = k
      /\ call[m].at = "offer" /\ call'[m].at = "account"
  BY <1>1, <1>2 DEF Offer, Holding, NoCall, TypeOK
<1>5. \/ UNCHANGED chans
      \/ \E c \in Channels : chans' = [chans EXCEPT ![k] = c] /\ c.closed = chans[k].closed
  <2>1. chans[k] \in Channels
    BY Domains
  <2>2. ASSUME NEW q \in Seq(Frames), chans' = [chans EXCEPT ![k].items = q]
        PROVE  \E c \in Channels : chans' = [chans EXCEPT ![k] = c] /\ c.closed = chans[k].closed
    <3> DEFINE c == [chans[k] EXCEPT !.items = q]
    <3>1. c \in Channels /\ c.closed = chans[k].closed /\ chans' = [chans EXCEPT ![k] = c]
      BY <2>1, <2>2 DEF Channels
    <3> HIDE DEF c
    <3> QED BY <3>1
  <2>3. CASE Push(k, f)
    <3>1. Append(chans[k].items, f) \in Seq(Frames)
      BY Domains, AppendProperties
    <3>2. chans' = [chans EXCEPT ![k].items = Append(chans[k].items, f)]
      BY <2>3 DEF Push
    <3> QED BY <2>2, <3>1, <3>2
  <2>4. CASE Evict(k, f) /\ ~HasRoom(k)
    <3>1. chans[k].items # << >>
      BY <2>1, <2>4, EmptySeq DEF HasRoom, Channels
    <3>2. Append(Tail(chans[k].items), f) \in Seq(Frames)
      BY <3>1, Domains, HeadTailProperties, AppendProperties
    <3>3. chans' = [chans EXCEPT ![k].items = Append(Tail(chans[k].items), f)]
      BY <2>4 DEF Evict
    <3> QED BY <2>2, <3>2, <3>3
  <2> QED BY <1>2, <2>3, <2>4 DEF TrySend, SendDropOldest, BlockingSend
<1>6. /\ DOMAIN chans' = DOMAIN chans
      /\ \A j \in DOMAIN chans : /\ chans'[j].closed = chans[j].closed
                                 /\ j # k => chans'[j] = chans[j]
  BY <1>5
<1>7. OwnClose' /\ PolicyAsMade'
  BY <1>3, <1>6 DEF KInv, OwnClose, PolicyAsMade
<1>8. ASSUME NEW j \in DOMAIN chans, made[j].policy = "Block",
             j \in SelfClosers => ~chans'[j].closed
      PROVE  Kept(j)'
  <2>1. Kept(j) /\ Matching(j)' = Matching(j)
    BY <1>3, <1>6, <1>8, BlockIsKept DEF KInv, Matching
  <2>2. ASSUME NEW n \in Matching(j), NEW p \in Masters,
               Holding(p), call[p].frame.stamp = n, ToOffer(p, j), p # m \/ j # k
        PROVE  Holding(p)' /\ call'[p].frame.stamp = n /\ ToOffer(p, j)'
    BY <1>1, <1>4, <2>2 DEF Holding, ToOffer
  <2>3. CASE j # k
    <3>1. Arrived(j)' = Arrived(j)
      BY <1>3, <1>6, <2>3 DEF Arrived
    <3> QED BY <2>1, <2>2, <2>3, <3>1 DEF Kept
  <2>4. CASE j = k
    <3>1. ~chans[k].closed
      BY <1>3, <1>6, <1>8, <2>4 DEF KInv, OwnClose
    <3>2. Push(k, f)
      BY <1>1, <1>2, <1>8, <2>4, <3>1 DEF BlockingSend, KInv, PolicyAsMade
    <3>3. Arrived(k)' = Append(Arrived(k), f)
      <4>1. Arrived(k)' = got[k] \o Append(chans[k].items, f)
        BY <1>3, <3>2, Domains DEF Push, Arrived, Channels
      <4>2. got[k] \in Seq(Frames) /\ chans[k].items \in Seq(Frames)
        BY Domains
      <4> DEFINE s == got[k]
                 t == chans[k].items
      <4>3. s \in Seq(Frames) /\ t \in Seq(Frames) /\ Arrived(k) = s \o t
            /\ Arrived(k)' = s \o Append(t, f)
        BY <4>1, <4>2 DEF Arrived
      <4> HIDE DEF s, t
      <4> QED BY <4>3, PushAtEnd
    <3>4. /\ DOMAIN Arrived(k)' = 1..Len(Arrived(k)) + 1
          /\ Arrived(k)'[Len(Arrived(k)) + 1] = f
          /\ \A i \in DOMAIN Arrived(k) : Arrived(k)'[i] = Arrived(k)[i]
          /\ DOMAIN Arrived(k) = 1..Len(Arrived(k)) /\ Len(Arrived(k)) \in Nat
      <4> DEFINE u == Arrived(k)
                 v == Arrived(k)'
      <4>1. u \in Seq(Frames) /\ v = Append(u, f)
        BY <3>3, ArrivedIsSeq
      <4> HIDE DEF u, v
      <4>2. /\ v \in Seq(Frames) /\ Len(v) = Len(u) + 1 /\ v[Len(u) + 1] = f
            /\ \A i \in 1..Len(u) : v[i] = u[i]
            /\ DOMAIN u = 1..Len(u) /\ Len(u) \in Nat
        BY <4>1, AppendProperties, LenProperties
      <4>3. DOMAIN v = 1..Len(u) + 1
        BY <4>2, LenProperties
      <4> QED BY <4>2, <4>3 DEF u, v
    <3>5. ASSUME NEW n \in Matching(k)
          PROVE  \/ \E i \in DOMAIN Arrived(k)' : Arrived(k)'[i].stamp = n
                 \/ \E p \in Masters : /\ Holding(p)' /\ call'[p].frame.stamp = n
                                       /\ ToOffer(p, k)'
      <4>1. CASE \E i \in DOMAIN Arrived(k) : Arrived(k)[i].stamp = n
        BY <3>4, <4>1
      <4>2. CASE \E p \in Masters : Holding(p) /\ call[p].frame.stamp = n /\ ToOffer(p, k)
        <5>1. PICK p \in Masters : Holding(p) /\ call[p].frame.stamp = n /\ ToOffer(p, k)
          BY <4>2
        <5>2. CASE p = m
          <6>1. f.stamp = n /\ Len(Arrived(k)) + 1 \in DOMAIN Arrived(k)'
            BY <1>1, <3>4, <5>1, <5>2
          <6> QED BY <3>4, <6>1
        <5>3. CASE p # m
          BY <2>2, <2>4, <5>1, <5>3
        <5> QED BY <5>2, <5>3
      <4> QED BY <2>1, <2>4, <4>1, <4>2 DEF Kept
    <3> QED BY <2>1, <2>4, <3>5 DEF Kept
  <2> QED BY <2>3, <2>4
<1>9. BlockLosesNothing'
  BY <1>3, <1>6, <1>8, BlockIsKeptNext
<1> QED BY <1>7, <1>9 DEF KInv

(* The loop skips no subscription that wants the frame. *)
LEMMA KInvOnAccount ==
    ASSUME TypeOK, BroadcastOnStableBus, DInv, KInv, NEW m \in Masters, Account(m)
    PROVE  KInv'
<1>1. /\ Holding(m) /\ call[m].at = "account"
      /\ ContinueFrom(m, call[m].frame, call[m].cursor + 1)
      /\ UNCHANGED <<subs, closed, chans, got, sent, made>>
  BY DEF Account, bus
<1>2. call[m].cursor \in Nat /\ DOMAIN subs = DOMAIN chans /\ DOMAIN chans \subseteq Nat
  <2>1. call[m].cursor \in DOMAIN chans /\ DOMAIN subs = DOMAIN chans
    BY <1>1, CursorInRange
  <2>2. DOMAIN chans \subseteq Nat
    BY Domains
  <2> QED BY <2>1, <2>2
<1>3. PICK f \in Frames, c \in Nat : f = call[m].frame /\ c = call[m].cursor + 1
  BY <1>1, <1>2, CursorInRange
<1>4. /\ Holding(m)' => call'[m].frame = f
      /\ \A n \in Masters \ {m} : call'[n] = call[n]
      /\ \A k \in DOMAIN subs : MatchesAny(subs[k].filters, f) =>
             (Holding(m)' /\ ToOffer(m, k)' <=> c <= k)
  BY <1>1, <1>3, ContinueOwes
<1>5. OwnClose' /\ PolicyAsMade'
  BY <1>1 DEF KInv, OwnClose, PolicyAsMade
<1>6. ASSUME NEW k \in DOMAIN chans, made[k].policy = "Block",
             k \in SelfClosers => ~chans[k].closed
      PROVE  Kept(k)'
  <2>1. Kept(k) /\ Matching(k)' = Matching(k) /\ Arrived(k)' = Arrived(k)
    BY <1>1, <1>6, BlockIsKept DEF KInv, Matching, Arrived
  <2>2. ASSUME NEW n \in Matching(k), NEW p \in Masters,
               Holding(p), call[p].frame.stamp = n, ToOffer(p, k)
        PROVE  Holding(p)' /\ call'[p].frame.stamp = n /\ ToOffer(p, k)'
    <3>1. CASE p # m
      BY <1>4, <2>2, <3>1 DEF Holding, ToOffer
    <3>2. CASE p = m
      <4>1. c <= k /\ k \in DOMAIN subs
        BY <1>1, <1>2, <1>3, <2>2, <3>2 DEF ToOffer
      <4>2. f = sent[n] /\ subs[k].filters = made[k].filters
        BY <1>3, <2>2, <3>2, <4>1 DEF DInv, InFlight, SubsAsMade
      <4>3. MatchesAny(subs[k].filters, f)
        BY <4>2 DEF Matching
      <4> QED BY <1>3, <1>4, <2>2, <3>2, <4>1, <4>3
    <3> QED BY <3>1, <3>2
  <2> QED BY <2>1, <2>2 DEF Kept
<1>7. BlockLosesNothing'
  BY <1>1, <1>6, BlockIsKeptNext
<1> QED BY <1>5, <1>7 DEF KInv

(* The invariant holds at the start. *)
LEMMA InitKInv == Init => KInv
<1> SUFFICES ASSUME Init PROVE KInv
  OBVIOUS
<1>1. DOMAIN << >> = {}
  OBVIOUS
<1> QED BY <1>1 DEF Init, KInv, OwnClose, PolicyAsMade, BlockLosesNothing

(* Every step keeps it. *)
LEMMA NextKInv == IInv /\ DInv /\ KInv /\ [Next]_vars => KInv'
<1> SUFFICES ASSUME TypeOK, BroadcastOnStableBus, DInv, KInv, [Next]_vars PROVE KInv'
  BY DEF IInv
<1>1. ASSUME UNCHANGED <<subs, closed, chans, call, got, sent, made>> PROVE KInv'
  BY <1>1, KInvIfQuiet DEF Arrived
<1>2. ASSUME CloseBus, UNCHANGED <<call, got, sent, made>> PROVE KInv'
  <2>1. UNCHANGED subs \/ subs' = << >>
    BY <1>2 DEF CloseBus, bus
  <2>2. closed' = TRUE
    BY <1>2 DEF CloseBus, bus, TypeOK, BusType
  <2>3. /\ DOMAIN chans' = DOMAIN chans
        /\ \A k \in DOMAIN chans : /\ chans'[k].items = chans[k].items
                                   /\ chans[k].closed => chans'[k].closed
    BY <1>2, CloseBusKeepsChannels
  <2>4. \A k \in DOMAIN chans : Arrived(k)' = Arrived(k)
    BY <1>2, <2>3 DEF Arrived
  <2> QED BY <1>2, <2>1, <2>2, <2>3, <2>4, KInvIfQuiet
<1>3. CASE Client
  <2>1. CASE \E o \in Options : Subscribe(o)
    BY <2>1, KInvOnSubscribe
  <2>2. CASE Close
    BY <1>2, <2>2 DEF Close
  <2>3. CASE UNCHANGED <<subs, closed, chans, call, got, sent, made>>
    BY <1>1, <2>3
  <2> QED BY <1>3, <2>1, <2>2, <2>3
      DEF Client, Publish, PublishClassic, DoPublish, Unpublish, RefuseId, RefuseClosed,
          CountError, SetSchedule, bus
<1>4. CASE \E m \in Masters : Master(m)
  <2> SUFFICES ASSUME NEW m \in Masters, Master(m) PROVE KInv'
    BY <1>4
  <2>1. CASE \E id \in ValidIds : SendHeader(m, id)
    BY <2>1, KInvOnSendHeader
  <2>2. CASE CountError
    BY <1>1, <2>2 DEF CountError, bus
  <2>3. CASE Offer(m)
    BY <2>3, KInvOnOffer
  <2>4. CASE Account(m)
    BY <2>4, KInvOnAccount
  <2> QED BY <2>1, <2>2, <2>3, <2>4 DEF Master, RefuseHeader
<1>5. CASE \E d \in Drainers : Drainer(d)
  <2> SUFFICES ASSUME NEW d \in Drainers, Drainer(d) PROVE KInv'
    BY <1>5
  <2>1. CASE DrainClose(d)
    BY <1>2, <2>1 DEF DrainClose
  <2>2. CASE UNCHANGED <<subs, closed, chans, call, got, sent, made>>
    BY <1>1, <2>2
  <2> QED BY <2>1, <2>2 DEF Drainer, CloseWithDrain, Deadline, DrainPoll, DrainScan, bus
<1>6. CASE \E k \in DOMAIN chans : Reader(k)
  <2> SUFFICES ASSUME NEW k \in DOMAIN chans, Reader(k) PROVE KInv'
    BY <1>6
  <2>1. CASE Recv(k)
    <3>1. chans[k] \in Channels
      BY Domains
    <3>2. \A j \in DOMAIN chans : chans'[j].closed = chans[j].closed
      BY <2>1, <3>1 DEF Recv, Channels
    <3> QED BY <2>1, <3>2, ArrivedOnRecv, KInvIfQuiet DEF Recv, bus
  <2>2. CASE RecvEnd(k)
    BY <1>1, <2>2 DEF RecvEnd, bus
  <2>3. CASE SelfClose(k)
    <3>1. chans[k] \in Channels
      BY Domains
    <3>2. /\ DOMAIN chans' = DOMAIN chans
          /\ \A j \in DOMAIN chans :
                /\ chans'[j].items = chans[j].items
                /\ chans[j].closed => chans'[j].closed
                /\ chans'[j].closed => chans[j].closed \/ j \in SelfClosers
      BY <2>3, <3>1 DEF SelfClose, Channels
    <3>3. \A j \in DOMAIN chans : Arrived(j)' = Arrived(j)
      BY <2>3, <3>2 DEF SelfClose, Arrived
    <3> QED BY <2>3, <3>2, <3>3, KInvIfQuiet DEF SelfClose, bus
  <2> QED BY <2>1, <2>2, <2>3 DEF Reader
<1>7. CASE UNCHANGED vars
  BY <1>1, <1>7 DEF vars, bus
<1> QED BY <1>3, <1>4, <1>5, <1>6, <1>7 DEF Next

(* The invariants of the deliveries hold in every reachable state. *)
LEMMA BusDInv == Spec => []DInv
BY BusIInv, InitDInv, NextDInv, PTL DEF Spec

(* The same for the invariant of the Block policy. *)
LEMMA BusKInv == Spec => []KInv
BY BusIInv, BusDInv, InitKInv, NextKInv, PTL DEF Spec

(* A subscriber with the Block policy that leaves its channel open misses  *)
(* no frame that it wants, for any number of masters and subscribers and   *)
(* whatever the others do.                                                 *)
THEOREM BlockKeepsAll == Spec => []BlockLosesNothing
BY BusKInv, PTL DEF KInv

-----------------------------------------------------------------------------
(* The counters                                                            *)

(* No subscriber with the Block policy may close its own channel. *)
Lossless == \A k \in DOMAIN made : k \in SelfClosers => made[k].policy # "Block"

(* A channel that answered that it is closed was closed by its subscriber. *)
ClosedAnswer ==
    \A m \in Masters :
        Holding(m) /\ call[m].at = "account" /\ call[m].answer = "Closed" =>
            call[m].cursor \in SelfClosers /\ chans[call[m].cursor].closed

FinitePairs == IsFiniteSet(Arrivals) /\ IsFiniteSet(Due) /\ IsFiniteSet(Pending)

Exact ==
    LET offers == metrics.deliver + metrics.drop + Cardinality(Pending)
    IN  /\ metrics.deliver + Cardinality(Owing) = Cardinality(Arrivals)
        /\ offers <= Cardinality(Due)
        /\ \/ offers = Cardinality(Due)
           \/ \E k \in SelfClosers \cap DOMAIN chans : chans[k].closed

CInv == FinitePairs /\ ClosedAnswer /\ (Lossless => Exact)

(* The pairs, one by one. *)
LEMMA PairsAre ==
    /\ \A k, i : <<k, i>> \in Arrivals <=> k \in DOMAIN chans /\ i \in DOMAIN Arrived(k)
    /\ \A k, n : <<k, n>> \in Due <=> k \in DOMAIN chans /\ n \in Matching(k)
    /\ \A m, i : <<m, i>> \in Pending <=> m \in Masters /\ i \in Uncounted(m)
BY DEF Arrivals, Due, Pending

(* Two sets of pairs with the same pairs are equal. *)
LEMMA ArrivalsIfSame ==
    ASSUME DOMAIN chans' = DOMAIN chans,
           \A k \in DOMAIN chans : DOMAIN Arrived(k)' = DOMAIN Arrived(k)
    PROVE  Arrivals' = Arrivals
BY DEF Arrivals

LEMMA DueIfSame ==
    ASSUME DOMAIN chans' = DOMAIN chans, UNCHANGED <<sent, made>>
    PROVE  Due' = Due
BY DEF Due, Matching

LEMMA PendingIfSame ==
    ASSUME \A m \in Masters : Uncounted(m)' = Uncounted(m)
    PROVE  Pending' = Pending
BY DEF Pending

LEMMA PendingIfFree ==
    ASSUME \A m \in Masters : ~Holding(m)
    PROVE  Pending = {}
BY DEF Pending, Uncounted

LEMMA OwingIsFinite == IsFiniteSet(Owing) /\ Cardinality(Owing) \in Nat
<1>1. IsFiniteSet(Owing)
  BY BusAssumption, FS_Subset DEF Owing
<1> QED BY <1>1, FS_CardinalityType

(* A step that counts nothing and takes nothing away. *)
LEMMA CInvIfQuiet ==
    ASSUME CInv, UNCHANGED call, Arrivals' = Arrivals, Due' = Due, Pending' = Pending,
           metrics'.deliver = metrics.deliver, metrics'.drop = metrics.drop,
           DOMAIN made \subseteq DOMAIN made', \A k \in DOMAIN made : made'[k] = made[k],
           DOMAIN chans \subseteq DOMAIN chans',
           \A k \in DOMAIN chans : chans[k].closed => chans'[k].closed,
           \A m \in Masters : Holding(m) => call[m].cursor \in DOMAIN chans
    PROVE  CInv'
<1>1. Owing' = Owing /\ \A m \in Masters : Holding(m)' <=> Holding(m)
  BY DEF Owing, Holding
<1>2. Lossless' => Lossless
  BY DEF Lossless
<1>3. Exact => Exact'
  BY <1>1 DEF Exact
<1>4. ClosedAnswer'
  BY <1>1 DEF CInv, ClosedAnswer
<1>5. FinitePairs'
  BY DEF CInv, FinitePairs
<1> QED BY <1>2, <1>3, <1>4, <1>5 DEF CInv

(* A new subscription has nothing to count yet. *)
LEMMA CInvOnSubscribe ==
    ASSUME TypeOK, CInv, NEW o \in Options, Subscribe(o)
    PROVE  CInv'
<1> USE BusAssumption
<1> DEFINE c == [items |-> << >>, depth |-> o.depth, closed |-> FALSE]
           d == [filters |-> o.filters, policy |-> o.policy, since |-> Len(sent)]
<1>1. PICK n \in Nat : n = Len(chans) + 1
  BY Domains
<1>2. /\ Len(sent) \in Nat /\ Len(chans) \in Nat
      /\ DOMAIN chans = 1..Len(chans) /\ DOMAIN made = DOMAIN chans
      /\ Len(got) = Len(chans) /\ Len(made) = Len(chans)
  BY <1>1, Domains DEF TypeOK, HistoryType
<1>3. c \in Channels /\ d \in Made
  <2>1. c \in Channels
    BY EmptySeq DEF Channels
  <2>2. d \in Made
    BY <1>2 DEF TypeOK, HistoryType, Made, Filters
  <2> QED BY <2>1, <2>2
<1>4. /\ DOMAIN chans' = 1..n /\ chans'[n] = c
      /\ \A i \in 1..Len(chans) : chans'[i] = chans[i]
  BY <1>1, <1>2, <1>3, AppendProperties, LenProperties DEF TypeOK, Subscribe, ChannelType
<1>5. /\ made'[n] = d /\ DOMAIN made' = 1..n
      /\ \A i \in 1..Len(chans) : made'[i] = made[i]
  BY <1>1, <1>2, <1>3, AppendProperties, LenProperties DEF TypeOK, Subscribe, HistoryType
<1>6. got'[n] = << >> /\ \A i \in 1..Len(chans) : got'[i] = got[i]
  BY <1>1, <1>2, EmptySeq, AppendProperties DEF TypeOK, Subscribe, HistoryType
<1>7. UNCHANGED <<call, sent, metrics>> /\ \A m \in Masters : ~Holding(m)
  BY DEF Subscribe, Exclusive
<1>8. \A k : k \in 1..n <=> k \in 1..Len(chans) \/ k = n
  BY <1>1, <1>2
<1>9. Arrivals' = Arrivals
  <2>1. DOMAIN Arrived(n)' = {}
    <3>1. Arrived(n)' = << >> \o << >>
      BY <1>4, <1>6 DEF Arrived
    <3>2. << >> \in Seq(Frames) /\ Len(<< >>) = 0
      BY EmptySeq
    <3>3. << >> \o << >> \in Seq(Frames) /\ Len(<< >> \o << >>) = 0
      BY <3>2, ConcatProperties
    <3>4. DOMAIN (<< >> \o << >>) = 1..0
      BY <3>3, LenProperties
    <3> QED BY <3>1, <3>4
  <2>2. \A k \in 1..Len(chans) : Arrived(k)' = Arrived(k)
    BY <1>4, <1>6 DEF Arrived
  <2> QED BY <1>2, <1>4, <1>8, <2>1, <2>2 DEF Arrivals
<1>10. Due' = Due
  <2>1. Matching(n)' = {}
    <3>1. made'[n].since + 1 = Len(sent) + 1 /\ Len(sent') = Len(sent)
      BY <1>5, <1>7
    <3> QED BY <1>2, <3>1 DEF Matching
  <2>2. \A k \in 1..Len(chans) : Matching(k)' = Matching(k)
    BY <1>5, <1>7 DEF Matching
  <2> QED BY <1>2, <1>4, <1>8, <2>1, <2>2 DEF Due
<1>11. Pending' = Pending
  BY <1>7, PendingIfSame DEF Uncounted, Holding
<1> QED BY <1>2, <1>4, <1>5, <1>7, <1>8, <1>9, <1>10, <1>11, CInvIfQuiet

(* The subscriptions from c on that want frame f. *)
From(c, f) == {i \in c..Len(subs) : MatchesAny(subs[i].filters, f)}

(* Where the loop goes on, nothing is skipped and nothing is repeated. *)
LEMMA ContinueCounts ==
    ASSUME TypeOK, NEW m \in Masters, NEW f, NEW c \in Nat, ContinueFrom(m, f, c),
           UNCHANGED subs
    PROVE  /\ Uncounted(m)' = From(c, f)
           /\ \A n \in Masters \ {m} : Uncounted(n)' = Uncounted(n)
           /\ m \notin Owing' /\ \A n \in Masters \ {m} : n \in Owing' <=> n \in Owing
           /\ Holding(m)' => call'[m].at = "offer"
           /\ \A n \in Masters \ {m} : call'[n] = call[n]
<1>1. \A n \in Masters \ {m} : call'[n] = call[n]
  BY DEF ContinueFrom, TypeOK
<1>2. Len(subs) \in Nat
  BY LenProperties DEF TypeOK, SubsType
<1>3. CASE From(c, f) = {} /\ call' = [call EXCEPT ![m] = NoCall]
  <2>1. ~Holding(m)'
    BY <1>3 DEF Holding, TypeOK
  <2> QED BY <1>1, <1>3, <2>1 DEF Uncounted, Owing, Holding
<1>4. CASE \E i \in From(c, f) : /\ \A j \in From(c, f) : i <= j
                                 /\ call' = [call EXCEPT ![m] = [at |-> "offer", frame |-> f,
                                                                 cursor |-> i]]
  <2>1. PICK i \in From(c, f) : /\ \A j \in From(c, f) : i <= j
                                /\ call' = [call EXCEPT ![m] = [at |-> "offer", frame |-> f,
                                                                cursor |-> i]]
    BY <1>4
  <2>2. call'[m] = [at |-> "offer", frame |-> f, cursor |-> i]
    BY <2>1 DEF TypeOK
  <2>3. Holding(m)' /\ call'[m].frame = f /\ call'[m].cursor = i /\ call'[m].at = "offer"
    BY <2>2 DEF Holding, NoCall
  <2>4. Uncounted(m)' = {j \in i..Len(subs) : MatchesAny(subs[j].filters, f)}
    BY <2>3 DEF Uncounted
  <2>5. {j \in i..Len(subs) : MatchesAny(subs[j].filters, f)} = From(c, f)
    BY <1>2, <2>1 DEF From
  <2> QED BY <1>1, <2>3, <2>4, <2>5 DEF Uncounted, Owing, Holding
<1> QED BY <1>3, <1>4 DEF ContinueFrom, From

(* A new header is due to every subscriber that wants it, and its master   *)
(* has as many offers to count.                                            *)
LEMMA CInvOnSendHeader ==
    ASSUME TypeOK, DInv, CInv, NEW m \in Masters, NEW id \in ValidIds, SendHeader(m, id)
    PROVE  CInv'
<1> USE BusAssumption
<1>1. Len(sent) \in Nat /\ Len(sent) < MaxHeaders /\ DOMAIN sent = 1..Len(sent)
      /\ DOMAIN chans = DOMAIN subs /\ DOMAIN made = DOMAIN chans
      /\ DOMAIN subs = 1..Len(subs) /\ Len(subs) \in Nat
  <2>1. Len(subs) = Len(chans)
    BY DEF SendHeader, TypeOK, SubsType
  <2> QED BY <2>1, Domains DEF SendHeader
<1>2. PICK f \in Frames : /\ ContinueFrom(m, f, 1) /\ sent' = Append(sent, f)
                          /\ f.stamp = Len(sent) + 1
  <2> DEFINE f == [id |-> id, data |-> responses[id].data, ct |-> responses[id].ct,
                   by |-> m, stamp |-> Len(sent) + 1]
  <2>1. f \in Frames
    BY <1>1 DEF TypeOK, SendHeader, BusType, Responses, Frames
  <2>2. ContinueFrom(m, f, 1) /\ sent' = Append(sent, f) /\ f.stamp = Len(sent) + 1
    BY DEF SendHeader
  <2> HIDE DEF f
  <2> QED BY <2>1, <2>2
<1>3. UNCHANGED <<subs, closed, chans, got, made>> /\ ~closed /\ ~Holding(m)
  BY DEF SendHeader, bus
<1>4. PICK n \in Nat : n = Len(sent) + 1
  BY <1>1
<1>5. /\ Len(sent') = n /\ sent'[n] = f
      /\ \A i \in 1..Len(sent) : sent'[i] = sent[i]
  BY <1>2, <1>4, AppendProperties DEF TypeOK, HistoryType
<1>6. metrics'.deliver = metrics.deliver /\ metrics'.drop = metrics.drop
  BY DEF SendHeader, TypeOK, Counters
<1> DEFINE W == From(1, f)
<1>7. /\ Uncounted(m)' = W
      /\ \A p \in Masters \ {m} : Uncounted(p)' = Uncounted(p)
      /\ m \notin Owing' /\ \A p \in Masters \ {m} : p \in Owing' <=> p \in Owing
      /\ Holding(m)' => call'[m].at = "offer"
      /\ \A p \in Masters \ {m} : call'[p] = call[p]
  BY <1>2, <1>3, ContinueCounts
<1>8. \A k \in DOMAIN chans :
          Matching(k)' = Matching(k) \cup (IF k \in W THEN {n} ELSE {})
  <2> SUFFICES ASSUME NEW k \in DOMAIN chans
               PROVE  Matching(k)' = Matching(k) \cup (IF k \in W THEN {n} ELSE {})
    OBVIOUS
  <2>1. made[k].since \in Nat /\ made[k].since <= Len(sent)
    BY Domains DEF Made, DInv, SubsAsMade
  <2>2. k \in W <=> MatchesAny(made[k].filters, f)
    BY <1>1 DEF From, DInv, SubsAsMade
  <2>3. \A i : i \in made[k].since + 1..n <=> i \in made[k].since + 1..Len(sent) \/ i = n
    BY <1>1, <1>4, <2>1
  <2>4. \A i \in made[k].since + 1..Len(sent) : i # n /\ i \in 1..Len(sent)
    BY <1>1, <1>4, <2>1
  <2> QED BY <1>3, <1>5, <2>2, <2>3, <2>4 DEF Matching
<1>9. Due' = Due \cup (W \X {n})
  <2>1. W \subseteq DOMAIN chans
    BY <1>1 DEF From
  <2> HIDE DEF W
  <2> QED BY <1>3, <1>8, <2>1 DEF Due
<1>10. Pending' = Pending \cup ({m} \X W)
  <2>1. Uncounted(m) = {}
    BY <1>3 DEF Uncounted
  <2> HIDE DEF W
  <2> QED BY <1>7, <2>1 DEF Pending
<1>11. Due \cap (W \X {n}) = {} /\ Pending \cap ({m} \X W) = {}
  <2>1. \A k \in DOMAIN chans : n \notin Matching(k)
    BY <1>1, <1>4, Domains DEF Matching, Made
  <2>2. Uncounted(m) = {}
    BY <1>3 DEF Uncounted
  <2> HIDE DEF W
  <2> QED BY <2>1, <2>2 DEF Due, Pending
<1>12. IsFiniteSet(W)
  <2>1. IsFiniteSet(1..Len(subs)) /\ W \subseteq 1..Len(subs)
    BY <1>1, FS_Interval DEF From
  <2> HIDE DEF W
  <2> QED BY <2>1, FS_Subset
<1> HIDE DEF W
<1>13. /\ IsFiniteSet(W \X {n}) /\ Cardinality(W \X {n}) = Cardinality(W)
       /\ IsFiniteSet({m} \X W) /\ Cardinality({m} \X W) = Cardinality(W)
       /\ Cardinality(W) \in Nat
  <2>1. IsFiniteSet({n}) /\ IsFiniteSet({m}) /\ Cardinality({n}) = 1 /\ Cardinality({m}) = 1
    BY FS_Singleton
  <2>2. Cardinality(W) \in Nat
    BY <1>12, FS_CardinalityType
  <2>3. IsFiniteSet(W \X {n}) /\ Cardinality(W \X {n}) = Cardinality(W) * 1
    BY <1>12, <2>1, FS_Product
  <2>4. IsFiniteSet({m} \X W) /\ Cardinality({m} \X W) = 1 * Cardinality(W)
    BY <1>12, <2>1, FS_Product
  <2> QED BY <2>2, <2>3, <2>4
<1>14. /\ IsFiniteSet(Due') /\ Cardinality(Due') = Cardinality(Due) + Cardinality(W)
       /\ IsFiniteSet(Pending') /\ Cardinality(Pending') = Cardinality(Pending) + Cardinality(W)
       /\ Cardinality(Due) \in Nat /\ Cardinality(Pending) \in Nat
  <2>1. IsFiniteSet(Due) /\ IsFiniteSet(Pending)
    BY DEF CInv, FinitePairs
  <2>2. Cardinality(Due) \in Nat /\ Cardinality(Pending) \in Nat
    BY <2>1, FS_CardinalityType
  <2>3. IsFiniteSet(Due') /\ Cardinality(Due') = Cardinality(Due) + Cardinality(W) - 0
    BY <1>9, <1>11, <1>13, <2>1, FS_Union, FS_EmptySet
  <2>4. IsFiniteSet(Pending') /\ Cardinality(Pending') = Cardinality(Pending) + Cardinality(W) - 0
    BY <1>10, <1>11, <1>13, <2>1, FS_Union, FS_EmptySet
  <2> QED BY <1>13, <2>2, <2>3, <2>4
<1>15. Owing' = Owing
  BY <1>3, <1>7 DEF Owing
<1>16. Arrivals' = Arrivals
  BY <1>3, ArrivalsIfSame DEF Arrived
<1>17. ClosedAnswer'
  BY <1>3, <1>7 DEF CInv, ClosedAnswer, Holding
<1>18. ASSUME Exact PROVE Exact'
  <2> DEFINE x == metrics.deliver
             y == metrics.drop
             d == Cardinality(Due)
             p == Cardinality(Pending)
             w == Cardinality(W)
  <2>1. x \in Nat /\ y \in Nat
    BY DEF TypeOK, Counters
  <2>2. x + y + p <= d /\ (x + y + p = d \/ \E k \in SelfClosers \cap DOMAIN chans : chans[k].closed)
    BY <1>18 DEF Exact
  <2>3. d \in Nat /\ p \in Nat /\ w \in Nat
    BY <1>13, <1>14
  <2> HIDE DEF x, y, d, p, w
  <2>4. x + y + (p + w) <= d + w /\ (x + y + p = d => x + y + (p + w) = d + w)
    BY <2>1, <2>2, <2>3
  <2>5. Cardinality(Pending') = p + w /\ Cardinality(Due') = d + w
        /\ metrics'.deliver = x /\ metrics'.drop = y
    BY <1>6, <1>14 DEF x, y, p, d, w
  <2>6. x + Cardinality(Owing') = Cardinality(Arrivals')
    BY <1>15, <1>16, <1>18 DEF Exact, x
  <2> QED BY <1>3, <2>2, <2>4, <2>5, <2>6 DEF Exact
<1>19. FinitePairs'
  BY <1>14, <1>16 DEF CInv, FinitePairs
<1>20. Lossless' => Lossless
  BY <1>3 DEF Lossless
<1> QED BY <1>17, <1>18, <1>19, <1>20 DEF CInv

(* A frame that is delivered is one that its master owes; an eviction      *)
(* leaves as many as there were.                                           *)
LEMMA CInvOnOffer ==
    ASSUME TypeOK, BroadcastOnStableBus, KInv, CInv, NEW m \in Masters, Offer(m)
    PROVE  CInv'
<1>1. PICK k \in DOMAIN chans, f \in Frames :
          /\ k = call[m].cursor /\ f = call[m].frame
          /\ k \in DOMAIN subs /\ subs[k].ch = k /\ k \in Nat
          /\ DOMAIN subs = DOMAIN chans /\ DOMAIN made = DOMAIN chans
  <2>1. /\ call[m].frame \in Frames /\ call[m].cursor \in DOMAIN chans
        /\ call[m].cursor \in DOMAIN subs /\ subs[call[m].cursor].ch = call[m].cursor
        /\ call[m].cursor \in Nat /\ DOMAIN subs = DOMAIN chans
    BY CursorInRange DEF Offer
  <2>2. DOMAIN made = DOMAIN chans
    BY Domains
  <2> QED BY <2>1, <2>2
<1>2. PICK r \in Answers :
        /\ \/ subs[k].policy = "DropNewest" /\ TrySend(k, f, r)
           \/ subs[k].policy = "DropOldest" /\ SendDropOldest(k, f, r)
           \/ subs[k].policy = "Block" /\ BlockingSend(k, f, r)
        /\ call' = [call EXCEPT ![m] = [at |-> "account", frame |-> f, cursor |-> @.cursor,
                                        answer |-> r]]
  BY <1>1 DEF Offer
<1>3. UNCHANGED <<subs, closed, got, sent, made, metrics>> /\ Holding(m) /\ ~closed
  BY DEF Offer, bus, BroadcastOnStableBus
<1>4. /\ \A n \in Masters : n # m => call'[n] = call[n]
      /\ call'[m] = [at |-> "account", frame |-> f, cursor |-> k, answer |-> r]
  BY <1>1, <1>2 DEF TypeOK
<1>5. /\ Holding(m)' /\ call'[m].frame = f /\ call'[m].cursor = k
      /\ call[m].at = "offer" /\ call'[m].at = "account" /\ call'[m].answer = r
  BY <1>4 DEF Offer, Holding, NoCall
<1>6. chans[k] \in Channels /\ got[k] \in Seq(Frames) /\ chans[k].items \in Seq(Frames)
  BY Domains
<1>7. /\ DOMAIN chans' = DOMAIN chans
      /\ \A j \in DOMAIN chans : /\ chans'[j].closed = chans[j].closed
                                 /\ j # k => chans'[j] = chans[j]
  BY <1>2, <1>6 DEF TrySend, SendDropOldest, BlockingSend, Push, Evict, Channels
<1>8. Pending' = Pending /\ Due' = Due
  <2>1. \A n \in Masters : Uncounted(n)' = Uncounted(n)
    BY <1>1, <1>3, <1>4, <1>5 DEF Uncounted, Holding
  <2> QED BY <1>3, <1>7, <2>1, PendingIfSame, DueIfSame
<1>9. ClosedAnswer'
  <2>1. ASSUME NEW n \in Masters, Holding(n)', call'[n].at = "account",
               call'[n].answer = "Closed"
        PROVE  call'[n].cursor \in SelfClosers /\ chans'[call'[n].cursor].closed
    <3>1. CASE n = m
      <4>1. chans[k].closed
        BY <1>2, <1>5, <2>1, <3>1 DEF TrySend, SendDropOldest, BlockingSend
      <4> QED BY <1>3, <1>5, <1>7, <3>1, <4>1 DEF KInv, OwnClose
    <3>2. CASE n # m
      <4>1. Holding(n) /\ call'[n] = call[n]
        BY <1>4, <2>1, <3>2 DEF Holding
      <4>2. call[n].cursor \in DOMAIN chans
        BY <4>1, CursorInRange
      <4> QED BY <1>7, <2>1, <4>1, <4>2 DEF CInv, ClosedAnswer
    <3> QED BY <3>1, <3>2
  <2> QED BY <2>1 DEF ClosedAnswer
<1>10. IsFiniteSet(Arrivals) /\ IsFiniteSet(Due) /\ IsFiniteSet(Pending)
       /\ Cardinality(Arrivals) \in Nat
  BY FS_CardinalityType DEF CInv, FinitePairs
<1>11. \A n \in Masters \ {m} : n \in Owing' <=> n \in Owing
  BY <1>4 DEF Owing, Holding
<1>12. m \notin Owing /\ (m \in Owing' <=> r = "Ok")
  BY <1>5 DEF Owing
<1>13. Lossless' <=> Lossless
  BY <1>3 DEF Lossless
<1>14. ASSUME Arrivals' = Arrivals, Lossless => r # "Ok" PROVE CInv'
  <2>1. FinitePairs'
    BY <1>8, <1>10, <1>14 DEF FinitePairs
  <2>2. ASSUME Lossless PROVE Exact'
    <3>1. \A n \in Masters : n \in Owing' <=> n \in Owing
      BY <1>11, <1>12, <1>14, <2>2
    <3>2. Owing' = Owing
      <4>1. Owing' \subseteq Masters /\ Owing \subseteq Masters
        BY DEF Owing
      <4> QED BY <3>1, <4>1
    <3> QED BY <1>3, <1>7, <1>8, <1>14, <2>2, <3>2 DEF CInv, Exact
  <2> QED BY <1>9, <1>13, <2>1, <2>2 DEF CInv
<1>15. CASE UNCHANGED chans
  <2>1. Arrivals' = Arrivals
    BY <1>3, <1>15, ArrivalsIfSame DEF Arrived
  <2>2. ASSUME Lossless, r = "Ok" PROVE FALSE
    <3>1. CASE ~chans[k].closed
      <4>1. Push(k, f)
        BY <1>2, <2>2, <3>1 DEF TrySend, SendDropOldest, BlockingSend
      <4>2. chans'[k].items = Append(chans[k].items, f)
        BY <1>6, <4>1 DEF Push, Channels
      <4> DEFINE t == chans[k].items
      <4>3. t \in Seq(Frames) /\ Append(t, f) = t
        BY <1>6, <1>15, <4>2
      <4> HIDE DEF t
      <4>4. Len(t) \in Nat
        BY <4>3, LenProperties
      <4>5. Len(Append(t, f)) = Len(t) + 1
        BY <4>3, AppendProperties
      <4> QED BY <4>3, <4>4, <4>5
    <3>2. CASE chans[k].closed
      <4>1. subs[k].policy = "Block" /\ k \in SelfClosers
        BY <1>1, <1>2, <1>3, <2>2, <3>2 DEF TrySend, SendDropOldest, KInv, OwnClose
      <4> QED BY <1>1, <2>2, <4>1 DEF Lossless, KInv, PolicyAsMade
    <3> QED BY <3>1, <3>2
  <2> QED BY <1>14, <2>1, <2>2
<1>16. CASE ~chans[k].closed /\ ~HasRoom(k) /\ Evict(k, f) /\ r = "Evicted"
  <2>1. chans'[k].items = Append(Tail(chans[k].items), f)
    BY <1>6, <1>16 DEF Evict, Channels
  <2>2. chans[k].items # << >>
    BY <1>6, <1>16, EmptySeq DEF HasRoom, Channels
  <2>3. DOMAIN Arrived(k)' = DOMAIN Arrived(k)
    <3> DEFINE s == got[k]
               t == chans[k].items
    <3>1. s \in Seq(Frames) /\ t \in Seq(Frames) /\ t # << >> /\ Arrived(k) = s \o t
          /\ Arrived(k)' = s \o Append(Tail(t), f)
      BY <1>3, <1>6, <2>1, <2>2 DEF Arrived
    <3> HIDE DEF s, t
    <3>2. /\ DOMAIN (s \o Append(Tail(t), f)) = 1..Len(s \o t)
          /\ DOMAIN (s \o t) = 1..Len(s \o t)
      BY <3>1, EvictShifts
    <3> QED BY <3>1, <3>2
  <2>4. \A j \in DOMAIN chans : j # k => Arrived(j)' = Arrived(j)
    BY <1>3, <1>7 DEF Arrived
  <2>5. Arrivals' = Arrivals
    BY <1>7, <2>3, <2>4, ArrivalsIfSame
  <2> QED BY <1>14, <1>16, <2>5
<1>17. CASE ~chans[k].closed /\ Push(k, f) /\ r = "Ok"
  <2>1. chans'[k].items = Append(chans[k].items, f)
    BY <1>6, <1>17 DEF Push, Channels
  <2>2. PICK n \in Nat : DOMAIN Arrived(k) = 1..n - 1 /\ DOMAIN Arrived(k)' = 1..n /\ n # 0
    <3> DEFINE s == got[k]
               t == chans[k].items
               u == Arrived(k)
               v == Arrived(k)'
    <3>1. s \in Seq(Frames) /\ t \in Seq(Frames) /\ u = s \o t
          /\ v = s \o Append(t, f)
      BY <1>3, <1>6, <2>1 DEF Arrived
    <3> HIDE DEF s, t, u, v
    <3>2. v = Append(u, f) /\ u \in Seq(Frames)
      BY <3>1, PushAtEnd, ConcatProperties
    <3>3. /\ v \in Seq(Frames) /\ Len(v) = Len(u) + 1 /\ Len(u) \in Nat
          /\ DOMAIN u = 1..Len(u) /\ DOMAIN v = 1..Len(v)
      BY <3>2, AppendProperties, LenProperties
    <3>4. PICK n \in Nat : n = Len(u) + 1
      BY <3>3
    <3>5. DOMAIN u = 1..n - 1 /\ DOMAIN v = 1..n /\ n # 0
      BY <3>3, <3>4
    <3> QED BY <3>5 DEF u, v
  <2>3. \A j \in DOMAIN chans : j # k => Arrived(j)' = Arrived(j)
    BY <1>3, <1>7 DEF Arrived
  <2>4. \A i : i \in 1..n <=> i \in 1..n - 1 \/ i = n
    BY <2>2
  <2>5. Arrivals' = Arrivals \cup {<<k, n>>}
    <3>1. \A j \in DOMAIN chans : \A i : i \in DOMAIN Arrived(j)' <=>
              i \in DOMAIN Arrived(j) \/ (j = k /\ i = n)
      BY <2>2, <2>3, <2>4
    <3>2. \A p : p \in Arrivals <=>
              \E j \in DOMAIN chans : \E i \in DOMAIN Arrived(j) : p = <<j, i>>
      BY DEF Arrivals
    <3>3. \A p : p \in Arrivals' <=>
              \E j \in DOMAIN chans : \E i \in DOMAIN Arrived(j)' : p = <<j, i>>
      BY <1>7 DEF Arrivals
    <3>4. \A p : p \in Arrivals' <=> p \in Arrivals \/ p = <<k, n>>
      BY <3>1, <3>2, <3>3
    <3> QED BY <3>4
  <2>6. <<k, n>> \notin Arrivals
    <3>1. n \notin DOMAIN Arrived(k)
      BY <2>2
    <3> QED BY <3>1, PairsAre
  <2>7. IsFiniteSet(Arrivals') /\ Cardinality(Arrivals') = Cardinality(Arrivals) + 1
    BY <1>10, <2>5, <2>6, FS_AddElement
  <2>8. Cardinality(Owing') = Cardinality(Owing) + 1
    <3>1. Owing' = Owing \cup {m}
      <4>1. Owing' \subseteq Masters /\ Owing \subseteq Masters
        BY DEF Owing
      <4> QED BY <1>11, <1>12, <1>17, <4>1
    <3> QED BY <1>12, <3>1, OwingIsFinite, FS_AddElement
  <2>9. Exact => Exact'
    <3>1. metrics.deliver \in Nat /\ Cardinality(Owing) \in Nat
      BY OwingIsFinite DEF TypeOK, Counters
    <3> QED BY <1>3, <1>7, <1>8, <1>10, <2>7, <2>8, <3>1 DEF Exact
  <2>10. FinitePairs'
    BY <1>8, <1>10, <2>7 DEF FinitePairs
  <2> QED BY <1>9, <1>13, <2>9, <2>10 DEF CInv
<1> QED BY <1>2, <1>15, <1>16, <1>17 DEF TrySend, SendDropOldest, BlockingSend

(* What is counted leaves the offers to count. *)
LEMMA CInvOnAccount ==
    ASSUME TypeOK, BroadcastOnStableBus, CInv, NEW m \in Masters, Account(m)
    PROVE  CInv'
<1>1. PICK c \in DOMAIN subs, f \in Frames, a \in Answers :
          /\ c = call[m].cursor /\ f = call[m].frame /\ a = call[m].answer
          /\ Holding(m) /\ call[m].at = "account"
  <2>1. Holding(m) /\ call[m].at = "account" /\ call[m] \in Calls
    BY DEF Account, TypeOK
  <2>2. call[m].answer \in Answers
    BY <2>1 DEF Calls, Holding
  <2> QED BY <2>1, <2>2, CursorInRange
<1>2. /\ DOMAIN subs = 1..Len(subs) /\ Len(subs) \in Nat /\ c \in 1..Len(subs)
      /\ MatchesAny(subs[c].filters, f) /\ DOMAIN subs = DOMAIN chans
  <2>1. DOMAIN subs = DOMAIN chans
    BY <1>1, CursorInRange
  <2>2. MatchesAny(subs[c].filters, f)
    BY <1>1 DEF BroadcastOnStableBus
  <2> QED BY <2>1, <2>2, LenProperties DEF TypeOK, SubsType
<1>3. PICK e \in Nat : e = c + 1
  BY <1>2
<1>4. ContinueFrom(m, f, e) /\ UNCHANGED <<subs, chans, got, sent, made>>
  BY <1>1, <1>3 DEF Account, bus
<1>5. /\ Uncounted(m)' = From(e, f)
      /\ \A n \in Masters \ {m} : Uncounted(n)' = Uncounted(n)
      /\ m \notin Owing' /\ \A n \in Masters \ {m} : n \in Owing' <=> n \in Owing
      /\ Holding(m)' => call'[m].at = "offer"
      /\ \A n \in Masters \ {m} : call'[n] = call[n]
  BY <1>4, ContinueCounts
<1>6. Uncounted(m) = From(e, f) \cup {c} /\ c \notin From(e, f)
  <2>1. \A i : i \in c..Len(subs) <=> i \in e..Len(subs) \/ i = c
    BY <1>2, <1>3
  <2>2. c \notin e..Len(subs)
    BY <1>2, <1>3
  <2>3. Uncounted(m) = {i \in c..Len(subs) : MatchesAny(subs[i].filters, f)}
    BY <1>1 DEF Uncounted
  <2> QED BY <1>2, <2>1, <2>2, <2>3 DEF From
<1>7. Pending' = Pending \ {<<m, c>>} /\ <<m, c>> \in Pending
  <2>1. \A n \in Masters : Uncounted(n)' = Uncounted(n) \ (IF n = m THEN {c} ELSE {})
    BY <1>5, <1>6
  <2>2. <<m, c>> \in Pending
    BY <1>6, PairsAre
  <2> QED BY <2>1, <2>2 DEF Pending
<1>8. /\ IsFiniteSet(Pending') /\ Cardinality(Pending) \in Nat
      /\ Cardinality(Pending') = Cardinality(Pending) - 1
  BY <1>7, FS_RemoveElement, FS_CardinalityType DEF CInv, FinitePairs
<1>9. Arrivals' = Arrivals /\ Due' = Due
  BY <1>4, ArrivalsIfSame, DueIfSame DEF Arrived
<1>10. m \in Owing <=> a = "Ok"
  BY <1>1 DEF Owing
<1>11. Cardinality(Owing') = IF a = "Ok" THEN Cardinality(Owing) - 1 ELSE Cardinality(Owing)
  <2>1. Owing' = Owing \ {m}
    <3>1. Owing' \subseteq Masters /\ Owing \subseteq Masters
      BY DEF Owing
    <3> QED BY <1>5, <3>1
  <2> QED BY <1>10, <2>1, OwingIsFinite, FS_RemoveElement
<1>12. /\ metrics.deliver \in Nat /\ metrics.drop \in Nat
       /\ metrics'.deliver = IF a = "Ok" THEN metrics.deliver + 1 ELSE metrics.deliver
       /\ metrics'.drop = IF a \in {"Full", "Evicted"} THEN metrics.drop + 1 ELSE metrics.drop
  BY <1>1 DEF Account, TypeOK, Counters
<1>13. FinitePairs'
  BY <1>8, <1>9 DEF CInv, FinitePairs
<1>14. ClosedAnswer'
  BY <1>4, <1>5 DEF CInv, ClosedAnswer, Holding
<1>15. ASSUME a = "Closed"
       PROVE  \E k \in SelfClosers \cap DOMAIN chans : chans[k].closed
  BY <1>1, <1>2, <1>15 DEF CInv, ClosedAnswer
<1>16. ASSUME Exact PROVE Exact'
  <2> DEFINE x == metrics.deliver
             y == metrics.drop
             d == Cardinality(Due)
             p == Cardinality(Pending)
             o == Cardinality(Owing)
             r == Cardinality(Arrivals)
             C == \E k \in SelfClosers \cap DOMAIN chans : chans[k].closed
  <2>1. x + o = r /\ x + y + p <= d /\ (x + y + p = d \/ C)
    BY <1>16 DEF Exact
  <2>2. x \in Nat /\ y \in Nat /\ p \in Nat /\ o \in Nat /\ d \in Nat
    BY <1>8, <1>12, OwingIsFinite, FS_CardinalityType DEF CInv, FinitePairs
  <2>3. /\ metrics'.deliver = (IF a = "Ok" THEN x + 1 ELSE x)
        /\ metrics'.drop = (IF a \in {"Full", "Evicted"} THEN y + 1 ELSE y)
        /\ Cardinality(Owing') = (IF a = "Ok" THEN o - 1 ELSE o)
        /\ Cardinality(Pending') = p - 1 /\ Cardinality(Arrivals') = r /\ Cardinality(Due') = d
        /\ C' <=> C
    BY <1>4, <1>8, <1>9, <1>11, <1>12
  <2>4. a = "Closed" => C
    BY <1>15
  <2>5. a = "Ok" \/ a \in {"Full", "Evicted"} \/ a = "Closed"
    BY DEF Answers
  <2>6. /\ metrics'.deliver + Cardinality(Owing') = Cardinality(Arrivals')
        /\ metrics'.deliver + metrics'.drop + Cardinality(Pending') <= Cardinality(Due')
        /\ \/ metrics'.deliver + metrics'.drop + Cardinality(Pending') = Cardinality(Due')
           \/ C'
    <3> HIDE DEF x, y, d, p, o, r, C
    <3>1. CASE a = "Ok"
      BY <2>1, <2>2, <2>3, <3>1
    <3>2. CASE a \in {"Full", "Evicted"}
      BY <2>1, <2>2, <2>3, <3>2
    <3>3. CASE a = "Closed"
      BY <2>1, <2>2, <2>3, <2>4, <3>3
    <3> QED BY <2>5, <3>1, <3>2, <3>3
  <2> QED BY <2>6 DEF Exact
<1>17. Lossless' => Lossless
  BY <1>4 DEF Lossless
<1> QED BY <1>13, <1>14, <1>16, <1>17 DEF CInv

(* The invariant holds at the start. *)
LEMMA InitCInv == Init => CInv
<1> SUFFICES ASSUME Init PROVE CInv
  OBVIOUS
<1>1. DOMAIN << >> = {}
  OBVIOUS
<1>2. Arrivals = {} /\ Due = {}
  BY <1>1 DEF Init, Arrivals, Due
<1>3. \A m \in Masters : ~Holding(m)
  BY DEF Init, Holding
<1>4. Pending = {} /\ Owing = {}
  BY <1>3, PendingIfFree DEF Owing
<1>5. FinitePairs
  BY <1>2, <1>4, FS_EmptySet DEF FinitePairs
<1>6. ClosedAnswer
  BY <1>3 DEF ClosedAnswer
<1>7. Exact
  <2>1. metrics.deliver = 0 /\ metrics.drop = 0
    BY DEF Init
  <2>2. Cardinality({}) = 0
    BY FS_EmptySet
  <2> QED BY <1>2, <1>4, <2>1, <2>2 DEF Exact
<1> QED BY <1>5, <1>6, <1>7 DEF CInv

(* Every step keeps it. *)
LEMMA NextCInv == IInv /\ DInv /\ KInv /\ CInv /\ [Next]_vars => CInv'
<1> SUFFICES ASSUME TypeOK, BroadcastOnStableBus, DInv, KInv, CInv, [Next]_vars PROVE CInv'
  BY DEF IInv
<1>1. \A m \in Masters : Holding(m) => call[m].cursor \in DOMAIN chans
  BY CursorInRange
<1>2. ASSUME UNCHANGED <<subs, chans, call, got, sent, made>>,
             metrics'.deliver = metrics.deliver, metrics'.drop = metrics.drop
      PROVE  CInv'
  <2>1. Arrivals' = Arrivals /\ Due' = Due /\ Pending' = Pending
    BY <1>2, ArrivalsIfSame, DueIfSame, PendingIfSame DEF Arrived, Uncounted, Holding
  <2> QED BY <1>1, <1>2, <2>1, CInvIfQuiet
<1>3. ASSUME Exclusive, CloseBus, UNCHANGED <<call, got, sent, made, metrics>> PROVE CInv'
  <2>1. /\ DOMAIN chans' = DOMAIN chans
        /\ \A k \in DOMAIN chans : /\ chans'[k].items = chans[k].items
                                   /\ chans[k].closed => chans'[k].closed
    BY <1>3, CloseBusKeepsChannels
  <2>2. Arrivals' = Arrivals /\ Due' = Due
    BY <1>3, <2>1, ArrivalsIfSame, DueIfSame DEF Arrived
  <2>3. Pending' = Pending
    BY <1>3, PendingIfSame DEF Exclusive, Uncounted, Holding
  <2> QED BY <1>1, <1>3, <2>1, <2>2, <2>3, CInvIfQuiet
<1>4. ASSUME CountError PROVE CInv'
  <2>1. metrics'.deliver = metrics.deliver /\ metrics'.drop = metrics.drop
    BY <1>4 DEF CountError, TypeOK, Counters
  <2> QED BY <1>2, <1>4, <2>1 DEF CountError, bus
<1>5. CASE Client
  <2>1. CASE \E o \in Options : Subscribe(o)
    BY <2>1, CInvOnSubscribe
  <2>2. CASE Close
    BY <1>3, <2>2 DEF Close
  <2>3. CASE CountError
    BY <1>4, <2>3
  <2>4. CASE UNCHANGED <<subs, chans, call, got, sent, made, metrics>>
    BY <1>2, <2>4
  <2> QED BY <1>5, <2>1, <2>2, <2>3, <2>4
      DEF Client, Publish, PublishClassic, DoPublish, Unpublish, RefuseId, RefuseClosed,
          SetSchedule, bus
<1>6. CASE \E m \in Masters : Master(m)
  <2> SUFFICES ASSUME NEW m \in Masters, Master(m) PROVE CInv'
    BY <1>6
  <2>1. CASE \E id \in ValidIds : SendHeader(m, id)
    BY <2>1, CInvOnSendHeader
  <2>2. CASE CountError
    BY <1>4, <2>2
  <2>3. CASE Offer(m)
    BY <2>3, CInvOnOffer
  <2>4. CASE Account(m)
    BY <2>4, CInvOnAccount
  <2> QED BY <2>1, <2>2, <2>3, <2>4 DEF Master, RefuseHeader
<1>7. CASE \E d \in Drainers : Drainer(d)
  <2> SUFFICES ASSUME NEW d \in Drainers, Drainer(d) PROVE CInv'
    BY <1>7
  <2>1. CASE DrainClose(d)
    BY <1>3, <2>1 DEF DrainClose
  <2>2. CASE UNCHANGED <<subs, chans, call, got, sent, made, metrics>>
    BY <1>2, <2>2
  <2> QED BY <2>1, <2>2 DEF Drainer, CloseWithDrain, Deadline, DrainPoll, DrainScan, bus
<1>8. CASE \E k \in DOMAIN chans : Reader(k)
  <2> SUFFICES ASSUME NEW k \in DOMAIN chans, Reader(k) PROVE CInv'
    BY <1>8
  <2>1. chans[k] \in Channels
    BY Domains
  <2>2. ASSUME UNCHANGED <<subs, call, sent, made, metrics>>, DOMAIN chans' = DOMAIN chans,
               \A j \in DOMAIN chans : /\ Arrived(j)' = Arrived(j)
                                       /\ chans[j].closed => chans'[j].closed
        PROVE  CInv'
    <3>1. Arrivals' = Arrivals /\ Due' = Due /\ Pending' = Pending
      BY <2>2, ArrivalsIfSame, DueIfSame, PendingIfSame DEF Uncounted, Holding
    <3> QED BY <1>1, <2>2, <3>1, CInvIfQuiet
  <2>3. CASE Recv(k)
    <3>1. \A j \in DOMAIN chans : chans'[j].closed = chans[j].closed
      BY <2>1, <2>3 DEF Recv, Channels
    <3> QED BY <2>2, <2>3, <3>1, ArrivedOnRecv DEF Recv, bus
  <2>4. CASE RecvEnd(k)
    BY <1>2, <2>4 DEF RecvEnd, bus
  <2>5. CASE SelfClose(k)
    <3>1. /\ DOMAIN chans' = DOMAIN chans
          /\ \A j \in DOMAIN chans : /\ chans'[j].items = chans[j].items
                                     /\ chans[j].closed => chans'[j].closed
      BY <2>1, <2>5 DEF SelfClose, Channels
    <3>2. \A j \in DOMAIN chans : Arrived(j)' = Arrived(j)
      BY <2>5, <3>1 DEF SelfClose, Arrived
    <3> QED BY <2>2, <2>5, <3>1, <3>2 DEF SelfClose, bus
  <2> QED BY <2>3, <2>4, <2>5 DEF Reader
<1>9. CASE UNCHANGED vars
  BY <1>2, <1>9 DEF vars, bus
<1> QED BY <1>5, <1>6, <1>7, <1>8, <1>9 DEF Next

(* The counters agree with what the subscribers have received: no delivery *)
(* and no drop is counted twice or forgotten, for any number of masters,   *)
(* subscribers and headers, as long as no subscriber with the Block policy *)
(* closes its own channel.                                                 *)
THEOREM CountersAreExact == Spec => []CountersExact
<1>1. Spec => []CInv
  BY BusIInv, BusDInv, BusKInv, InitCInv, NextCInv, PTL DEF Spec
<1>2. CInv => CountersExact
  BY DEF CInv, CountersExact, Lossless, Exact
<1> QED BY <1>1, <1>2, PTL


-----------------------------------------------------------------------------
(* close_with_drain                                                        *)

(* No settled header can still be delivered. *)
Settled ==
    \A d \in Drainers : drain[d].at \in {"scan", "close"} =>
        /\ drain[d].settled \subseteq 1..Len(sent)
        /\ \A m \in Masters : Holding(m) => call[m].frame.stamp \notin drain[d].settled

(* The check has found channel k empty. *)
Passed(d, k) == drain[d].at = "close" \/ (drain[d].at = "scan" /\ k < drain[d].cursor)

(* What the check has passed holds no settled header. *)
Clean ==
    ~closed =>
        \A d \in Drainers : \A k \in DOMAIN chans : Passed(d, k) =>
            \A i \in DOMAIN chans[k].items : chans[k].items[i].stamp \notin drain[d].settled

ZInv == Settled /\ Clean /\ \A d \in Drainers : drain[d].at = "scan" => drain[d].cursor >= 1

(* Nothing but a frame in flight gets into a queue, and nothing but a new  *)
(* header gets into flight.                                                *)
LEMMA ZInvIfNothingOld ==
    ASSUME TypeOK, ZInv, UNCHANGED drain, closed => closed',
           Len(sent') \in {Len(sent), Len(sent) + 1},
           \A m \in Masters : Holding(m)' =>
               \/ Holding(m) /\ call'[m].frame = call[m].frame
               \/ call'[m].frame.stamp = Len(sent) + 1,
           \A k \in DOMAIN chans' : \A i \in DOMAIN chans'[k].items :
               \/ /\ k \in DOMAIN chans
                  /\ \E j \in DOMAIN chans[k].items : chans'[k].items[i] = chans[k].items[j]
               \/ \E m \in Masters : Holding(m) /\ chans'[k].items[i] = call[m].frame
    PROVE  ZInv'
<1>1. Len(sent) \in Nat
  BY Domains
<1>2. ASSUME NEW d \in Drainers, drain[d].at \in {"scan", "close"}
      PROVE  /\ drain[d].settled \subseteq 1..Len(sent)
             /\ \A m \in Masters : Holding(m) => call[m].frame.stamp \notin drain[d].settled
  BY <1>2 DEF ZInv, Settled
<1>3. Settled'
  <2> SUFFICES ASSUME NEW d \in Drainers, drain[d].at \in {"scan", "close"}
               PROVE  /\ drain[d].settled \subseteq 1..Len(sent')
                      /\ \A m \in Masters : Holding(m)' =>
                            call'[m].frame.stamp \notin drain[d].settled
    BY DEF Settled
  <2>1. drain[d].settled \subseteq 1..Len(sent) /\ Len(sent) + 1 \notin drain[d].settled
    BY <1>1, <1>2
  <2>2. drain[d].settled \subseteq 1..Len(sent')
    BY <1>1, <2>1
  <2> QED BY <1>2, <2>1, <2>2
<1>4. Clean'
  <2> SUFFICES ASSUME ~closed', NEW d \in Drainers, NEW k \in DOMAIN chans', Passed(d, k),
                      NEW i \in DOMAIN chans'[k].items
               PROVE  chans'[k].items[i].stamp \notin drain[d].settled
    BY DEF Clean, Passed
  <2>1. CASE k \in DOMAIN chans /\ \E j \in DOMAIN chans[k].items :
                                       chans'[k].items[i] = chans[k].items[j]
    BY <2>1 DEF ZInv, Clean
  <2>2. CASE \E m \in Masters : Holding(m) /\ chans'[k].items[i] = call[m].frame
    BY <1>2, <2>2 DEF Passed
  <2> QED BY <2>1, <2>2
<1> QED BY <1>3, <1>4 DEF ZInv

(* A step that leaves the frames in flight alone and fills no queue. *)
LEMMA ZInvIfQuiet ==
    ASSUME TypeOK, ZInv, UNCHANGED <<drain, call, sent>>, closed => closed',
           DOMAIN chans' = DOMAIN chans,
           \A k \in DOMAIN chans : chans'[k].items = chans[k].items
    PROVE  ZInv'
<1>1. \A m \in Masters : Holding(m)' => Holding(m) /\ call'[m].frame = call[m].frame
  BY DEF Holding
<1> QED BY <1>1, ZInvIfNothingOld

(* A drainer goes on, and nobody else does. *)
LEMMA ZInvIfDrainer ==
    ASSUME ZInv, NEW d \in Drainers, UNCHANGED <<call, sent, chans, closed>>,
           \A e \in Drainers \ {d} : drain'[e] = drain[e],
           drain'[d].at \in {"scan", "close"} =>
               /\ drain'[d].settled \subseteq 1..Len(sent)
               /\ \A m \in Masters : Holding(m) =>
                      call[m].frame.stamp \notin drain'[d].settled,
           drain'[d].at = "scan" => drain'[d].cursor >= 1,
           ~closed => \A k \in DOMAIN chans : Passed(d, k)' =>
               \A i \in DOMAIN chans[k].items :
                   chans[k].items[i].stamp \notin drain'[d].settled
    PROVE  ZInv'
<1>1. \A e \in Drainers : e = d \/ drain'[e] = drain[e]
  OBVIOUS
<1>2. \A m \in Masters : Holding(m)' <=> Holding(m)
  BY DEF Holding
<1>3. Settled'
  BY <1>1, <1>2 DEF ZInv, Settled
<1>4. Clean'
  <2> SUFFICES ASSUME ~closed, NEW e \in Drainers, NEW k \in DOMAIN chans, Passed(e, k)',
                      NEW i \in DOMAIN chans[k].items
               PROVE  chans[k].items[i].stamp \notin drain'[e].settled
    BY DEF Clean
  <2>1. CASE e = d
    BY <2>1
  <2>2. CASE e # d
    <3>1. Passed(e, k)
      BY <1>1, <2>2 DEF Passed
    <3> QED BY <1>1, <2>2, <3>1 DEF ZInv, Clean
  <2> QED BY <2>1, <2>2
<1> QED BY <1>1, <1>3, <1>4 DEF ZInv

(* A check passes a channel only when that is empty, and ends only when it *)
(* has passed them all.                                                    *)
LEMMA ZInvOnDrainScan ==
    ASSUME TypeOK, ZInv, NEW d \in Drainers, DrainScan(d)
    PROVE  ZInv'
<1> USE BusAssumption
<1>1. /\ UNCHANGED <<call, sent, chans, closed>> /\ drain[d].at = "scan"
      /\ drain[d] \in Drains
  BY DEF DrainScan, bus, TypeOK
<1>2. PICK c \in Nat : c = drain[d].cursor
  BY <1>1 DEF Drains
<1>3. /\ c >= 1
      /\ drain[d].settled \subseteq 1..Len(sent)
      /\ \A m \in Masters : Holding(m) => call[m].frame.stamp \notin drain[d].settled
  BY <1>1, <1>2 DEF ZInv, Settled
<1>4. ASSUME ~closed, NEW k \in DOMAIN chans, k < c
      PROVE  \A i \in DOMAIN chans[k].items :
                 chans[k].items[i].stamp \notin drain[d].settled
  BY <1>1, <1>2, <1>4 DEF ZInv, Clean, Passed
<1>5. ~closed => DOMAIN subs = 1..Len(chans) /\ DOMAIN chans = 1..Len(chans)
                 /\ Len(chans) \in Nat
  BY Domains DEF TypeOK, SubsType
<1>6. CASE c \notin DOMAIN subs /\ DrainGoes(d, "close", 0)
  <2>1. /\ \A e \in Drainers \ {d} : drain'[e] = drain[e]
        /\ drain'[d].at = "close" /\ drain'[d].settled = drain[d].settled
    BY <1>6 DEF DrainGoes, TypeOK, Drains
  <2>2. ~closed => \A k \in DOMAIN chans : k < c
    BY <1>3, <1>5, <1>6
  <2> QED BY <1>1, <1>3, <1>4, <2>1, <2>2, ZInvIfDrainer
<1>7. CASE DrainRetries(d)
  <2>1. /\ \A e \in Drainers \ {d} : drain'[e] = drain[e]
        /\ drain'[d].at = "poll"
    BY <1>7 DEF DrainRetries, TypeOK, Drains
  <2> QED BY <1>1, <2>1, ZInvIfDrainer DEF Passed
<1>8. CASE /\ c \in DOMAIN subs /\ chans[subs[c].ch].items = << >>
           /\ DrainGoes(d, "scan", c + 1)
  <2>1. /\ \A e \in Drainers \ {d} : drain'[e] = drain[e]
        /\ drain'[d].at = "scan" /\ drain'[d].settled = drain[d].settled
        /\ drain'[d].cursor = c + 1
    BY <1>8 DEF DrainGoes, TypeOK, Drains
  <2>2. ASSUME ~closed, NEW k \in DOMAIN chans, Passed(d, k)'
        PROVE  \A i \in DOMAIN chans[k].items :
                   chans[k].items[i].stamp \notin drain[d].settled
    <3>1. k < c + 1 /\ k \in Nat
      BY <2>1, <2>2, Domains DEF Passed
    <3>2. CASE k = c
      <4>1. chans[k].items = << >>
        BY <1>8, <3>2 DEF TypeOK, SubsType
      <4> QED BY <4>1
    <3>3. CASE k # c
      BY <1>4, <2>2, <3>1, <3>3
    <3> QED BY <3>2, <3>3
  <2> QED BY <1>1, <1>3, <2>1, <2>2, ZInvIfDrainer
<1> QED BY <1>2, <1>6, <1>7, <1>8 DEF DrainScan

(* A check begins with the headers whose broadcast is over. *)
LEMMA ZInvOnDrainPoll ==
    ASSUME TypeOK, ZInv, NEW d \in Drainers, DrainPoll(d)
    PROVE  ZInv'
<1>1. UNCHANGED <<call, sent, chans, closed>> /\ drain[d] \in Drains
  BY DEF DrainPoll, bus, TypeOK
<1>2. CASE DrainGoes(d, "lastClose", 0)
  <2>1. /\ \A e \in Drainers \ {d} : drain'[e] = drain[e]
        /\ drain'[d].at = "lastClose"
    BY <1>2 DEF DrainGoes, TypeOK, Drains
  <2> QED BY <1>1, <2>1, ZInvIfDrainer DEF Passed
<1>3. CASE DrainScans(d)
  <2>1. /\ \A e \in Drainers \ {d} : drain'[e] = drain[e]
        /\ drain'[d].at = "scan" /\ drain'[d].cursor = 1
        /\ drain'[d].settled = {n \in 1..Len(sent) :
               \A m \in Masters : Holding(m) => call[m].frame.stamp # n}
    BY <1>3 DEF DrainScans, TypeOK, Drains
  <2>2. \A k \in DOMAIN chans : ~Passed(d, k)'
    BY <2>1, Domains DEF Passed
  <2>3. /\ drain'[d].settled \subseteq 1..Len(sent)
        /\ \A m \in Masters : Holding(m) => call[m].frame.stamp \notin drain'[d].settled
    BY <2>1
  <2> QED BY <1>1, <2>1, <2>2, <2>3, ZInvIfDrainer
<1> QED BY <1>2, <1>3 DEF DrainPoll

(* The steps of a drainer. *)
LEMMA ZInvOnDrainer ==
    ASSUME TypeOK, ZInv, NEW d \in Drainers, Drainer(d)
    PROVE  ZInv'
<1>1. CASE CloseWithDrain(d)
  <2>1. /\ \A e \in Drainers \ {d} : drain'[e] = drain[e]
        /\ drain'[d].at = "poll" /\ UNCHANGED <<call, sent, chans, closed>>
    BY <1>1 DEF CloseWithDrain, DrainGoes, bus, TypeOK, Drains
  <2> QED BY <2>1, ZInvIfDrainer DEF Passed
<1>2. CASE Deadline(d)
  <2>1. /\ \A e \in Drainers \ {d} : drain'[e] = drain[e]
        /\ drain'[d].at = drain[d].at /\ drain'[d].cursor = drain[d].cursor
        /\ drain'[d].settled = drain[d].settled
        /\ UNCHANGED <<call, sent, chans, closed>>
    BY <1>2 DEF Deadline, bus, TypeOK, Drains
  <2>2. \A k : Passed(d, k)' <=> Passed(d, k)
    BY <2>1 DEF Passed
  <2> QED BY <2>1, <2>2, ZInvIfDrainer DEF ZInv, Settled, Clean
<1>3. CASE DrainClose(d)
  <2>1. /\ \A e \in Drainers \ {d} : drain'[e] = drain[e]
        /\ drain'[d].at = "done" /\ UNCHANGED <<call, sent>>
    BY <1>3 DEF DrainClose, DrainReturns, TypeOK, Drains
  <2>2. closed'
    BY <1>3 DEF DrainClose, CloseBus, bus, TypeOK, BusType
  <2>3. \A e \in Drainers : e = d \/ drain'[e] = drain[e]
    BY <2>1
  <2>4. \A m \in Masters : Holding(m)' <=> Holding(m)
    BY <2>1 DEF Holding
  <2>5. Settled'
    BY <2>1, <2>3, <2>4 DEF ZInv, Settled
  <2> QED BY <2>1, <2>2, <2>3, <2>5 DEF ZInv, Clean
<1> QED BY <1>1, <1>2, <1>3, ZInvOnDrainPoll, ZInvOnDrainScan DEF Drainer

(* A queue gains a frame that is in flight. *)
LEMMA ZInvOnOffer ==
    ASSUME TypeOK, BroadcastOnStableBus, ZInv, NEW m \in Masters, Offer(m)
    PROVE  ZInv'
<1>1. PICK k \in DOMAIN chans, f \in Frames :
          k = call[m].cursor /\ f = call[m].frame /\ subs[k].ch = k
  BY CursorInRange DEF Offer
<1>2. PICK r \in Answers :
        /\ TrySend(k, f, r) \/ SendDropOldest(k, f, r) \/ BlockingSend(k, f, r)
        /\ call' = [call EXCEPT ![m] = [at |-> "account", frame |-> f, cursor |-> @.cursor,
                                        answer |-> r]]
  BY <1>1 DEF Offer
<1>3. UNCHANGED <<drain, sent, closed>> /\ Holding(m)
  BY DEF Offer, bus
<1>4. \A n \in Masters : Holding(n)' => Holding(n) /\ call'[n].frame = call[n].frame
  BY <1>1, <1>2 DEF Offer, Holding, TypeOK
<1>5. chans[k].items \in Seq(Frames)
  BY Domains
<1>6. CASE UNCHANGED chans
  BY <1>3, <1>4, <1>6, ZInvIfNothingOld
<1>7. CASE ~UNCHANGED chans
  <2>1. PICK c \in Channels :
            /\ chans' = [chans EXCEPT ![k] = c]
            /\ \/ c.items = Append(chans[k].items, f)
               \/ /\ chans[k].items # << >>
                  /\ c.items = Append(Tail(chans[k].items), f)
    BY <1>1, <1>2, <1>7, OfferChangesOne
  <2> DEFINE t == chans[k].items
  <2>2. /\ Len(t) \in Nat /\ DOMAIN t = 1..Len(t)
    BY <1>5, LenProperties
  <2>3. ASSUME NEW i \in DOMAIN c.items
        PROVE  c.items[i] = f \/ \E j \in DOMAIN t : c.items[i] = t[j]
    <3>1. CASE c.items = Append(t, f)
      <4> HIDE DEF t
      <4>1. /\ DOMAIN Append(t, f) = 1..Len(t) + 1 /\ Append(t, f)[Len(t) + 1] = f
            /\ \A j \in 1..Len(t) : Append(t, f)[j] = t[j]
        BY <1>5, AppendProperties, LenProperties DEF t
      <4>2. i \in 1..Len(t) \/ i = Len(t) + 1
        BY <2>2, <3>1, <4>1
      <4> QED BY <2>2, <3>1, <4>1, <4>2
    <3>2. CASE t # << >> /\ c.items = Append(Tail(t), f)
      <4> DEFINE w == Tail(t)
      <4>1. /\ w \in Seq(Frames) /\ Len(w) = Len(t) - 1
            /\ \A j \in 1..Len(w) : w[j] = t[j + 1]
        BY <1>5, <3>2, HeadTailProperties
      <4> HIDE DEF t, w
      <4>2. /\ DOMAIN Append(w, f) = 1..Len(w) + 1 /\ Append(w, f)[Len(w) + 1] = f
            /\ \A j \in 1..Len(w) : Append(w, f)[j] = w[j]
        BY <4>1, AppendProperties, LenProperties
      <4>3. c.items = Append(w, f)
        BY <3>2 DEF w
      <4>4. i \in 1..Len(w) \/ i = Len(w) + 1
        <5>1. i \in 1..Len(w) + 1 /\ Len(w) \in Nat
          BY <2>2, <4>1, <4>2, <4>3, LenProperties
        <5> QED BY <5>1
      <4>5. i \in 1..Len(w) => i + 1 \in DOMAIN t
        BY <2>2, <4>1
      <4> QED BY <4>1, <4>2, <4>3, <4>4, <4>5
    <3> QED BY <2>1, <3>1, <3>2
  <2>4. /\ DOMAIN chans' = DOMAIN chans /\ chans'[k] = c
        /\ \A j \in DOMAIN chans : j # k => chans'[j] = chans[j]
    BY <2>1
  <2>5. ASSUME NEW j \in DOMAIN chans', NEW i \in DOMAIN chans'[j].items
        PROVE  \/ /\ j \in DOMAIN chans
                  /\ \E x \in DOMAIN chans[j].items : chans'[j].items[i] = chans[j].items[x]
               \/ \E n \in Masters : Holding(n) /\ chans'[j].items[i] = call[n].frame
    <3>1. CASE j = k
      BY <1>1, <1>3, <2>3, <2>4, <3>1
    <3>2. CASE j # k
      BY <2>4, <3>2
    <3> QED BY <3>1, <3>2
  <2> QED BY <1>3, <1>4, <2>5, ZInvIfNothingOld
<1> QED BY <1>6, <1>7

(* A new header is not settled. *)
LEMMA ZInvOnSendHeader ==
    ASSUME TypeOK, ZInv, NEW m \in Masters, NEW id \in ValidIds, SendHeader(m, id)
    PROVE  ZInv'
<1> USE BusAssumption
<1>1. Len(sent) \in Nat /\ Len(sent) < MaxHeaders /\ DOMAIN sent = 1..Len(sent)
  BY Domains DEF SendHeader
<1>2. PICK f \in Frames : /\ ContinueFrom(m, f, 1) /\ sent' = Append(sent, f)
                          /\ f.stamp = Len(sent) + 1
  <2> DEFINE f == [id |-> id, data |-> responses[id].data, ct |-> responses[id].ct,
                   by |-> m, stamp |-> Len(sent) + 1]
  <2>1. f \in Frames
    BY <1>1 DEF TypeOK, SendHeader, BusType, Responses, Frames
  <2>2. ContinueFrom(m, f, 1) /\ sent' = Append(sent, f) /\ f.stamp = Len(sent) + 1
    BY DEF SendHeader
  <2> HIDE DEF f
  <2> QED BY <2>1, <2>2
<1>3. Len(sent') = Len(sent) + 1
  BY <1>2, AppendProperties DEF TypeOK, HistoryType
<1>4. /\ Holding(m)' => call'[m].frame = f
      /\ \A n \in Masters \ {m} : call'[n] = call[n]
  BY <1>2, ContinueOwes
<1>5. ASSUME NEW n \in Masters, Holding(n)'
      PROVE  \/ Holding(n) /\ call'[n].frame = call[n].frame
             \/ call'[n].frame.stamp = Len(sent) + 1
  BY <1>2, <1>4, <1>5 DEF Holding
<1>6. UNCHANGED <<drain, closed, chans>>
  BY DEF SendHeader, bus
<1> QED BY <1>3, <1>5, <1>6, ZInvIfNothingOld

(* The steps that touch neither the drainers nor the settled headers. *)
LEMMA ZInvOnRecv ==
    ASSUME TypeOK, ZInv, NEW k \in DOMAIN chans, Recv(k)
    PROVE  ZInv'
<1>1. /\ chans' = [chans EXCEPT ![k].items = Tail(@)] /\ chans[k].items # << >>
      /\ UNCHANGED <<drain, call, sent, closed>>
  BY DEF Recv, bus
<1> DEFINE t == chans[k].items
<1>2. t \in Seq(Frames) /\ chans[k] \in Channels
  BY Domains
<1>3. /\ DOMAIN chans' = DOMAIN chans /\ chans'[k].items = Tail(t)
      /\ \A j \in DOMAIN chans : j # k => chans'[j] = chans[j]
  BY <1>1, <1>2 DEF Channels
<1>4. /\ DOMAIN Tail(t) = 1..Len(Tail(t)) /\ Len(Tail(t)) = Len(t) - 1 /\ Len(t) \in Nat
      /\ DOMAIN t = 1..Len(t) /\ \A i \in 1..Len(Tail(t)) : Tail(t)[i] = t[i + 1]
  BY <1>1, <1>2, HeadTailProperties, LenProperties
<1>5. \A i \in DOMAIN Tail(t) : i + 1 \in DOMAIN t /\ Tail(t)[i] = t[i + 1]
  BY <1>4
<1>6. ASSUME NEW j \in DOMAIN chans', NEW i \in DOMAIN chans'[j].items
      PROVE  j \in DOMAIN chans
             /\ \E x \in DOMAIN chans[j].items : chans'[j].items[i] = chans[j].items[x]
  BY <1>3, <1>5
<1>7. \A m \in Masters : Holding(m)' => Holding(m) /\ call'[m].frame = call[m].frame
  BY <1>1 DEF Holding
<1> QED BY <1>1, <1>6, <1>7, ZInvIfNothingOld

(* A new channel is empty. *)
LEMMA ZInvOnSubscribe ==
    ASSUME TypeOK, ZInv, NEW o \in Options, Subscribe(o)
    PROVE  ZInv'
<1> USE BusAssumption
<1> DEFINE c == [items |-> << >>, depth |-> o.depth, closed |-> FALSE]
<1>1. c \in Channels /\ Len(chans) \in Nat /\ DOMAIN chans = 1..Len(chans)
  BY EmptySeq, Domains DEF Channels
<1>2. /\ DOMAIN chans' = 1..Len(chans) + 1 /\ chans'[Len(chans) + 1] = c
      /\ \A i \in 1..Len(chans) : chans'[i] = chans[i]
  BY <1>1, AppendProperties, LenProperties DEF TypeOK, Subscribe, ChannelType
<1>3. \A k \in DOMAIN chans' : k \in DOMAIN chans \/ chans'[k].items = << >>
  BY <1>1, <1>2
<1>4. UNCHANGED <<drain, call, sent, closed>>
  BY DEF Subscribe
<1>5. \A m \in Masters : Holding(m)' => Holding(m) /\ call'[m].frame = call[m].frame
  BY <1>4 DEF Holding
<1>6. ASSUME NEW k \in DOMAIN chans', NEW i \in DOMAIN chans'[k].items
      PROVE  /\ k \in DOMAIN chans
             /\ \E j \in DOMAIN chans[k].items : chans'[k].items[i] = chans[k].items[j]
  BY <1>1, <1>2, <1>3
<1> QED BY <1>4, <1>5, <1>6, ZInvIfNothingOld

(* The invariant holds at the start. *)
LEMMA InitZInv == Init => ZInv
BY DEF Init, ZInv, Settled, Clean, Passed

(* Every step keeps it. *)
LEMMA NextZInv == IInv /\ ZInv /\ [Next]_vars => ZInv'
<1> SUFFICES ASSUME TypeOK, BroadcastOnStableBus, ZInv, [Next]_vars PROVE ZInv'
  BY DEF IInv
<1>1. ASSUME UNCHANGED <<drain, chans, call, sent, closed>> PROVE ZInv'
  BY <1>1, ZInvIfQuiet
<1>2. CASE Client
  <2>1. CASE \E o \in Options : Subscribe(o)
    BY <2>1, ZInvOnSubscribe
  <2>2. CASE Close
    <3>1. UNCHANGED <<drain, call, sent>> /\ (closed => closed')
      BY <2>2 DEF Close, CloseBus, bus
    <3> QED BY <2>2, <3>1, CloseBusKeepsChannels, ZInvIfQuiet DEF Close
  <2>3. CASE UNCHANGED <<drain, chans, call, sent, closed>>
    BY <1>1, <2>3
  <2> QED BY <1>2, <2>1, <2>2, <2>3
      DEF Client, Publish, PublishClassic, DoPublish, Unpublish, RefuseId, RefuseClosed,
          CountError, SetSchedule, bus
<1>3. CASE \E m \in Masters : Master(m)
  <2> SUFFICES ASSUME NEW m \in Masters, Master(m) PROVE ZInv'
    BY <1>3
  <2>1. CASE \E id \in ValidIds : SendHeader(m, id)
    BY <2>1, ZInvOnSendHeader
  <2>2. CASE CountError
    BY <1>1, <2>2 DEF CountError, bus
  <2>3. CASE Offer(m)
    BY <2>3, ZInvOnOffer
  <2>4. CASE Account(m)
    <3>1. UNCHANGED <<drain, chans, sent, closed>>
      BY <2>4 DEF Account, bus
    <3>2. \A n \in Masters : Holding(n)' => Holding(n) /\ call'[n].frame = call[n].frame
      BY <2>4, ForwardOnAccount
    <3> QED BY <3>1, <3>2, ZInvIfNothingOld
  <2> QED BY <2>1, <2>2, <2>3, <2>4 DEF Master, RefuseHeader
<1>4. CASE \E d \in Drainers : Drainer(d)
  BY <1>4, ZInvOnDrainer
<1>5. CASE \E k \in DOMAIN chans : Reader(k)
  <2> SUFFICES ASSUME NEW k \in DOMAIN chans, Reader(k) PROVE ZInv'
    BY <1>5
  <2>1. CASE Recv(k)
    BY <2>1, ZInvOnRecv
  <2>2. CASE RecvEnd(k)
    BY <1>1, <2>2 DEF RecvEnd, bus
  <2>3. CASE SelfClose(k)
    <3>1. chans[k] \in Channels
      BY Domains
    <3>2. /\ DOMAIN chans' = DOMAIN chans
          /\ \A j \in DOMAIN chans : chans'[j].items = chans[j].items
      BY <2>3, <3>1 DEF SelfClose, Channels
    <3> QED BY <2>3, <3>2, ZInvIfQuiet DEF SelfClose, bus
  <2> QED BY <2>1, <2>2, <2>3 DEF Reader
<1>6. CASE UNCHANGED vars
  BY <1>1, <1>6 DEF vars, bus
<1> QED BY <1>2, <1>3, <1>4, <1>5, <1>6 DEF Next

(* When close_with_drain reports success and has closed the bus itself, no *)
(* frame is left unread of the headers whose broadcast was over when the   *)
(* successful check began, for any number of drainers at once.             *)
THEOREM DrainIsComplete == Spec => DrainOkMeansDrained
<1>1. Spec => []ZInv
  BY BusIInv, InitZInv, NextZInv, PTL DEF Spec
<1> DEFINE Drained ==
        \A d \in Drainers :
          drain[d].at = "close" /\ drain'[d].at = "done" /\ drain'[d].result = "ok" /\ ~closed
          => \A k \in DOMAIN chans : \A i \in DOMAIN chans[k].items :
                chans[k].items[i].stamp \notin drain[d].settled
<1>2. ZInv => Drained
  BY DEF ZInv, Clean, Passed
<1>3. Spec => [][Drained]_vars
  <2> HIDE DEF Drained
  <2> QED BY <1>1, <1>2, PTL
<1> QED BY <1>3 DEF DrainOkMeansDrained

-----------------------------------------------------------------------------
(* Refinement: every step of VirtualBus is a step of AbstractBus or        *)
(* invisible there.                                                        *)

(* Master m owes its frame to the subscriber of channel k. *)
Owes(m, k) ==
    Holding(m) /\ k \in DOMAIN subs /\ MatchesAny(subs[k].filters, call[m].frame)
    /\ ToOffer(m, k)

(* The stream that channel k is to a client. *)
Stream(k) ==
    [filters |-> made[k].filters, policy |-> made[k].policy, depth |-> chans[k].depth,
     owed |-> Owed(k), items |-> chans[k].items, open |-> ~chans[k].closed,
     read |-> got[k], ended |-> k \in ended]

LEMMA StreamsAre ==
    /\ Streams = [k \in DOMAIN chans |-> Stream(k)]
    /\ Streams' = [k \in DOMAIN chans' |-> Stream(k)']
BY DEF Streams, Stream

LEMMA OwedIs == \A k : Owed(k) = {call[m].frame : m \in {n \in Masters : Owes(n, k)}}
BY DEF Owed, Owes, ToOffer

(* The same after the step. *)
LEMMA OwedIsNext == \A k : Owed(k)' = {call'[m].frame : m \in {n \in Masters : Owes(n, k)'}}
BY DEF Owed, Owes, ToOffer

(* Where the same masters owe the same frames. *)
LEMMA OwedIfSame ==
    ASSUME NEW k,
           \A m \in Masters : Owes(m, k)' <=> Owes(m, k),
           \A m \in Masters : Owes(m, k) => call'[m].frame = call[m].frame
    PROVE  Owed(k)' = Owed(k)
BY OwedIs, OwedIsNext

(* Nobody who is not broadcasting owes anything. *)
LEMMA NobodyOwes ==
    /\ (\A m \in Masters : ~Holding(m)) => \A k : Owed(k) = {}
    /\ (\A m \in Masters : ~Holding(m)') => \A k : Owed(k)' = {}
BY OwedIs, OwedIsNext DEF Owes

(* What a step does to one field of a stream with Boolean fields. *)
LEMMA StreamCloses ==
    ASSUME NEW k, Owed(k)' = Owed(k), chans'[k].items = chans[k].items,
           chans'[k].depth = chans[k].depth, UNCHANGED <<got, ended, made>>,
           chans'[k].closed = TRUE
    PROVE  Stream(k)' = [Stream(k) EXCEPT !.open = FALSE]
<1>1. PICK fl, po, de, op, re, en, it, ow :
        /\ fl = made[k].filters /\ po = made[k].policy /\ de = chans[k].depth
        /\ op = ~chans[k].closed /\ re = got[k] /\ en = (k \in ended)
        /\ it = chans[k].items /\ ow = Owed(k)
  OBVIOUS
<1>2. PICK x, y : x = Stream(k) /\ y = Stream(k)'
  OBVIOUS
<1>3. x = [filters |-> fl, policy |-> po, depth |-> de, owed |-> ow,
           items |-> it, open |-> op, read |-> re, ended |-> en]
  BY <1>1, <1>2, Zenon DEF Stream
<1>4. y = [filters |-> fl, policy |-> po, depth |-> de, owed |-> ow,
           items |-> it, open |-> FALSE, read |-> re, ended |-> en]
  <2>1. (~chans'[k].closed) = FALSE
    OBVIOUS
  <2> QED BY <1>1, <1>2, <2>1, Zenon DEF Stream
<1>5. y = [x EXCEPT !.open = FALSE]
  <2>1. PICK b : b = FALSE
    OBVIOUS
  <2>2. y = [filters |-> fl, policy |-> po, depth |-> de, owed |-> ow,
             items |-> it, open |-> b, read |-> re, ended |-> en]
    BY <1>4, <2>1, Zenon
  <2>3. y = [x EXCEPT !.open = b]
    BY <1>3, <2>2
  <2> QED BY <2>1, <2>3, Zenon
<1> QED BY <1>2, <1>5

LEMMA StreamEnds ==
    ASSUME NEW k, Owed(k)' = Owed(k), UNCHANGED <<chans, got, made>>, k \in ended'
    PROVE  Stream(k)' = [Stream(k) EXCEPT !.ended = TRUE]
<1>1. PICK fl, po, de, op, re, en, it, ow :
        /\ fl = made[k].filters /\ po = made[k].policy /\ de = chans[k].depth
        /\ op = ~chans[k].closed /\ re = got[k] /\ en = (k \in ended)
        /\ it = chans[k].items /\ ow = Owed(k)
  OBVIOUS
<1>2. PICK x, y : x = Stream(k) /\ y = Stream(k)'
  OBVIOUS
<1>3. x = [filters |-> fl, policy |-> po, depth |-> de, owed |-> ow,
           items |-> it, open |-> op, read |-> re, ended |-> en]
  BY <1>1, <1>2, Zenon DEF Stream
<1>4. y = [filters |-> fl, policy |-> po, depth |-> de, owed |-> ow,
           items |-> it, open |-> op, read |-> re, ended |-> TRUE]
  <2>1. (k \in ended') = TRUE
    OBVIOUS
  <2> QED BY <1>1, <1>2, <2>1, Zenon DEF Stream
<1>5. y = [x EXCEPT !.ended = TRUE]
  <2>1. PICK b : b = TRUE
    OBVIOUS
  <2>2. y = [filters |-> fl, policy |-> po, depth |-> de, owed |-> ow,
             items |-> it, open |-> op, read |-> re, ended |-> b]
    BY <1>4, <2>1, Zenon
  <2>3. y = [x EXCEPT !.ended = b]
    BY <1>3, <2>2
  <2> QED BY <2>1, <2>3, Zenon
<1> QED BY <1>2, <1>5

(* The flags of a stream. *)
LEMMA StreamFlags ==
    \A k : (Stream(k).open <=> ~chans[k].closed) /\ (Stream(k).ended <=> k \in ended)
           /\ Stream(k).items = chans[k].items
BY DEF Stream

(* A step that leaves the streams alone. *)
LEMMA StreamsIfQuiet ==
    ASSUME UNCHANGED <<subs, chans, call, got, ended, made>>
    PROVE  Streams' = Streams
<1>1. \A k : Owed(k)' = Owed(k)
  BY OwedIs, OwedIsNext DEF Owes, Holding, ToOffer
<1> QED BY <1>1 DEF Streams

(* A step that changes one stream. *)
LEMMA StreamsIfOne ==
    ASSUME NEW k \in DOMAIN chans, DOMAIN chans' = DOMAIN chans,
           \A j \in DOMAIN chans \ {k} : Stream(j)' = Stream(j)
    PROVE  /\ Streams' = [Streams EXCEPT ![k] = Stream(k)']
           /\ k \in DOMAIN Streams /\ Streams[k] = Stream(k)
<1> DEFINE S == Streams
           T == Streams'
<1>1. /\ DOMAIN S = DOMAIN chans /\ DOMAIN T = DOMAIN chans
      /\ \A j \in DOMAIN chans : S[j] = Stream(j) /\ T[j] = Stream(j)'
      /\ T = [j \in DOMAIN chans |-> Stream(j)']
      /\ S = [j \in DOMAIN chans |-> Stream(j)]
  BY StreamsAre
<1>2. \A j \in DOMAIN chans : T[j] = [S EXCEPT ![k] = Stream(k)'][j]
  BY <1>1
<1> QED BY <1>1, <1>2

LEMMA AbstractInit == Init => Abstract!Init
<1> SUFFICES ASSUME Init PROVE Abstract!Init
  OBVIOUS
<1>1. Len(<< >>) = 0 /\ DOMAIN << >> = {}
  OBVIOUS
<1>2. Streams = << >>
  BY <1>1 DEF Init, Streams
<1> QED BY <1>1, <1>2 DEF Init, Abstract!Init


(* Steps of clients that do not touch the streams. *)
LEMMA PublishRefines ==
    ASSUME NEW id \in ValidIds, NEW p \in Payloads, NEW ct \in {"classic", "enhanced"},
           DoPublish(id, p, ct)
    PROVE  Abstract!Next
<1>1. PICK forced \in {"classic", "enhanced"} :
          /\ id \in DiagIds => forced = "classic"
          /\ responses' = [i \in DOMAIN responses \cup {id} |->
                              IF i = id THEN [data |-> p, ct |-> forced] ELSE responses[i]]
  BY DEF DoPublish
<1>2. Streams' = Streams /\ Len(sent)' = Len(sent) /\ ~closed /\ UNCHANGED closed
  BY StreamsIfQuiet DEF DoPublish
<1>3. Abstract!Respond(id, p, forced)
  BY <1>1, <1>2 DEF Abstract!Respond
<1> QED BY <1>3 DEF Abstract!Next

LEMMA UnpublishRefines ==
    ASSUME NEW id \in ValidIds, Unpublish(id)
    PROVE  Abstract!Next
<1>1. Streams' = Streams /\ Len(sent)' = Len(sent)
  BY StreamsIfQuiet DEF Unpublish
<1>2. Abstract!Withdraw(id)
  BY <1>1 DEF Unpublish, Abstract!Withdraw
<1> QED BY <1>2 DEF Abstract!Next

(* A new channel is a new stream. *)
LEMMA SubscribeRefines ==
    ASSUME TypeOK, NEW o \in Options, Subscribe(o)
    PROVE  Abstract!Next
<1> USE BusAssumption
<1> DEFINE c == [items |-> << >>, depth |-> o.depth, closed |-> FALSE]
           d == [filters |-> o.filters, policy |-> o.policy, since |-> Len(sent)]
           x == [filters |-> o.filters, policy |-> o.policy, depth |-> o.depth,
                 owed |-> {}, items |-> << >>, open |-> TRUE, read |-> << >>,
                 ended |-> FALSE]
<1>1. PICK n \in Nat : n = Len(chans)
  BY Domains
<1>2. /\ Len(sent) \in Nat /\ n < MaxSubs /\ DOMAIN chans = 1..n
      /\ Len(got) = n /\ Len(made) = n /\ ended \subseteq 1..n
  BY <1>1, Domains DEF TypeOK, HistoryType, Subscribe
<1>3. c \in Channels /\ d \in Made
  <2>1. c \in Channels
    BY EmptySeq DEF Channels
  <2>2. d \in Made
    BY <1>2 DEF TypeOK, HistoryType, Made, Filters
  <2> QED BY <2>1, <2>2
<1>4. /\ DOMAIN chans' = 1..n + 1 /\ chans'[n + 1] = c
      /\ \A i \in 1..n : chans'[i] = chans[i]
  BY <1>1, <1>3, AppendProperties, LenProperties DEF TypeOK, Subscribe, ChannelType
<1>5. made'[n + 1] = d /\ \A i \in 1..n : made'[i] = made[i]
  BY <1>2, <1>3, AppendProperties DEF TypeOK, Subscribe, HistoryType
<1>6. got'[n + 1] = << >> /\ \A i \in 1..n : got'[i] = got[i]
  BY <1>2, EmptySeq, AppendProperties DEF TypeOK, Subscribe, HistoryType
<1>7. /\ UNCHANGED <<responses, call, ended, sent, closed>> /\ ~closed
      /\ \A m \in Masters : ~Holding(m)
  BY DEF Subscribe, Exclusive
<1>8. \A k : Owed(k)' = {} /\ Owed(k) = {}
  BY <1>7, NobodyOwes DEF Holding
<1>9. /\ \A k \in 1..n : Stream(k)' = Stream(k)
      /\ Stream(n + 1)' = x
  <2>1. \A k \in 1..n : Stream(k)' = Stream(k)
    BY <1>4, <1>5, <1>6, <1>7, <1>8 DEF Stream
  <2>2. PICK k \in Nat : k = n + 1
    OBVIOUS
  <2>3. Stream(k)' = x
    <3>1. chans'[k] = c /\ made'[k] = d /\ got'[k] = << >> /\ Owed(k)' = {}
      BY <1>4, <1>5, <1>6, <1>8, <2>2
    <3>2. k \notin ended'
      BY <1>2, <1>7, <2>2
    <3>3. /\ made'[k].filters = o.filters /\ made'[k].policy = o.policy
          /\ chans'[k].depth = o.depth /\ chans'[k].items = << >>
          /\ (~chans'[k].closed) = TRUE /\ (k \in ended') = FALSE
      BY <3>1, <3>2
    <3> QED BY <3>1, <3>3, Zenon DEF Stream
  <2> QED BY <2>1, <2>2, <2>3
<1> DEFINE S == {Stream(k) : k \in 1..n} \cup {x}
<1> HIDE DEF c, d, x
<1>10. /\ Streams = [k \in 1..n |-> Stream(k)]
       /\ Streams' = [k \in 1..n + 1 |-> IF k = n + 1 THEN x ELSE Stream(k)]
  <2>1. Streams = [k \in 1..n |-> Stream(k)] /\ Streams' = [k \in 1..n + 1 |-> Stream(k)']
    BY <1>2, <1>4, StreamsAre
  <2>2. \A k \in 1..n + 1 : Stream(k)' = IF k = n + 1 THEN x ELSE Stream(k)
    <3>1. \A k \in 1..n + 1 : k = n + 1 \/ k \in 1..n
      OBVIOUS
    <3> QED BY <1>9, <3>1
  <2> QED BY <2>1, <2>2
<1>11. /\ Streams \in Seq(S) /\ Len(Streams) = n
       /\ Streams' \in Seq(S) /\ Len(Streams') = n + 1
  <2>1. Streams \in [1..n -> S] /\ Streams' \in [1..n + 1 -> S]
    BY <1>10
  <2>2. Streams \in Seq(S) /\ Streams' \in Seq(S)
    BY <2>1, SeqDef
  <2> QED BY <2>1, <2>2
<1>12. Streams' = Append(Streams, x)
  <2> DEFINE T == Streams
             U == Streams'
  <2>1. /\ T \in Seq(S) /\ Len(T) = n /\ U \in Seq(S) /\ Len(U) = n + 1 /\ x \in S
        /\ U[n + 1] = x /\ \A i \in 1..n : U[i] = T[i]
    BY <1>10, <1>11
  <2> HIDE DEF T, U, S
  <2>2. /\ Append(T, x) \in Seq(S) /\ Len(Append(T, x)) = n + 1 /\ Append(T, x)[n + 1] = x
        /\ \A i \in 1..n : Append(T, x)[i] = T[i]
    BY <2>1, AppendProperties
  <2>3. \A i \in 1..Len(U) : U[i] = Append(T, x)[i]
    BY <2>1, <2>2
  <2>4. U = Append(T, x)
    BY <2>1, <2>2, <2>3, SeqEqual
  <2> QED BY <2>4 DEF T, U
<1>13. Abstract!Subscribe(o)
  BY <1>2, <1>7, <1>11, <1>12 DEF Abstract!Subscribe, x
<1> QED BY <1>13 DEF Abstract!Next

(* The lookup is the answer of a header: the frame is owed to exactly the  *)
(* streams that want it.                                                   *)
LEMMA SendHeaderRefines ==
    ASSUME TypeOK, DInv, OInv, NEW m \in Masters, NEW id \in ValidIds, SendHeader(m, id)
    PROVE  Abstract!Next
<1> USE BusAssumption
<1>1. /\ Len(sent) \in Nat /\ Len(sent) < MaxHeaders
      /\ id \in DOMAIN responses /\ ~closed /\ ~Holding(m)
      /\ UNCHANGED <<responses, closed, subs, chans, got, ended, made>>
  BY Domains DEF SendHeader, bus
<1>2. PICK f \in Frames :
          /\ ContinueFrom(m, f, 1) /\ sent' = Append(sent, f)
          /\ f = [id |-> id, data |-> responses[id].data, ct |-> responses[id].ct,
                  by |-> m, stamp |-> Len(sent) + 1]
  <2> DEFINE f == [id |-> id, data |-> responses[id].data, ct |-> responses[id].ct,
                   by |-> m, stamp |-> Len(sent) + 1]
  <2>1. f \in Frames
    BY <1>1 DEF TypeOK, BusType, Responses, Frames
  <2>2. ContinueFrom(m, f, 1) /\ sent' = Append(sent, f)
    BY DEF SendHeader
  <2> HIDE DEF f
  <2> QED BY <2>1, <2>2 DEF f
<1>3. Len(sent)' = Len(sent) + 1
  BY <1>2, AppendProperties DEF TypeOK, HistoryType
<1>4. /\ Holding(m)' => call'[m].frame = f
      /\ \A n \in Masters \ {m} : call'[n] = call[n]
      /\ \A k \in DOMAIN subs : MatchesAny(subs[k].filters, f) =>
             (Holding(m)' /\ ToOffer(m, k)' <=> 1 <= k)
  BY <1>2, ContinueOwes
<1>5. /\ DOMAIN subs = DOMAIN chans
      /\ \A k \in DOMAIN chans : subs[k].filters = made[k].filters /\ 1 <= k
  BY <1>1, Domains DEF TypeOK, SubsType, DInv, SubsAsMade
<1>6. ASSUME NEW k \in DOMAIN chans
      PROVE  Owed(k)' = IF MatchesAny(made[k].filters, f) THEN Owed(k) \cup {f} ELSE Owed(k)
  <2>1. \A n \in Masters \ {m} : Owes(n, k)' <=> Owes(n, k)
    BY <1>1, <1>4 DEF Owes, Holding, ToOffer
  <2>2. ~Owes(m, k)
    BY <1>1 DEF Owes
  <2>3. Owes(m, k)' <=> MatchesAny(made[k].filters, f)
    BY <1>1, <1>4, <1>5 DEF Owes
  <2>4. Owes(m, k)' => call'[m].frame = f
    BY <1>4 DEF Owes
  <2>5. CASE MatchesAny(made[k].filters, f)
    BY <1>4, <2>1, <2>2, <2>3, <2>4, <2>5, OwedIs, OwedIsNext
  <2>6. CASE ~MatchesAny(made[k].filters, f)
    BY <1>4, <2>1, <2>2, <2>3, <2>6, OwedIs, OwedIsNext
  <2> QED BY <2>5, <2>6
<1>7. ASSUME NEW k \in DOMAIN chans
      PROVE  Stream(k)' = IF Abstract!Wants(Stream(k), f)
                          THEN [Stream(k) EXCEPT !.owed = @ \cup {f}] ELSE Stream(k)
  <2>1. Abstract!Wants(Stream(k), f) <=> MatchesAny(made[k].filters, f)
    BY DEF Abstract!Wants, MatchesAny, Stream
  <2>2. CASE MatchesAny(made[k].filters, f)
    BY <1>1, <1>6, <2>1, <2>2 DEF Stream
  <2>3. CASE ~MatchesAny(made[k].filters, f)
    BY <1>1, <1>6, <2>1, <2>3 DEF Stream
  <2> QED BY <2>2, <2>3
<1>8. Streams' = [k \in DOMAIN Streams |-> IF Abstract!Wants(Streams[k], f)
                     THEN [Streams[k] EXCEPT !.owed = @ \cup {f}] ELSE Streams[k]]
  <2>1. /\ DOMAIN Streams = DOMAIN chans
        /\ \A k \in DOMAIN chans : Streams[k] = Stream(k)
        /\ Streams' = [k \in DOMAIN chans |-> Stream(k)']
    BY <1>1, StreamsAre
  <2> QED BY <1>7, <2>1
<1>9. \A k \in DOMAIN Streams : \A g \in Streams[k].owed : g.by # m
  <2>1. ASSUME NEW k, NEW g \in Owed(k) PROVE g.by # m
    <3>1. PICK n \in Masters : Owes(n, k) /\ g = call[n].frame
      BY OwedIs
    <3> QED BY <1>1, <3>1 DEF Owes, OInv, FromMaster
  <2>2. DOMAIN Streams = DOMAIN chans /\ \A k \in DOMAIN chans : Streams[k].owed = Owed(k)
    BY DEF Streams
  <2> QED BY <2>1, <2>2
<1>10. f = [id |-> id, data |-> responses[id].data, ct |-> responses[id].ct,
            by |-> m, stamp |-> Len(sent)']
  BY <1>2, <1>3
<1>11. Abstract!Answer(m, id)
  BY <1>1, <1>3, <1>8, <1>9, <1>10 DEF Abstract!Answer
<1> QED BY <1>11 DEF Abstract!Next

(* An offer settles one debt. *)
LEMMA OfferRefines ==
    ASSUME TypeOK, BroadcastOnStableBus, DInv, OInv, KInv, NEW m \in Masters, Offer(m)
    PROVE  Abstract!Next
<1>1. PICK k \in DOMAIN chans, f \in Frames :
          /\ k = call[m].cursor /\ f = call[m].frame
          /\ k \in DOMAIN subs /\ subs[k].ch = k /\ k \in Nat
  BY CursorInRange DEF Offer
<1>2. PICK r \in Answers :
        /\ \/ subs[k].policy = "DropNewest" /\ TrySend(k, f, r)
           \/ subs[k].policy = "DropOldest" /\ SendDropOldest(k, f, r)
           \/ subs[k].policy = "Block" /\ BlockingSend(k, f, r)
        /\ call' = [call EXCEPT ![m] = [at |-> "account", frame |-> f, cursor |-> @.cursor,
                                        answer |-> r]]
  BY <1>1 DEF Offer
<1>3. /\ UNCHANGED <<responses, closed, subs, got, ended, sent, made>>
      /\ Holding(m) /\ call[m].at = "offer"
  BY DEF Offer, bus
<1>4. /\ \A n \in Masters : n # m => call'[n] = call[n]
      /\ Holding(m)' /\ call'[m].frame = f /\ call'[m].cursor = k
      /\ call'[m].at = "account"
  BY <1>1, <1>2 DEF Holding, NoCall, TypeOK
<1>5. Owes(m, k) /\ MatchesAny(subs[k].filters, f)
  BY <1>1, <1>3 DEF Owes, ToOffer, BroadcastOnStableBus
<1>6. /\ \A j : \A n \in Masters : Owes(n, j)' <=> Owes(n, j) /\ ~(n = m /\ j = k)
      /\ \A n \in Masters : Holding(n) => call'[n].frame = call[n].frame
  BY <1>1, <1>3, <1>4, <1>5 DEF Owes, Holding, ToOffer
<1>7. Owed(k)' = Owed(k) \ {f} /\ f \in Owed(k)
  <2>1. \A n \in Masters : Owes(n, k) => (call[n].frame = f <=> n = m)
    BY <1>1, <1>5 DEF Owes, OInv, FromMaster
  <2>2. \A n \in Masters : Owes(n, k) => call'[n].frame = call[n].frame
    BY <1>6 DEF Owes
  <2> QED BY <1>1, <1>5, <1>6, <2>1, <2>2, OwedIs, OwedIsNext
<1>8. \A j \in DOMAIN chans \ {k} : Owed(j)' = Owed(j)
  BY <1>6, OwedIfSame DEF Owes
<1>9. /\ chans[k] \in Channels /\ chans[k].items \in Seq(Frames)
      /\ Len(chans[k].items) \in Nat /\ chans[k].depth \in Nat
      /\ Len(chans[k].items) <= chans[k].depth
      /\ (HasRoom(k) <=> Len(chans[k].items) # chans[k].depth)
  <2>1. /\ chans[k] \in Channels /\ chans[k].items \in Seq(Frames)
        /\ Len(chans[k].items) <= chans[k].depth
    BY Domains DEF TypeOK, ChannelType
  <2>2. Len(chans[k].items) \in Nat /\ chans[k].depth \in Nat
    BY <2>1, LenProperties DEF Channels
  <2> QED BY <2>1, <2>2 DEF HasRoom
<1>10. made[k].policy = subs[k].policy /\ chans[k].closed \in BOOLEAN
  BY <1>1, <1>9 DEF KInv, PolicyAsMade, Channels
<1>11. /\ DOMAIN chans' = DOMAIN chans
       /\ \A j \in DOMAIN chans \ {k} : chans'[j] = chans[j]
       /\ chans'[k].depth = chans[k].depth /\ chans'[k].closed = chans[k].closed
  BY <1>2, <1>9 DEF TrySend, SendDropOldest, BlockingSend, Push, Evict, Channels
<1>12. \/ ~chans[k].closed /\ HasRoom(k) /\ chans'[k].items = Append(chans[k].items, f)
       \/ /\ ~chans[k].closed /\ ~HasRoom(k) /\ made[k].policy = "DropOldest"
          /\ chans'[k].items = Append(Tail(chans[k].items), f)
       \/ /\ chans[k].closed \/ (~HasRoom(k) /\ made[k].policy = "DropNewest")
          /\ chans'[k].items = chans[k].items
  BY <1>2, <1>9, <1>10 DEF TrySend, SendDropOldest, BlockingSend, Push, Evict, Channels
<1>13. /\ Streams' = [Streams EXCEPT ![k] = Stream(k)']
       /\ k \in DOMAIN Streams /\ Streams[k] = Stream(k)
  <2>1. \A j \in DOMAIN chans \ {k} : Stream(j)' = Stream(j)
    BY <1>3, <1>8, <1>11 DEF Stream
  <2> QED BY <1>11, <2>1, StreamsIfOne
<1> DEFINE s == Streams[k]
           paid == s.owed \ {f}
<1>14. /\ s.owed = Owed(k) /\ s.items = chans[k].items /\ s.depth = chans[k].depth
       /\ s.policy = made[k].policy /\ s.open = ~chans[k].closed
       /\ (Abstract!Full(s) <=> ~HasRoom(k))
  BY <1>9, <1>13 DEF Stream, Abstract!Full
<1>15. Stream(k)' = [s EXCEPT !.owed = paid, !.items = chans'[k].items]
  <2>1. Stream(k)' = [Stream(k) EXCEPT !.owed = Owed(k) \ {f}, !.items = chans'[k].items]
    <3>1. PICK fl, po, de, op, re, en, it, ow, q :
              /\ fl = made[k].filters /\ po = made[k].policy /\ de = chans[k].depth
              /\ op = ~chans[k].closed /\ re = got[k] /\ en = (k \in ended)
              /\ it = chans[k].items /\ ow = Owed(k) /\ q = chans'[k].items
      OBVIOUS
    <3>2. Stream(k) = [filters |-> fl, policy |-> po, depth |-> de, owed |-> ow,
                       items |-> it, open |-> op, read |-> re, ended |-> en]
      BY <3>1, Zenon DEF Stream
    <3>3. Stream(k)' = [filters |-> fl, policy |-> po, depth |-> de, owed |-> ow \ {f},
                        items |-> q, open |-> op, read |-> re, ended |-> en]
      BY <1>3, <1>7, <1>11, <3>1, Zenon DEF Stream
    <3>4. PICK p, x, y : p = ow \ {f} /\ x = Stream(k) /\ y = Stream(k)'
      OBVIOUS
    <3>5. PICK s1 : s1 = [x EXCEPT !.owed = p]
      OBVIOUS
    <3>6. PICK s2 : s2 = [s1 EXCEPT !.items = q]
      OBVIOUS
    <3>7. /\ x = [filters |-> fl, policy |-> po, depth |-> de, owed |-> ow,
                  items |-> it, open |-> op, read |-> re, ended |-> en]
          /\ y = [filters |-> fl, policy |-> po, depth |-> de, owed |-> p,
                  items |-> q, open |-> op, read |-> re, ended |-> en]
      BY <3>2, <3>3, <3>4, Zenon
    <3>8. s1 = [filters |-> fl, policy |-> po, depth |-> de, owed |-> p,
                items |-> it, open |-> op, read |-> re, ended |-> en]
      BY <3>5, <3>7
    <3>9. s2 = y
      BY <3>6, <3>7, <3>8
    <3>10. y = [x EXCEPT !.owed = p, !.items = q]
      BY <3>5, <3>6, <3>9
    <3> QED BY <3>1, <3>4, <3>10
  <2> QED BY <1>13, <1>14, <2>1
<1>16. CASE ~chans[k].closed /\ HasRoom(k) /\ chans'[k].items = Append(chans[k].items, f)
  <2>1. Streams' = [Streams EXCEPT ![k] = [s EXCEPT !.owed = paid, !.items = Append(@, f)]]
    BY <1>13, <1>14, <1>15, <1>16
  <2> QED BY <1>3, <1>7, <1>13, <1>14, <1>16, <2>1 DEF Abstract!Settle, Abstract!Next
<1>17. CASE /\ ~chans[k].closed /\ ~HasRoom(k) /\ made[k].policy = "DropOldest"
            /\ chans'[k].items = Append(Tail(chans[k].items), f)
  <2>1. Streams' = [Streams EXCEPT ![k] = [s EXCEPT !.owed = paid,
                                                    !.items = Append(Tail(@), f)]]
    BY <1>13, <1>14, <1>15, <1>17
  <2>2. Abstract!Settle(k, f)
    BY <1>3, <1>7, <1>14, <1>17, <2>1 DEF Abstract!Settle
  <2> QED BY <1>7, <1>13, <1>14, <2>2 DEF Abstract!Next
<1>18. CASE /\ chans[k].closed \/ (~HasRoom(k) /\ made[k].policy = "DropNewest")
            /\ chans'[k].items = chans[k].items
  <2>1. Stream(k)' = [s EXCEPT !.owed = paid]
    BY <1>3, <1>7, <1>11, <1>13, <1>18 DEF Stream
  <2>2. Streams' = [Streams EXCEPT ![k].owed = paid]
    BY <1>13, <2>1
  <2>3. Abstract!Settle(k, f)
    BY <1>3, <1>7, <1>14, <1>18, <2>2 DEF Abstract!Settle
  <2> QED BY <1>7, <1>13, <1>14, <2>3 DEF Abstract!Next
<1> QED BY <1>12, <1>16, <1>17, <1>18

(* Counting an answer and going on changes no debt. *)
LEMMA AccountRefines ==
    ASSUME TypeOK, NEW m \in Masters, Account(m)
    PROVE  Streams' = Streams
<1>1. /\ Holding(m) /\ call[m].at = "account"
      /\ ContinueFrom(m, call[m].frame, call[m].cursor + 1)
      /\ UNCHANGED <<subs, closed, chans, got, ended, sent, made>>
  BY DEF Account, bus
<1>2. call[m].cursor \in Nat /\ DOMAIN subs \subseteq Nat
  <2>1. DOMAIN subs \subseteq Nat
    BY Domains
  <2>2. call[m] \in Calls
    BY DEF TypeOK
  <2>3. call[m].cursor \in 1..MaxSubs
    BY <1>1, <2>2 DEF Calls, Holding, NoCall
  <2> QED BY <2>1, <2>3, BusAssumption
<1>3. PICK c \in Nat, f \in {call[m].frame} : f = call[m].frame /\ c = call[m].cursor + 1
  BY <1>2
<1>4. /\ Holding(m)' => call'[m].frame = f
      /\ \A n \in Masters \ {m} : call'[n] = call[n]
      /\ \A k \in DOMAIN subs : MatchesAny(subs[k].filters, f) =>
             (Holding(m)' /\ ToOffer(m, k)' <=> c <= k)
  BY <1>1, <1>3, ContinueOwes
<1>5. ASSUME NEW k PROVE Owed(k)' = Owed(k)
  <2>1. ASSUME NEW n \in Masters, n # m
        PROVE  Owes(n, k)' = Owes(n, k) /\ call'[n].frame = call[n].frame
    BY <1>1, <1>4, <2>1 DEF Owes, Holding, ToOffer
  <2>2. Owes(m, k)' <=> Owes(m, k)
    <3>1. CASE k \in DOMAIN subs /\ MatchesAny(subs[k].filters, f)
      <4>1. k \in Nat /\ (c <= k <=> call[m].cursor < k)
        BY <1>2, <1>3, <3>1
      <4>2. Holding(m)' /\ ToOffer(m, k)' <=> c <= k
        BY <1>4, <3>1
      <4>3. ToOffer(m, k) <=> call[m].cursor < k
        BY <1>1 DEF ToOffer
      <4>4. Owes(m, k) <=> call[m].cursor < k
        BY <1>1, <1>3, <3>1, <4>3 DEF Owes
      <4>5. Owes(m, k)' <=> Holding(m)' /\ ToOffer(m, k)'
        BY <1>1, <1>4, <3>1 DEF Owes
      <4> QED BY <4>1, <4>2, <4>4, <4>5
    <3>2. CASE ~(k \in DOMAIN subs /\ MatchesAny(subs[k].filters, f))
      BY <1>1, <1>3, <1>4, <3>2 DEF Owes
    <3> QED BY <3>1, <3>2
  <2>3. Owes(m, k) => call'[m].frame = call[m].frame
    BY <1>3, <1>4, <2>2 DEF Owes
  <2> QED BY <2>1, <2>2, <2>3, OwedIfSame
<1> QED BY <1>1, <1>5 DEF Streams

(* The first close of the bus closes every stream, when nothing is owed;   *)
(* a later one changes nothing.                                            *)
LEMMA CloseRefines ==
    ASSUME TypeOK, Exclusive, CloseBus, UNCHANGED <<call, got, ended, sent, made>>
    PROVE  Abstract!Close \/ UNCHANGED <<responses, closed, Streams, Len(sent)>>
<1>1. CASE closed
  <2>1. UNCHANGED <<responses, closed, subs, chans>>
    BY <1>1 DEF CloseBus, bus
  <2> QED BY <2>1, StreamsIfQuiet
<1>2. CASE ~closed
  <2>1. /\ closed' = TRUE /\ UNCHANGED responses
        /\ chans' = [k \in DOMAIN chans |-> [chans[k] EXCEPT !.closed =
                         @ \/ \E i \in DOMAIN subs : subs[i].ch = k]]
    BY <1>2 DEF CloseBus
  <2>2. \A k : Owed(k) = {} /\ Owed(k)' = {}
    BY NobodyOwes DEF Exclusive, Holding
  <2>3. DOMAIN subs = DOMAIN chans /\ \A i \in DOMAIN subs : subs[i].ch = i
    BY <1>2, Domains DEF TypeOK, SubsType
  <2>4. ASSUME NEW k \in DOMAIN chans
        PROVE  Stream(k)' = [Stream(k) EXCEPT !.open = FALSE]
    <3>1. chans[k] \in Channels
      BY Domains
    <3>2. /\ chans'[k].items = chans[k].items /\ chans'[k].depth = chans[k].depth
          /\ chans'[k].closed = TRUE
      BY <2>1, <2>3, <3>1 DEF Channels
    <3> QED BY <2>2, <3>2, StreamCloses
  <2>5. /\ DOMAIN Streams = DOMAIN chans /\ DOMAIN chans' = DOMAIN chans
        /\ \A k \in DOMAIN chans : Streams[k] = Stream(k) /\ Streams[k].owed = {}
        /\ Streams' = [k \in DOMAIN chans |-> Stream(k)']
    BY <2>1, <2>2, StreamsAre DEF Stream
  <2>6. Streams' = [k \in DOMAIN Streams |-> [Streams[k] EXCEPT !.open = FALSE]]
    BY <2>4, <2>5
  <2> QED BY <1>2, <2>1, <2>5, <2>6 DEF Abstract!Close
<1> QED BY <1>1, <1>2

(* The readers. *)
LEMMA RecvRefines ==
    ASSUME TypeOK, NEW k \in DOMAIN chans, Recv(k)
    PROVE  Abstract!Read(k)
<1>1. /\ chans[k].items # << >> /\ chans[k] \in Channels /\ k \in DOMAIN got
      /\ UNCHANGED <<responses, closed, subs, call, ended, sent, made>>
  BY Domains DEF Recv, bus
<1>2. PICK a, b : a = Append(got[k], Head(chans[k].items)) /\ b = Tail(chans[k].items)
  OBVIOUS
<1>3. /\ DOMAIN chans' = DOMAIN chans /\ DOMAIN got' = DOMAIN got
      /\ \A j \in DOMAIN chans \ {k} : chans'[j] = chans[j]
      /\ \A j \in DOMAIN got \ {k} : got'[j] = got[j]
      /\ got'[k] = a /\ chans'[k].items = b
      /\ chans'[k].depth = chans[k].depth /\ chans'[k].closed = chans[k].closed
  BY <1>1, <1>2 DEF Recv, Channels
<1>4. \A j : Owed(j)' = Owed(j)
  BY <1>1, OwedIfSame DEF Owes, Holding, ToOffer
<1>5. \A j \in DOMAIN chans \ {k} : Stream(j)' = Stream(j)
  <2>1. DOMAIN got = DOMAIN chans
    BY Domains
  <2> QED BY <1>1, <1>3, <1>4, <2>1 DEF Stream
<1>6. PICK S, T, x, y : S = Streams /\ T = Streams' /\ x = Stream(k) /\ y = Stream(k)'
  OBVIOUS
<1>7. T = [S EXCEPT ![k] = y] /\ k \in DOMAIN S /\ S[k] = x
  BY <1>3, <1>5, <1>6, StreamsIfOne
<1>8. S = [j \in DOMAIN S |-> S[j]]
  BY <1>6 DEF Streams
<1>9. PICK fl, po, de, op, re, en, it, ow :
        /\ fl = made[k].filters /\ po = made[k].policy /\ de = chans[k].depth
        /\ op = ~chans[k].closed /\ re = got[k] /\ en = (k \in ended)
        /\ it = chans[k].items /\ ow = Owed(k)
  OBVIOUS
<1>10. /\ x = [filters |-> fl, policy |-> po, depth |-> de, owed |-> ow,
               items |-> it, open |-> op, read |-> re, ended |-> en]
       /\ y = [filters |-> fl, policy |-> po, depth |-> de, owed |-> ow,
               items |-> b, open |-> op, read |-> a, ended |-> en]
  <2>1. x = [filters |-> fl, policy |-> po, depth |-> de, owed |-> ow,
             items |-> it, open |-> op, read |-> re, ended |-> en]
    BY <1>6, <1>9, Zenon DEF Stream
  <2>2. y = [filters |-> fl, policy |-> po, depth |-> de, owed |-> ow,
             items |-> b, open |-> op, read |-> a, ended |-> en]
    BY <1>1, <1>3, <1>4, <1>6, <1>9, Zenon DEF Stream
  <2> QED BY <2>1, <2>2
<1>11. PICK s1 : s1 = [x EXCEPT !.read = a]
  OBVIOUS
<1>12. PICK s2 : s2 = [s1 EXCEPT !.items = b]
  OBVIOUS
<1>13. s1 = [filters |-> fl, policy |-> po, depth |-> de, owed |-> ow,
             items |-> it, open |-> op, read |-> a, ended |-> en]
  BY <1>10, <1>11
<1>14. s2 = y
  BY <1>10, <1>12, <1>13
<1>15. /\ x.read = re /\ x.items = it /\ s1.items = it
       /\ a = Append(x.read, Head(x.items)) /\ b = Tail(x.items)
  BY <1>2, <1>9, <1>10, <1>13
<1>16. PICK S1 : S1 = [S EXCEPT ![k].read = Append(@, Head(S[k].items))]
  OBVIOUS
<1>17. S1 = [S EXCEPT ![k] = s1]
  BY <1>7, <1>11, <1>15, <1>16
<1>18. S1[k] = s1 /\ DOMAIN S1 = DOMAIN S
  BY <1>7, <1>17
<1>19. [S1 EXCEPT ![k].items = Tail(@)] = [S1 EXCEPT ![k] = s2]
  BY <1>7, <1>12, <1>15, <1>18
<1>20. [S1 EXCEPT ![k] = s2] = T
  BY <1>7, <1>14, <1>17
<1>21. T = [S EXCEPT ![k].read = Append(@, Head(S[k].items)), ![k].items = Tail(@)]
  <2>1. [S EXCEPT ![k].read = Append(@, Head(S[k].items)), ![k].items = Tail(@)]
        = [S1 EXCEPT ![k].items = Tail(@)]
    BY <1>16
  <2> QED BY <1>19, <1>20, <2>1, Zenon
<1>22. x.items # << >>
  BY <1>1, <1>9, <1>15
<1> QED BY <1>1, <1>6, <1>7, <1>21, <1>22 DEF Abstract!Read

LEMMA RecvEndRefines ==
    ASSUME TypeOK, NEW k \in DOMAIN chans, RecvEnd(k)
    PROVE  Abstract!ReadEnd(k)
<1>1. /\ UNCHANGED <<responses, closed, subs, chans, call, got, sent, made>>
      /\ chans[k].items = << >> /\ chans[k].closed /\ k \notin ended
      /\ ended' = ended \cup {k}
  BY DEF RecvEnd, bus
<1>2. \A j : Owed(j)' = Owed(j)
  BY <1>1, OwedIfSame DEF Owes, Holding, ToOffer
<1>3. \A j \in DOMAIN chans \ {k} : Stream(j)' = Stream(j)
  <2>1. \A j \in DOMAIN chans \ {k} : (j \in ended') = (j \in ended)
    BY <1>1
  <2> QED BY <1>1, <1>2, <2>1 DEF Stream
<1>4. Stream(k)' = [Stream(k) EXCEPT !.ended = TRUE]
  BY <1>1, <1>2, StreamEnds
<1>5. /\ Streams' = [Streams EXCEPT ![k] = Stream(k)']
      /\ k \in DOMAIN Streams /\ Streams[k] = Stream(k)
  BY <1>1, <1>3, StreamsIfOne
<1>6. ~Streams[k].open /\ Streams[k].items = << >> /\ ~Streams[k].ended
  BY <1>1, <1>5, StreamFlags
<1>7. Streams' = [Streams EXCEPT ![k].ended = TRUE]
  BY <1>4, <1>5
<1> QED BY <1>1, <1>6, <1>7 DEF Abstract!ReadEnd

LEMMA SelfCloseRefines ==
    ASSUME TypeOK, NEW k \in DOMAIN chans, SelfClose(k)
    PROVE  Abstract!LeaveStream(k)
<1>1. /\ UNCHANGED <<responses, closed, subs, call, got, ended, sent, made>>
      /\ ~chans[k].closed /\ chans[k] \in Channels
  BY Domains DEF SelfClose, bus
<1>2. \A j : Owed(j)' = Owed(j)
  BY <1>1, OwedIfSame DEF Owes, Holding, ToOffer
<1>3. /\ DOMAIN chans' = DOMAIN chans
      /\ \A j \in DOMAIN chans \ {k} : chans'[j] = chans[j]
      /\ chans'[k].items = chans[k].items /\ chans'[k].depth = chans[k].depth
      /\ chans'[k].closed = TRUE
  BY <1>1 DEF SelfClose, Channels
<1>4. \A j \in DOMAIN chans \ {k} : Stream(j)' = Stream(j)
  BY <1>1, <1>2, <1>3 DEF Stream
<1>5. Stream(k)' = [Stream(k) EXCEPT !.open = FALSE]
  BY <1>1, <1>2, <1>3, StreamCloses
<1>6. /\ Streams' = [Streams EXCEPT ![k] = Stream(k)']
      /\ k \in DOMAIN Streams /\ Streams[k] = Stream(k)
  BY <1>3, <1>4, StreamsIfOne
<1>7. Streams[k].open
  BY <1>1, <1>6, StreamFlags
<1>8. Streams' = [Streams EXCEPT ![k].open = FALSE]
  BY <1>5, <1>6
<1> QED BY <1>1, <1>7, <1>8 DEF Abstract!LeaveStream

(* Every step of the bus is a step of AbstractBus or changes nothing there. *)
LEMMA NextRefines ==
    IInv /\ DInv /\ OInv /\ KInv /\ [Next]_vars => [Abstract!Next]_(Abstract!vars)
<1> SUFFICES ASSUME TypeOK, BroadcastOnStableBus, DInv, OInv, KInv, [Next]_vars
             PROVE  Abstract!Next \/ UNCHANGED <<responses, closed, Streams, Len(sent)>>
  BY DEF IInv, Abstract!vars
<1>1. ASSUME UNCHANGED <<responses, closed, subs, chans, call, got, ended, sent, made>>
      PROVE  UNCHANGED <<responses, closed, Streams, Len(sent)>>
  BY <1>1, StreamsIfQuiet
<1>2. DOMAIN Streams = DOMAIN chans
  BY DEF Streams
<1>3. CASE Client
  <2>1. CASE \E id \in ValidIds, p \in Payloads : Publish(id, p) \/ PublishClassic(id, p)
    BY <2>1, PublishRefines DEF Publish, PublishClassic
  <2>2. CASE \E id \in ValidIds : Unpublish(id)
    BY <2>2, UnpublishRefines
  <2>3. CASE \E o \in Options : Subscribe(o)
    BY <2>3, SubscribeRefines
  <2>4. CASE Close
    BY <2>4, CloseRefines DEF Close, Abstract!Next
  <2>5. CASE UNCHANGED <<responses, closed, subs, chans, call, got, ended, sent, made>>
    BY <1>1, <2>5
  <2> QED BY <1>3, <2>1, <2>2, <2>3, <2>4, <2>5
      DEF Client, RefuseId, RefuseClosed, CountError, SetSchedule, bus
<1>4. CASE \E m \in Masters : Master(m)
  <2> SUFFICES ASSUME NEW m \in Masters, Master(m)
               PROVE  Abstract!Next \/ UNCHANGED <<responses, closed, Streams, Len(sent)>>
    BY <1>4
  <2>1. CASE \E id \in ValidIds : SendHeader(m, id)
    BY <2>1, SendHeaderRefines
  <2>2. CASE CountError
    BY <1>1, <2>2 DEF CountError, bus
  <2>3. CASE Offer(m)
    BY <2>3, OfferRefines
  <2>4. CASE Account(m)
    BY <2>4, AccountRefines DEF Account, bus
  <2> QED BY <2>1, <2>2, <2>3, <2>4 DEF Master, RefuseHeader
<1>5. CASE \E d \in Drainers : Drainer(d)
  <2> SUFFICES ASSUME NEW d \in Drainers, Drainer(d)
               PROVE  Abstract!Next \/ UNCHANGED <<responses, closed, Streams, Len(sent)>>
    BY <1>5
  <2>1. CASE DrainClose(d)
    BY <2>1, CloseRefines DEF DrainClose, Abstract!Next
  <2>2. CASE UNCHANGED <<responses, closed, subs, chans, call, got, ended, sent, made>>
    BY <1>1, <2>2
  <2> QED BY <2>1, <2>2 DEF Drainer, CloseWithDrain, Deadline, DrainPoll, DrainScan, bus
<1>6. CASE \E k \in DOMAIN chans : Reader(k)
  BY <1>2, <1>6, RecvRefines, RecvEndRefines, SelfCloseRefines DEF Reader, Abstract!Next
<1>7. CASE UNCHANGED vars
  BY <1>1, <1>7 DEF vars, bus
<1> QED BY <1>3, <1>4, <1>5, <1>6, <1>7 DEF Next

(* The bus with its lock, its loops and its drain implements AbstractBus,  *)
(* for any number of masters, drainers and subscriptions: to a client a    *)
(* broadcast fixes the frame and its receivers in one step, each stream    *)
(* settles its debts by its own policy, and a close cuts nothing short.    *)
THEOREM BusImplementsAbstract == Spec => ImplementsAbstractBus
<1>1. Spec => [][Abstract!Next]_(Abstract!vars)
  BY BusIInv, BusDInv, BusOInv, BusKInv, NextRefines, PTL DEF Spec
<1>2. Spec => Abstract!Init
  BY AbstractInit DEF Spec
<1> QED BY <1>1, <1>2, PTL DEF ImplementsAbstractBus, Abstract!Spec

=============================================================================
