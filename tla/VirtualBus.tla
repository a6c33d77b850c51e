----------------------------- MODULE VirtualBus -----------------------------
(***************************************************************************)
(* lin::virt::Bus (src/virtual/bus.cpp, include/lin/virtual/bus.hpp): the  *)
(* in-memory LIN bus.  Any thread may call any method.                     *)
(*                                                                         *)
(* mu_ is a shared_mutex.  publish, subscribe, set_schedule and close hold *)
(* it exclusively and never wait while they hold it, so each is one step,  *)
(* enabled when nobody holds the lock.  send_header holds it shared from   *)
(* its lookup to its last delivery: it is one step for the lookup and two  *)
(* steps (channel, counters) per subscriber.  close_with_drain is the      *)
(* sequence of its steps.                                                  *)
(*                                                                         *)
(* A subscriber channel is the closable FIFO queue of FifoChannel, which   *)
(* Chan implements.                                                        *)
(***************************************************************************)
EXTENDS Integers, Sequences, FiniteSets, FiniteSetsExt

CONSTANTS
    Masters,      \* threads that call send_header
    Drainers,     \* threads that call close_with_drain, once each
    ValidIds,     \* frame identifiers up to kLINMaxID
    InvalidIds,   \* identifiers above it
    DiagIds,      \* kLINDiagRequestID and kLINDiagResponseID
    Payloads,     \* response data, not empty
    Size,         \* Size[p] is the number of bytes of p
    Options,      \* what subscribe is called with: [filters, policy, depth]
    Schedules,    \* what set_schedule is called with
    SelfClosers,  \* channels whose subscriber may close them itself
    MaxSubs, MaxHeaders, MaxErrors   \* bounds of the state space

Policies == {"DropNewest", "DropOldest", "Block"}

ASSUME BusAssumption ==
    /\ Masters \cap Drainers = {}
    /\ ValidIds \cap InvalidIds = {}
    /\ DiagIds \subseteq ValidIds
    /\ \A p \in Payloads : Size[p] \in Nat \ {0}
    /\ \A o \in Options : /\ o.policy \in Policies
                          /\ o.depth \in Nat \ {0}
                          /\ o.filters \subseteq [id : ValidIds \cup InvalidIds, all : BOOLEAN]
    /\ SelfClosers \subseteq 1..MaxSubs
    /\ IsFiniteSet(Masters)
    /\ MaxSubs \in Nat /\ MaxHeaders \in Nat /\ MaxErrors \in Nat

VARIABLES
    responses,  \* responses_: [data, ct] of the identifiers that have one
    schedule,   \* schedule_, which no method reads
    subs,       \* subs_: a sequence of [filters, policy, ch]
    closed,     \* closed_
    chans,      \* the channels handed out, [items, depth, closed]; ch is an index
    call,       \* where each master is in send_header
    drain,      \* where each drainer is in close_with_drain
    metrics,    \* the six atomic counters
    got,        \* what the reader of each channel has received so far
    ended,      \* channels whose reader has been told nullopt by recv()
    sent,       \* history: the frames of the successful headers, in order
    made        \* history: per channel its subscription and Len(sent) at that time

bus == <<responses, schedule, subs, closed>>
vars == <<bus, chans, call, drain, metrics, got, ended, sent, made>>

NoCall == [at |-> "idle"]

(* Chan::SendResult, and Ok for what send() answers. *)
Answers == {"Ok", "Full", "Evicted", "Closed"}

Holding(m) == call[m] # NoCall
Scanning(d) == drain[d].at = "scan"

(* Mutant: writers do not wait for the broadcasts in progress. *)
ExclusiveIgnoresMasters == \A d \in Drainers : ~Scanning(d)

(* No thread holds mu_ shared, so it can be taken exclusively. *)
Exclusive == /\ \A m \in Masters : ~Holding(m)
             /\ \A d \in Drainers : ~Scanning(d)

(* matches_any: no filters is a wildcard. *)
MatchesAny(filters, f) ==
    filters = {} \/ \E fl \in filters : fl.all \/ fl.id = f.id

Init ==
    /\ responses = << >>
    /\ schedule = << >>
    /\ subs = << >>
    /\ closed = FALSE
    /\ chans = << >>
    /\ call = [m \in Masters |-> NoCall]
    /\ drain = [d \in Drainers |-> [at |-> "idle", expired |-> FALSE, cursor |-> 0,
                                    settled |-> {}, result |-> "none"]]
    /\ metrics = [write |-> 0, deliver |-> 0, drop |-> 0, error |-> 0,
                  bytesWritten |-> 0, bytesDelivered |-> 0]
    /\ got = << >>
    /\ ended = {}
    /\ sent = << >>
    /\ made = << >>

CountError ==
    /\ metrics.error < MaxErrors
    /\ metrics' = [metrics EXCEPT !.error = @ + 1]
    /\ UNCHANGED <<bus, chans, call, drain, got, ended, sent, made>>

-----------------------------------------------------------------------------
(* publish and publish_classic *)

(* The body of do_publish under the lock, for a list of bytes and for the  *)
(* empty list that removes the response.                                   *)
DoPublish(id, data, ct) ==
    LET forced == IF id \in DiagIds THEN "classic" ELSE ct
    IN  /\ Exclusive
        /\ ~closed
        /\ responses' = [i \in DOMAIN responses \cup {id} |->
                            IF i = id THEN [data |-> data, ct |-> forced]
                            ELSE responses[i]]
        /\ UNCHANGED <<schedule, subs, closed, chans, call, drain, metrics, got, ended,
                       sent, made>>

Publish(id, data) == DoPublish(id, data, "enhanced")

PublishClassic(id, data) == DoPublish(id, data, "classic")

Unpublish(id) ==
    /\ Exclusive
    /\ ~closed
    /\ responses' = [i \in DOMAIN responses \ {id} |-> responses[i]]
    /\ UNCHANGED <<schedule, subs, closed, chans, call, drain, metrics, got, ended,
                   sent, made>>

(* An identifier above kLINMaxID is refused before the lock is taken, by   *)
(* publish and send_header alike.                                          *)
RefuseId(id) == id \in InvalidIds /\ CountError

(* publish or subscribe on a closed bus. *)
RefuseClosed == Exclusive /\ closed /\ CountError

SetSchedule(s) ==
    /\ Exclusive
    /\ ~closed
    /\ schedule' = s
    /\ UNCHANGED <<responses, subs, closed, chans, call, drain, metrics, got, ended,
                   sent, made>>

-----------------------------------------------------------------------------
(* subscribe *)

Subscribe(o) ==
    /\ Exclusive
    /\ ~closed
    /\ Len(chans) < MaxSubs
    /\ chans' = Append(chans, [items |-> << >>, depth |-> o.depth, closed |-> FALSE])
    /\ subs' = Append(subs, [filters |-> o.filters, policy |-> o.policy,
                             ch |-> Len(chans) + 1])
    /\ got' = Append(got, << >>)
    /\ made' = Append(made, [filters |-> o.filters, policy |-> o.policy,
                             since |-> Len(sent)])
    /\ UNCHANGED <<responses, schedule, closed, call, drain, metrics, ended, sent>>

-----------------------------------------------------------------------------
(* send_header *)

(* Mutant: the filters are not consulted. *)
ContinueFromIgnoresFilters(m, f, c) ==
    call' = [call EXCEPT ![m] = IF c > Len(subs) THEN NoCall
                                ELSE [at |-> "offer", frame |-> f, cursor |-> c]]

(* The loop over subs_ goes on at the next matching subscription, or the   *)
(* call returns and releases mu_.                                          *)
ContinueFrom(m, f, c) ==
    LET rest == {i \in c..Len(subs) : MatchesAny(subs[i].filters, f)}
    IN  \/ rest = {} /\ call' = [call EXCEPT ![m] = NoCall]
        \/ \E i \in rest :
              /\ \A j \in rest : i <= j
              /\ call' = [call EXCEPT ![m] = [at |-> "offer", frame |-> f, cursor |-> i]]

(* The lookup.  by and stamp identify the frame for the properties.        *)
SendHeader(m, id) ==
    /\ ~Holding(m)
    /\ ~closed
    /\ id \in DOMAIN responses
    /\ Len(sent) < MaxHeaders
    /\ LET f == [id |-> id, data |-> responses[id].data, ct |-> responses[id].ct,
                 by |-> m, stamp |-> Len(sent) + 1]
       IN  /\ sent' = Append(sent, f)
           /\ metrics' = [metrics EXCEPT !.write = @ + 1,
                                         !.bytesWritten = @ + Size[f.data]]
           /\ ContinueFrom(m, f, 1)
    /\ UNCHANGED <<bus, chans, drain, got, ended, made>>

(* ErrClosed and no_response. *)
RefuseHeader(m, id) ==
    /\ ~Holding(m)
    /\ closed \/ id \notin DOMAIN responses
    /\ CountError

(* Mutant: room is tested with <=. *)
HasRoomOffByOne(k) == Len(chans[k].items) <= chans[k].depth

HasRoom(k) == Len(chans[k].items) < chans[k].depth

Push(k, f) == chans' = [chans EXCEPT ![k].items = Append(@, f)]

Evict(k, f) == chans' = [chans EXCEPT ![k].items = Append(Tail(@), f)]

(* What the subscription's channel answers, per back-pressure policy:      *)
(* try_send, send_drop_oldest, or send, which waits for room or for the    *)
(* close and whose answer is ignored.                                      *)
TrySend(k, f, r) ==
    \/ chans[k].closed /\ r = "Closed" /\ UNCHANGED chans
    \/ ~chans[k].closed /\ ~HasRoom(k) /\ r = "Full" /\ UNCHANGED chans
    \/ ~chans[k].closed /\ HasRoom(k) /\ r = "Ok" /\ Push(k, f)

(* Mutant: send_drop_oldest does not look at closed_. *)
SendDropOldestIgnoresClose(k, f, r) ==
    \/ ~HasRoom(k) /\ r = "Evicted" /\ Evict(k, f)
    \/ HasRoom(k) /\ r = "Ok" /\ Push(k, f)

SendDropOldest(k, f, r) ==
    \/ chans[k].closed /\ r = "Closed" /\ UNCHANGED chans
    \/ ~chans[k].closed /\ ~HasRoom(k) /\ r = "Evicted" /\ Evict(k, f)
    \/ ~chans[k].closed /\ HasRoom(k) /\ r = "Ok" /\ Push(k, f)

(* Mutant: send() gives up at once when there is no room. *)
BlockingSendGivesUp(k, f, r) ==
    /\ r = "Ok"
    /\ \/ (chans[k].closed \/ ~HasRoom(k)) /\ UNCHANGED chans
       \/ ~chans[k].closed /\ HasRoom(k) /\ Push(k, f)

BlockingSend(k, f, r) ==
    /\ r = "Ok"
    /\ \/ chans[k].closed /\ UNCHANGED chans
       \/ ~chans[k].closed /\ HasRoom(k) /\ Push(k, f)

Offer(m) ==
    /\ Holding(m)
    /\ call[m].at = "offer"
    /\ LET s == subs[call[m].cursor]
           f == call[m].frame
       IN  \E r \in Answers :
              /\ \/ s.policy = "DropNewest" /\ TrySend(s.ch, f, r)
                 \/ s.policy = "DropOldest" /\ SendDropOldest(s.ch, f, r)
                 \/ s.policy = "Block" /\ BlockingSend(s.ch, f, r)
              /\ call' = [call EXCEPT ![m] = [at |-> "account", frame |-> f,
                                              cursor |-> @.cursor, answer |-> r]]
    /\ UNCHANGED <<bus, drain, metrics, got, ended, sent, made>>

(* Mutant: the loop does not advance. *)
AccountRepeats(m) ==
    /\ Holding(m)
    /\ call[m].at = "account"
    /\ ContinueFrom(m, call[m].frame, call[m].cursor)
    /\ UNCHANGED <<bus, chans, drain, metrics, got, ended, sent, made>>

(* Mutant: an eviction is counted as a drop and as a delivery. *)
AccountEvictionTwice(m) ==
    /\ Holding(m)
    /\ call[m].at = "account"
    /\ metrics' = [metrics EXCEPT
            !.deliver = IF call[m].answer \in {"Ok", "Evicted"} THEN @ + 1 ELSE @,
            !.drop = IF call[m].answer \in {"Full", "Evicted"} THEN @ + 1 ELSE @]
    /\ ContinueFrom(m, call[m].frame, call[m].cursor + 1)
    /\ UNCHANGED <<bus, chans, drain, got, ended, sent, made>>

(* The counters of the answer, then the next subscription. *)
Account(m) ==
    /\ Holding(m)
    /\ call[m].at = "account"
    /\ metrics' = CASE call[m].answer = "Ok" ->
                         [metrics EXCEPT !.deliver = @ + 1,
                                         !.bytesDelivered = @ + Size[call[m].frame.data]]
                    [] call[m].answer \in {"Full", "Evicted"} ->
                         [metrics EXCEPT !.drop = @ + 1]
                    [] OTHER -> metrics
    /\ ContinueFrom(m, call[m].frame, call[m].cursor + 1)
    /\ UNCHANGED <<bus, chans, drain, got, ended, sent, made>>

-----------------------------------------------------------------------------
(* Mutant: subs_ is cleared before its channels are closed. *)
CloseBusClearsFirst ==
    /\ closed' = TRUE
    /\ subs' = << >>
    /\ UNCHANGED <<responses, schedule, chans>>

(* close.  The channels are closed one by one under the exclusive lock;    *)
(* nobody can send meanwhile, so closing them at once is the same.         *)
CloseBus ==
    IF closed
    THEN UNCHANGED <<bus, chans>>
    ELSE /\ closed' = TRUE
         /\ chans' = [k \in DOMAIN chans |-> [chans[k] EXCEPT !.closed =
                          @ \/ \E i \in DOMAIN subs : subs[i].ch = k]]
         /\ subs' = << >>
         /\ UNCHANGED <<responses, schedule>>

Close ==
    /\ Exclusive
    /\ CloseBus
    /\ UNCHANGED <<call, drain, metrics, got, ended, sent, made>>

-----------------------------------------------------------------------------
(* close_with_drain *)

DrainGoes(d, at, c) == drain' = [drain EXCEPT ![d].at = at, ![d].cursor = c]

DrainRetries(d) == drain' = [drain EXCEPT ![d].at = "poll", ![d].cursor = 0, ![d].settled = {}]

DrainReturns(d, r) == drain' = [drain EXCEPT ![d].at = "done", ![d].result = r]

(* all_drained begins.  settled is known to the properties only: the       *)
(* headers whose broadcast is over.                                        *)
DrainScans(d) ==
    drain' = [drain EXCEPT
        ![d].at = "scan", ![d].cursor = 1,
        ![d].settled = {n \in 1..Len(sent) :
                           \A m \in Masters : Holding(m) => call[m].frame.stamp # n}]

CloseWithDrain(d) ==
    /\ drain[d].at = "idle"
    /\ DrainGoes(d, "poll", 0)
    /\ UNCHANGED <<bus, chans, call, metrics, got, ended, sent, made>>

(* The clock passes the deadline of a call in progress. *)
Deadline(d) ==
    /\ drain[d].at \notin {"idle", "done"}
    /\ ~drain[d].expired
    /\ drain' = [drain EXCEPT ![d].expired = TRUE]
    /\ UNCHANGED <<bus, chans, call, metrics, got, ended, sent, made>>

(* Mutant: the deadline is not looked at. *)
DrainPollForever(d) ==
    /\ drain[d].at = "poll"
    /\ DrainScans(d)
    /\ UNCHANGED <<bus, chans, call, metrics, got, ended, sent, made>>

(* The condition of the while loop, then all_drained takes mu_ shared. *)
DrainPoll(d) ==
    /\ drain[d].at = "poll"
    /\ IF drain[d].expired THEN DrainGoes(d, "lastClose", 0) ELSE DrainScans(d)
    /\ UNCHANGED <<bus, chans, call, metrics, got, ended, sent, made>>

(* Mutant: the loop in all_drained ends at the first channel. *)
DrainScanFirstOnly(d) ==
    /\ drain[d].at = "scan"
    /\ IF drain[d].cursor \notin DOMAIN subs \/ chans[subs[drain[d].cursor].ch].items = << >>
       THEN DrainGoes(d, "close", 0)
       ELSE DrainRetries(d)
    /\ UNCHANGED <<bus, chans, call, metrics, got, ended, sent, made>>

(* One round of the loop in all_drained, or its end. *)
DrainScan(d) ==
    /\ drain[d].at = "scan"
    /\ IF drain[d].cursor \notin DOMAIN subs
       THEN DrainGoes(d, "close", 0)
       ELSE IF chans[subs[drain[d].cursor].ch].items # << >>
            THEN DrainRetries(d)
            ELSE DrainGoes(d, "scan", drain[d].cursor + 1)
    /\ UNCHANGED <<bus, chans, call, metrics, got, ended, sent, made>>

DrainClose(d) ==
    /\ drain[d].at \in {"close", "lastClose"}
    /\ Exclusive
    /\ CloseBus
    /\ DrainReturns(d, IF drain[d].at = "close" THEN "ok" ELSE "ErrTimeout")
    /\ UNCHANGED <<call, metrics, got, ended, sent, made>>

-----------------------------------------------------------------------------
(* The subscribers: whoever holds the shared_ptr to a channel *)

Recv(k) ==
    /\ chans[k].items # << >>
    /\ got' = [got EXCEPT ![k] = Append(@, Head(chans[k].items))]
    /\ chans' = [chans EXCEPT ![k].items = Tail(@)]
    /\ UNCHANGED <<bus, call, drain, metrics, ended, sent, made>>

RecvEnd(k) ==
    /\ chans[k].items = << >>
    /\ chans[k].closed
    /\ k \notin ended
    /\ ended' = ended \cup {k}
    /\ UNCHANGED <<bus, chans, call, drain, metrics, got, sent, made>>

SelfClose(k) ==
    /\ k \in SelfClosers
    /\ ~chans[k].closed
    /\ chans' = [chans EXCEPT ![k].closed = TRUE]
    /\ UNCHANGED <<bus, call, drain, metrics, got, ended, sent, made>>

-----------------------------------------------------------------------------
Client ==
    \/ \E id \in ValidIds, p \in Payloads : Publish(id, p) \/ PublishClassic(id, p)
    \/ \E id \in ValidIds : Unpublish(id)
    \/ \E id \in InvalidIds : RefuseId(id)
    \/ RefuseClosed
    \/ \E s \in Schedules : SetSchedule(s)
    \/ \E o \in Options : Subscribe(o)
    \/ Close

Master(m) ==
    \/ \E id \in ValidIds : SendHeader(m, id) \/ RefuseHeader(m, id)
    \/ Offer(m) \/ Account(m)

Drainer(d) ==
    \/ CloseWithDrain(d) \/ Deadline(d)
    \/ DrainPoll(d) \/ DrainScan(d) \/ DrainClose(d)

Reader(k) == Recv(k) \/ RecvEnd(k) \/ SelfClose(k)

Next ==
    \/ Client
    \/ \E m \in Masters : Master(m)
    \/ \E d \in Drainers : Drainer(d)
    \/ \E k \in DOMAIN chans : Reader(k)

(* A call in progress keeps running and the clock advances.  Nobody has to *)
(* start a call, and mu_ is granted to a writer only once it stays free    *)
(* (std::shared_mutex promises writers no more).                           *)
CallFairness ==
    /\ \A m \in Masters : WF_vars(Offer(m) \/ Account(m))
    /\ \A d \in Drainers : /\ WF_vars(DrainPoll(d) \/ DrainScan(d) \/ DrainClose(d))
                           /\ WF_vars(Deadline(d))

(* The subscribers keep reading until they are told that the stream ended. *)
ReaderFairness ==
    \A k \in 1..MaxSubs : WF_vars(k \in DOMAIN chans /\ (Recv(k) \/ RecvEnd(k)))

Spec == Init /\ [][Next]_vars

(* Subscribers may stop reading at any time. *)
FairSpec == Spec /\ CallFairness

-----------------------------------------------------------------------------
Responses == [data : Payloads, ct : {"classic", "enhanced"}]

Frames == [id : ValidIds, data : Payloads, ct : {"classic", "enhanced"},
           by : Masters, stamp : 1..MaxHeaders]

Filters == SUBSET [id : ValidIds \cup InvalidIds, all : BOOLEAN]

Channels == [items : Seq(Frames), depth : Nat \ {0}, closed : BOOLEAN]

Calls == {NoCall}
    \cup [at : {"offer"}, frame : Frames, cursor : 1..MaxSubs]
    \cup [at : {"account"}, frame : Frames, cursor : 1..MaxSubs, answer : Answers]

HeaderSets == SUBSET (1..MaxHeaders)

Drains == [at : {"idle", "poll", "scan", "close", "lastClose", "done"}, expired : BOOLEAN,
           cursor : 0..(MaxSubs + 1), settled : HeaderSets,
           result : {"none", "ok", "ErrTimeout"}]

Counters == {"write", "deliver", "drop", "error", "bytesWritten", "bytesDelivered"}

Subscriptions == [filters : Filters, policy : Policies, ch : 1..MaxSubs]

Made == [filters : Filters, policy : Policies, since : 0..MaxHeaders]

BusType ==
    /\ DOMAIN responses \subseteq ValidIds
    /\ \A id \in DOMAIN responses : responses[id] \in Responses
    /\ schedule \in Schedules \cup {<< >>}
    /\ closed \in BOOLEAN

(* Subscription i has channel i, until close empties subs_; the channels   *)
(* outlive it.                                                             *)
SubsType ==
    /\ subs \in Seq(Subscriptions)
    /\ \A i \in DOMAIN subs : subs[i].ch = i
    /\ Len(subs) = IF closed THEN 0 ELSE Len(chans)

ChannelType ==
    /\ chans \in Seq(Channels) /\ Len(chans) <= MaxSubs
    /\ \A k \in DOMAIN chans : Len(chans[k].items) <= chans[k].depth

HistoryType ==
    /\ got \in Seq(Seq(Frames)) /\ Len(got) = Len(chans)
    /\ ended \subseteq DOMAIN chans
    /\ sent \in Seq(Frames) /\ Len(sent) <= MaxHeaders
    /\ made \in Seq(Made) /\ Len(made) = Len(chans)

(* Type invariant *)
TypeOK ==
    /\ BusType /\ SubsType /\ ChannelType /\ HistoryType
    /\ call \in [Masters -> Calls]
    /\ drain \in [Drainers -> Drains]
    /\ metrics \in [Counters -> Nat]

(* Everything that ever got through to the reader of channel k or waits    *)
(* for it, in order.                                                       *)
Arrived(k) == got[k] \o chans[k].items

Matching(k) == {n \in made[k].since + 1..Len(sent) : MatchesAny(made[k].filters, sent[n])}

(* A broadcast runs on a bus that holds still.  From the lookup to the     *)
(* last delivery the response of the identifier is the one that is being   *)
(* broadcast, the bus is open, and the subscription under the cursor       *)
(* exists and wants the frame: no publish, removal, subscribe (which       *)
(* reallocates subs_ under the loop) or close gets in between.             *)
BroadcastOnStableBus ==
    \A m \in Masters : Holding(m) =>
        LET f == call[m].frame
        IN  /\ ~closed
            /\ f.id \in DOMAIN responses
            /\ responses[f.id] = [data |-> f.data, ct |-> f.ct]
            /\ call[m].cursor \in DOMAIN subs
            /\ MatchesAny(subs[call[m].cursor].filters, f)

(* A subscriber gets only frames that were sent after it subscribed and    *)
(* that one of its filters wants, unchanged.                               *)
OnlyMatchingFrames ==
    \A k \in DOMAIN chans : \A i \in DOMAIN Arrived(k) :
        LET f == Arrived(k)[i] IN f.stamp \in Matching(k) /\ f = sent[f.stamp]

(* The headers of one master reach every subscriber in the order they were *)
(* sent and at most once, whatever the policy drops and however two        *)
(* masters' broadcasts, which share the lock, interleave.                  *)
SenderOrder ==
    \A k \in DOMAIN chans : \A i, j \in DOMAIN Arrived(k) :
        /\ i < j
        /\ Arrived(k)[i].by = Arrived(k)[j].by
        => Arrived(k)[i].stamp < Arrived(k)[j].stamp

(* A subscriber with the Block policy that leaves its channel open loses   *)
(* nothing: every matching header sent since it subscribed has arrived or  *)
(* is in the hands of a master that still has to offer it.                 *)
BlockLosesNothing ==
    \A k \in DOMAIN chans :
        made[k].policy = "Block" /\ (k \in SelfClosers => ~chans[k].closed) =>
        \A n \in Matching(k) :
            \/ \E i \in DOMAIN Arrived(k) : Arrived(k)[i].stamp = n
            \/ \E m \in Masters : /\ Holding(m)
                                  /\ call[m].frame.stamp = n
                                  /\ \/ call[m].cursor < k
                                     \/ call[m].cursor = k /\ call[m].at = "offer"

(* The subscriptions whose delivery or drop master m has not counted yet. *)
Uncounted(m) ==
    IF Holding(m)
    THEN {i \in call[m].cursor..Len(subs) : MatchesAny(subs[i].filters, call[m].frame)}
    ELSE {}

(* What the counters are about, as sets of pairs: what arrived, by channel *)
(* and place; the headers that each subscriber wants; the offers that each *)
(* master has still to count, and the masters that owe a delivery.         *)
Arrivals == UNION {{k} \X DOMAIN Arrived(k) : k \in DOMAIN chans}

Due == UNION {{k} \X Matching(k) : k \in DOMAIN chans}

Pending == UNION {{m} \X Uncounted(m) : m \in Masters}

Owing == {m \in Masters : Holding(m) /\ call[m].at = "account" /\ call[m].answer = "Ok"}

(* The counters are exact, up to the increments that masters still owe, as *)
(* long as no subscriber with the Block policy closes its own channel.     *)
(* deliver_count is the number of frames that subscribers have received or *)
(* can still receive: an eviction replaces one delivered frame by another  *)
(* and changes nothing.  Together with drop_count it covers every header   *)
(* once per matching subscriber, except those offered to a channel that    *)
(* its subscriber had closed; a close never cuts a broadcast short.        *)
CountersExact ==
    (\A k \in DOMAIN made : k \in SelfClosers => made[k].policy # "Block") =>
        LET offers == metrics.deliver + metrics.drop + Cardinality(Pending)
        IN  /\ metrics.deliver + Cardinality(Owing) = Cardinality(Arrivals)
            /\ offers <= Cardinality(Due)
            /\ \/ offers = Cardinality(Due)
               \/ \E k \in SelfClosers \cap DOMAIN chans : chans[k].closed

(* nullopt from recv() is final: nothing arrives on a channel after its    *)
(* reader was told that the stream ended, and all that had arrived before  *)
(* was read.                                                               *)
EndOfStreamIsFinal ==
    \A k \in ended : chans[k].closed /\ chans[k].items = << >>

(* bytes_delivered counts the bytes of the delivered frames, up to the     *)
(* increments that masters still owe (REQ-RELAY-029).                      *)
BytesDeliveredExact ==
    SelfClosers = {} =>
        metrics.bytesDelivered
        + MapThenSumSet(LAMBDA m : Size[call[m].frame.data], Owing)
        = MapThenSumSet(LAMBDA k : MapThenSumSet(LAMBDA i : Size[Arrived(k)[i].data],
                                                 DOMAIN Arrived(k)), DOMAIN chans)

(* When close_with_drain closes a bus and reports success, nothing is left *)
(* unread in the channels of the headers whose broadcast was over when the *)
(* successful check began: a client that stops its masters first           *)
(* (SAFETY_MANUAL.md, section 4.5) loses nothing.  The check and the close *)
(* are two critical sections, so more is not true (IDrainer: "waits until  *)
(* all subscriber channels are empty").                                    *)
DrainOkMeansDrained ==
    [][\A d \in Drainers :
          drain[d].at = "close" /\ drain'[d].at = "done" /\ drain'[d].result = "ok" /\ ~closed
          => \A k \in DOMAIN chans : \A i \in DOMAIN chans[k].items :
                chans[k].items[i].stamp \notin drain[d].settled]_vars

(* close_with_drain returns: when the channels are empty or when its       *)
(* timeout elapses.                                                        *)
DrainReturnsInTime == \A d \in Drainers : drain[d].at = "poll" ~> drain[d].at = "done"

NoBlockSubscription == \A k \in DOMAIN made : made[k].policy # "Block"

(* ... which is so when the subscribers keep reading, and also when they   *)
(* do not, as long as none of them has the Block policy.  Under the same   *)
(* condition send_header returns to its master.                            *)
CallsReturn ==
    ReaderFairness \/ []NoBlockSubscription =>
        /\ DrainReturnsInTime
        /\ \A m \in Masters : Holding(m) ~> ~Holding(m)

(* Closing the bus ends every reader loop, after the buffered frames.      *)
ReadersFinish == ReaderFairness => (closed ~> ended = DOMAIN chans)

-----------------------------------------------------------------------------
(* The frame that each master still has to offer to subscription k.        *)
Owed(k) == {call[m].frame : m \in {n \in Masters :
    /\ Holding(n)
    /\ k \in DOMAIN subs /\ MatchesAny(subs[k].filters, call[n].frame)
    /\ call[n].cursor < k \/ (call[n].cursor = k /\ call[n].at = "offer")}}

Streams ==
    [k \in DOMAIN chans |->
        [filters |-> made[k].filters, policy |-> made[k].policy, depth |-> chans[k].depth,
         owed |-> Owed(k), items |-> chans[k].items, open |-> ~chans[k].closed,
         read |-> got[k], ended |-> k \in ended]]

Abstract == INSTANCE AbstractBus
    WITH streams <- Streams, answered <- Len(sent),
         MaxStreams <- MaxSubs, MaxFrames <- MaxHeaders

(* The bus with its lock, its loops and its drain implements AbstractBus:  *)
(* a client cannot tell a broadcast, which takes many steps, from one in   *)
(* which the frame is fixed and its receivers are chosen in one step, and  *)
(* a close or a drain never takes a frame from somebody it was due to.     *)
ImplementsAbstractBus == Abstract!Spec

=============================================================================
