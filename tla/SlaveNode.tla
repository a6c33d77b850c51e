------------------------------ MODULE SlaveNode ------------------------------
(***************************************************************************)
(* lin::slave::Node (src/slave/node.cpp): a slave that registers responses *)
(* on a bus and remembers for which identifiers it did.  set_response is   *)
(* two critical sections, the bus's publish under the bus's lock and the   *)
(* update of ids_ under the node's, with nothing held in between.          *)
(*                                                                         *)
(* The bus is reduced to what publish touches: VirtualBus shows that       *)
(* publish and close are single steps.                                     *)
(***************************************************************************)
EXTENDS FiniteSets, Naturals

CONSTANTS
    Callers,    \* threads that call set_response of this node
    ValidIds, InvalidIds,
    Payloads,
    MayCall,    \* MayCall[t] is the set of identifiers that thread t sets
    Empty       \* the empty byte vector: set_response(id, {}) removes

ASSUME SlaveAssumption ==
    /\ ValidIds \cap InvalidIds = {}
    /\ Empty \notin Payloads
    /\ \A t \in Callers : MayCall[t] \subseteq ValidIds

VARIABLES
    responses,  \* the bus's responses_, Empty where there is no entry
    busClosed,  \* the bus's closed_
    ids,        \* ids_; the order of registration is left out
    pending,    \* set_response calls between the two critical sections
    result      \* what the last set_response of each thread returned

vars == <<responses, busClosed, ids, pending, result>>

Bytes == Payloads \cup {Empty}

Idle == [at |-> "idle"]
Published == [at : {"published"}, id : ValidIds, data : Bytes]

Init ==
    /\ responses = [id \in ValidIds |-> Empty]
    /\ busClosed = FALSE
    /\ ids = {}
    /\ pending = [t \in Callers |-> Idle]
    /\ result = [t \in Callers |-> "none"]

Busy(t) == pending[t] # Idle

Returns(t, r) == result' = [result EXCEPT ![t] = r]

(* Mutant: the identifier is recorded although the bus refused it. *)
PublishIgnoresError(t, id, data) ==
    /\ ~Busy(t)
    /\ id \in MayCall[t]
    /\ responses' = IF busClosed THEN responses ELSE [responses EXCEPT ![id] = data]
    /\ pending' = [pending EXCEPT ![t] = [at |-> "published", id |-> id, data |-> data]]
    /\ UNCHANGED <<busClosed, ids, result>>

(* bus_->publish(id, data), which succeeds on an open bus. *)
Publish(t, id, data) ==
    /\ ~Busy(t)
    /\ id \in MayCall[t]
    /\ ~busClosed
    /\ responses' = [responses EXCEPT ![id] = data]
    /\ pending' = [pending EXCEPT ![t] = [at |-> "published", id |-> id, data |-> data]]
    /\ UNCHANGED <<busClosed, ids, result>>

(* ErrClosed from the bus is returned before ids_ is touched. *)
PublishRefused(t) ==
    /\ ~Busy(t)
    /\ busClosed
    /\ Returns(t, "ErrClosed")
    /\ UNCHANGED <<responses, busClosed, ids, pending>>

(* Mutant: the refused identifier is recorded. *)
RefuseIdButRemember(t, id) ==
    /\ ~Busy(t)
    /\ id \in InvalidIds
    /\ ids' = ids \cup {id}
    /\ Returns(t, "invalid_frame")
    /\ UNCHANGED <<responses, busClosed, pending>>

(* An identifier above kLINMaxID never reaches the bus. *)
RefuseId(t, id) ==
    /\ ~Busy(t)
    /\ id \in InvalidIds
    /\ Returns(t, "invalid_frame")
    /\ UNCHANGED <<responses, busClosed, ids, pending>>

(* Mutant: a removal leaves the identifier in ids_. *)
RememberNeverErases(t) ==
    /\ Busy(t)
    /\ ids' = ids \cup {pending[t].id}
    /\ pending' = [pending EXCEPT ![t] = Idle]
    /\ Returns(t, "ok")
    /\ UNCHANGED <<responses, busClosed>>

(* The rest of set_response, under the node's mutex. *)
Remember(t) ==
    /\ Busy(t)
    /\ ids' = IF pending[t].data = Empty THEN ids \ {pending[t].id}
                                         ELSE ids \cup {pending[t].id}
    /\ pending' = [pending EXCEPT ![t] = Idle]
    /\ Returns(t, "ok")
    /\ UNCHANGED <<responses, busClosed>>

CloseBus ==
    /\ ~busClosed
    /\ busClosed' = TRUE
    /\ UNCHANGED <<responses, ids, pending, result>>

SetResponse(t) ==
    \/ \E id \in ValidIds, data \in Bytes : Publish(t, id, data)
    \/ \E id \in InvalidIds : RefuseId(t, id)
    \/ PublishRefused(t)
    \/ Remember(t)

Next == CloseBus \/ \E t \in Callers : SetResponse(t)

Spec == Init /\ [][Next]_vars

-----------------------------------------------------------------------------
(* Type invariant *)
TypeOK ==
    /\ responses \in [ValidIds -> Bytes]
    /\ busClosed \in BOOLEAN
    /\ ids \subseteq ValidIds
    /\ pending \in [Callers -> {Idle} \cup Published]
    /\ \A t \in Callers : Busy(t) => pending[t].id \in MayCall[t]
    /\ result \in [Callers -> {"none", "ok", "ErrClosed", "invalid_frame"}]

Settled(id) == \A t \in Callers : Busy(t) => pending[t].id # id

(* REQ-SLAVE-005: registered_ids() returns exactly the identifiers for     *)
(* which a response is registered on the bus, whenever no set_response for *)
(* the identifier is in progress.                                          *)
RegisteredMatchesBus ==
    \A id \in ValidIds : Settled(id) => (id \in ids <=> responses[id] # Empty)

(* What the code does guarantee: when every identifier is set by one       *)
(* thread only, registered_ids() and the bus agree on every identifier     *)
(* that is not being set, in every interleaving with the other threads and *)
(* with the close of the bus; and while one is being set they disagree     *)
(* only in the direction of the call.                                      *)
Partitioned == \A s, t \in Callers : s # t => MayCall[s] \cap MayCall[t] = {}

PartitionedAgreement ==
    Partitioned =>
        /\ RegisteredMatchesBus
        /\ \A t \in Callers : Busy(t) => responses[pending[t].id] = pending[t].data

=============================================================================
