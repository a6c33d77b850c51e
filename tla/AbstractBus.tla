---------------------------- MODULE AbstractBus ----------------------------
(***************************************************************************)
(* What lin::virt::Bus promises its clients (IMasterBus in lin.hpp), with  *)
(* nothing of how: no lock, no loop over the subscriptions, no counters.   *)
(* An answered header becomes, in one step, a debt to every stream that    *)
(* wants the frame; each stream settles its debts on its own, in no        *)
(* particular order, by its back-pressure policy.  VirtualBus implements   *)
(* this (ImplementsAbstractBus there).                                     *)
(***************************************************************************)
EXTENDS Naturals, Sequences

CONSTANTS Masters, ValidIds, DiagIds, Payloads, Options, MaxStreams, MaxFrames

VARIABLES
    responses,  \* who answers what: [data, ct] of the identifiers with an answer
    closed,
    streams,    \* per subscription what it asked for, is owed, holds and has read
    answered    \* the number of headers answered

vars == <<responses, closed, streams, answered>>

Init ==
    /\ responses = << >>
    /\ closed = FALSE
    /\ streams = << >>
    /\ answered = 0

Wants(s, f) == s.filters = {} \/ \E fl \in s.filters : fl.all \/ fl.id = f.id

Full(s) == Len(s.items) = s.depth

(* A slave registers a response, or removes it.  The diagnostic frames     *)
(* always carry the classic checksum.                                      *)
Respond(id, data, ct) ==
    /\ ~closed
    /\ id \in DiagIds => ct = "classic"
    /\ responses' = [i \in DOMAIN responses \cup {id} |->
                        IF i = id THEN [data |-> data, ct |-> ct] ELSE responses[i]]
    /\ UNCHANGED <<closed, streams, answered>>

Withdraw(id) ==
    /\ ~closed
    /\ responses' = [i \in DOMAIN responses \ {id} |-> responses[i]]
    /\ UNCHANGED <<closed, streams, answered>>

(* A new stream is owed nothing of what was answered before.               *)
Subscribe(o) ==
    /\ ~closed
    /\ Len(streams) < MaxStreams
    /\ streams' = Append(streams, [filters |-> o.filters, policy |-> o.policy,
                                   depth |-> o.depth, owed |-> {}, items |-> << >>,
                                   open |-> TRUE, read |-> << >>, ended |-> FALSE])
    /\ UNCHANGED <<responses, closed, answered>>

(* A header is answered with the response of that moment.  A master sends  *)
(* its next header when its last one is settled everywhere.                *)
Answer(m, id) ==
    /\ ~closed
    /\ id \in DOMAIN responses
    /\ answered < MaxFrames
    /\ \A k \in DOMAIN streams : \A g \in streams[k].owed : g.by # m
    /\ answered' = answered + 1
    /\ LET f == [id |-> id, data |-> responses[id].data, ct |-> responses[id].ct,
                 by |-> m, stamp |-> answered']
       IN  streams' = [k \in DOMAIN streams |->
                         IF Wants(streams[k], f)
                         THEN [streams[k] EXCEPT !.owed = @ \cup {f}]
                         ELSE streams[k]]
    /\ UNCHANGED <<responses, closed>>

(* One debt of stream k is settled.  With the Block policy there are only  *)
(* two ways: the frame is delivered, or the stream is no longer open.      *)
Settle(k, f) ==
    /\ f \in streams[k].owed
    /\ LET s    == streams[k]
           paid == s.owed \ {f}
       IN  \/ /\ s.open /\ ~Full(s)
              /\ streams' = [streams EXCEPT ![k] = [s EXCEPT !.owed = paid,
                                                             !.items = Append(@, f)]]
           \/ /\ s.open /\ Full(s) /\ s.policy = "DropOldest"
              /\ streams' = [streams EXCEPT ![k] = [s EXCEPT !.owed = paid,
                                                             !.items = Append(Tail(@), f)]]
           \/ /\ ~s.open \/ (Full(s) /\ s.policy = "DropNewest")
              /\ streams' = [streams EXCEPT ![k].owed = paid]
    /\ UNCHANGED <<responses, closed, answered>>

(* The bus closes only when every debt is settled; what the streams hold   *)
(* stays readable.                                                         *)
Close ==
    /\ ~closed
    /\ \A k \in DOMAIN streams : streams[k].owed = {}
    /\ closed' = TRUE
    /\ streams' = [k \in DOMAIN streams |-> [streams[k] EXCEPT !.open = FALSE]]
    /\ UNCHANGED <<responses, answered>>

(* The subscriber of stream k reads, is told that the stream has ended, or *)
(* leaves.                                                                 *)
Read(k) ==
    /\ streams[k].items # << >>
    /\ streams' = [streams EXCEPT ![k].read = Append(@, Head(streams[k].items)),
                                  ![k].items = Tail(@)]
    /\ UNCHANGED <<responses, closed, answered>>

ReadEnd(k) ==
    /\ ~streams[k].open /\ streams[k].items = << >> /\ ~streams[k].ended
    /\ streams' = [streams EXCEPT ![k].ended = TRUE]
    /\ UNCHANGED <<responses, closed, answered>>

LeaveStream(k) ==
    /\ streams[k].open
    /\ streams' = [streams EXCEPT ![k].open = FALSE]
    /\ UNCHANGED <<responses, closed, answered>>

Next ==
    \/ \E id \in ValidIds, p \in Payloads, ct \in {"classic", "enhanced"} : Respond(id, p, ct)
    \/ \E id \in ValidIds : Withdraw(id)
    \/ \E o \in Options : Subscribe(o)
    \/ \E m \in Masters, id \in ValidIds : Answer(m, id)
    \/ \E k \in DOMAIN streams : \/ \E f \in streams[k].owed : Settle(k, f)
                                 \/ Read(k) \/ ReadEnd(k) \/ LeaveStream(k)
    \/ Close

Spec == Init /\ [][Next]_vars

=============================================================================
