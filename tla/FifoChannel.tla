----------------------------- MODULE FifoChannel -----------------------------
(***************************************************************************)
(* What lin::Chan<T> (include/lin/channel.hpp) promises its callers: a     *)
(* bounded FIFO queue that can be closed.  A call either returns at once   *)
(* or is pending, and a pending call completes as soon as the queue lets   *)
(* it: there are no condition variables here and nobody has to be woken.   *)
(* Chan.tla is the code; it is shown to implement this module.             *)
(***************************************************************************)
EXTENDS Naturals, Sequences

CONSTANTS
    Threads,    \* the threads that hold the shared_ptr to the channel
    Messages,   \* the values sent
    Capacity,   \* capacity_, at least 1 (SubscriberConfig::effective_depth)
    NoMessage   \* the argument of a thread that is not in send()

VARIABLES
    items,      \* the queue
    closed,
    receiving,  \* threads whose recv() is pending
    sending,    \* threads whose send() is pending
    arg,        \* what each pending send() wants to enqueue
    result      \* what each thread's last call returned

vars == <<items, closed, receiving, sending, arg, result>>

Outcomes == {"none", "pending", "nullopt", "accepted", "rejected",
             "Ok", "Full", "Closed", "Evicted"}

Free(t) == t \notin receiving \cup sending

HasRoom == Len(items) < Capacity

Returns(t, r) == result' = [result EXCEPT ![t] = r]

Init ==
    /\ items = << >>
    /\ closed = FALSE
    /\ receiving = {}
    /\ sending = {}
    /\ arg = [t \in Threads |-> NoMessage]
    /\ result = [t \in Threads |-> "none"]

-----------------------------------------------------------------------------
(* Receiving.  An item is taken even after the close; "nullopt" is the     *)
(* answer of recv() only when the channel is closed and drained.           *)

Take(t) ==
    /\ items # << >>
    /\ Returns(t, Head(items))
    /\ items' = Tail(items)
    /\ receiving' = receiving \ {t}
    /\ UNCHANGED <<closed, sending, arg>>

EndOfStream(t) ==
    /\ items = << >>
    /\ closed
    /\ Returns(t, "nullopt")
    /\ receiving' = receiving \ {t}
    /\ UNCHANGED <<items, closed, sending, arg>>

BeginWaitingForItem(t) ==
    /\ items = << >>
    /\ ~closed
    /\ Returns(t, "pending")
    /\ receiving' = receiving \cup {t}
    /\ UNCHANGED <<items, closed, sending, arg>>

Recv(t) ==
    /\ Free(t)
    /\ Take(t) \/ EndOfStream(t) \/ BeginWaitingForItem(t)

CompleteRecv(t) ==
    /\ t \in receiving
    /\ Take(t) \/ EndOfStream(t)

TryRecv(t) ==
    /\ Free(t)
    /\ \/ Take(t)
       \/ /\ items = << >>
          /\ Returns(t, "nullopt")
          /\ UNCHANGED <<items, closed, receiving, sending, arg>>

-----------------------------------------------------------------------------
(* Sending.  Nothing enters a closed channel.                              *)

Enqueue(t, m, r) ==
    /\ ~closed
    /\ HasRoom
    /\ items' = Append(items, m)
    /\ Returns(t, r)
    /\ UNCHANGED <<closed, receiving>>

Accept(t, m) ==
    /\ Enqueue(t, m, "accepted")
    /\ sending' = sending \ {t}
    /\ arg' = [arg EXCEPT ![t] = NoMessage]

Reject(t) ==
    /\ closed
    /\ Returns(t, "rejected")
    /\ sending' = sending \ {t}
    /\ arg' = [arg EXCEPT ![t] = NoMessage]
    /\ UNCHANGED <<items, closed, receiving>>

BeginWaitingForRoom(t, m) ==
    /\ ~closed
    /\ ~HasRoom
    /\ Returns(t, "pending")
    /\ sending' = sending \cup {t}
    /\ arg' = [arg EXCEPT ![t] = m]
    /\ UNCHANGED <<items, closed, receiving>>

Send(t, m) ==
    /\ Free(t)
    /\ Accept(t, m) \/ Reject(t) \/ BeginWaitingForRoom(t, m)

CompleteSend(t) ==
    /\ t \in sending
    /\ Accept(t, arg[t]) \/ Reject(t)

Refuse(t, r) ==
    /\ Returns(t, r)
    /\ UNCHANGED <<items, closed, receiving, sending, arg>>

TrySend(t, m) ==
    /\ Free(t)
    /\ \/ closed /\ Refuse(t, "Closed")
       \/ ~closed /\ ~HasRoom /\ Refuse(t, "Full")
       \/ Enqueue(t, m, "Ok") /\ UNCHANGED <<sending, arg>>

SendDropOldest(t, m) ==
    /\ Free(t)
    /\ \/ closed /\ Refuse(t, "Closed")
       \/ Enqueue(t, m, "Ok") /\ UNCHANGED <<sending, arg>>
       \/ /\ ~closed
          /\ ~HasRoom
          /\ items' = Append(Tail(items), m)
          /\ Returns(t, "Evicted")
          /\ UNCHANGED <<closed, receiving, sending, arg>>

Close(t) ==
    /\ Free(t)
    /\ closed' = TRUE
    /\ UNCHANGED <<items, receiving, sending, arg, result>>

-----------------------------------------------------------------------------
Next ==
    \E t \in Threads :
        \/ Recv(t) \/ CompleteRecv(t) \/ TryRecv(t) \/ CompleteSend(t) \/ Close(t)
        \/ \E m \in Messages : Send(t, m) \/ TrySend(t, m) \/ SendDropOldest(t, m)

(* A pending call that could complete does not stay pending while nothing  *)
(* happens: of the pending receivers (senders) one is eventually served.   *)
Fairness ==
    /\ WF_vars(\E t \in Threads : CompleteRecv(t))
    /\ WF_vars(\E t \in Threads : CompleteSend(t))

Spec == Init /\ [][Next]_vars /\ Fairness

=============================================================================
