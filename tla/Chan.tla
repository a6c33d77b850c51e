-------------------------------- MODULE Chan --------------------------------
(***************************************************************************)
(* lin::Chan<T> of include/lin/channel.hpp, at the level of its mutex and  *)
(* its two condition variables.  Every method is one critical section of   *)
(* mu_, so a call that does not wait is one step.  A call that waits       *)
(* releases mu_ inside condition_variable::wait: the thread joins the wait *)
(* set, is moved to the woken set by a notify or spuriously, and runs the  *)
(* predicate again once it gets mu_ back.                                  *)
(***************************************************************************)
EXTENDS Naturals, Sequences, FiniteSets

CONSTANTS Threads, Messages, Capacity, NoMessage

ASSUME ChanAssumption ==
    /\ IsFiniteSet(Threads)
    /\ Capacity \in Nat \ {0}
    /\ NoMessage \notin Messages

VARIABLES
    buf,        \* buf_
    closed,     \* closed_
    recvWait,   \* threads asleep in cv_not_empty_.wait
    recvWoken,  \* threads out of cv_not_empty_.wait's sleep, not yet holding mu_
    sendWait,   \* threads asleep in cv_not_full_.wait
    sendWoken,  \* threads out of cv_not_full_.wait's sleep, not yet holding mu_
    arg,        \* the value parameter of a send() that waits
    result      \* what each thread's last call returned

receivers == <<recvWait, recvWoken>>
senders   == <<sendWait, sendWoken>>
vars == <<buf, closed, recvWait, recvWoken, sendWait, sendWoken, arg, result>>

Outcomes == {"none", "pending", "nullopt", "accepted", "rejected",
             "Ok", "Full", "Closed", "Evicted"}

Waiting == recvWait \cup sendWait
Woken   == recvWoken \cup sendWoken

(* The thread is not inside a call of this channel. *)
Free(t) == t \notin Waiting \cup Woken

(* Mutant: room is tested with <=. *)
HasRoomOffByOne == Len(buf) <= Capacity

HasRoom == Len(buf) < Capacity

Returns(t, r) == result' = [result EXCEPT ![t] = r]

Init ==
    /\ buf = << >>
    /\ closed = FALSE
    /\ recvWait = {} /\ recvWoken = {}
    /\ sendWait = {} /\ sendWoken = {}
    /\ arg = [t \in Threads |-> NoMessage]
    /\ result = [t \in Threads |-> "none"]

-----------------------------------------------------------------------------
(* notify_one: any one sleeping thread is woken, if there is one. *)

NotifyReceiver ==
    \/ recvWait = {} /\ UNCHANGED receivers
    \/ \E r \in recvWait : /\ recvWait' = recvWait \ {r}
                           /\ recvWoken' = recvWoken \cup {r}

NotifySender ==
    \/ sendWait = {} /\ UNCHANGED senders
    \/ \E s \in sendWait : /\ sendWait' = sendWait \ {s}
                           /\ sendWoken' = sendWoken \cup {s}

-----------------------------------------------------------------------------
(* recv() and try_recv() *)

(* Mutant: the sender is told only when the buffer was full. *)
PopFrontNotifyIfFull(t) ==
    /\ buf # << >>
    /\ Returns(t, Head(buf))
    /\ buf' = Tail(buf)
    /\ IF HasRoom THEN UNCHANGED senders ELSE NotifySender

PopFront(t) ==
    /\ buf # << >>
    /\ Returns(t, Head(buf))
    /\ buf' = Tail(buf)
    /\ NotifySender

(* What recv() does each time it holds mu_: leave with an item, leave with *)
(* nullopt, or (go back to) sleep.                                         *)
RecvHoldingMutex(t) ==
    /\ recvWoken' = recvWoken \ {t}
    /\ UNCHANGED <<closed, arg>>
    /\ \/ PopFront(t) /\ UNCHANGED recvWait
       \/ /\ buf = << >> /\ closed
          /\ Returns(t, "nullopt")
          /\ UNCHANGED <<buf, recvWait, sendWait, sendWoken>>
       \/ /\ buf = << >> /\ ~closed
          /\ Returns(t, "pending")
          /\ recvWait' = recvWait \cup {t}
          /\ UNCHANGED <<buf, sendWait, sendWoken>>

Recv(t) == Free(t) /\ RecvHoldingMutex(t)

(* Mutant: wait() without its predicate, so a woken recv() that finds the  *)
(* buffer empty takes the wakeup for a close.                              *)
ResumeRecvNoPredicate(t) ==
    /\ t \in recvWoken
    /\ \/ buf # << >> /\ RecvHoldingMutex(t)
       \/ /\ buf = << >>
          /\ Returns(t, "nullopt")
          /\ recvWoken' = recvWoken \ {t}
          /\ UNCHANGED <<buf, closed, recvWait, sendWait, sendWoken, arg>>

ResumeRecv(t) == t \in recvWoken /\ RecvHoldingMutex(t)

TryRecv(t) ==
    /\ Free(t)
    /\ UNCHANGED <<closed, recvWait, recvWoken, arg>>
    /\ \/ PopFront(t)
       \/ /\ buf = << >>
          /\ Returns(t, "nullopt")
          /\ UNCHANGED <<buf, sendWait, sendWoken>>

-----------------------------------------------------------------------------
(* send(), try_send() and send_drop_oldest() *)

(* Mutant: a receiver is told only when the buffer was empty. *)
PushBackNotifyIfEmpty(m) ==
    /\ buf' = Append(buf, m)
    /\ IF buf = << >> THEN NotifyReceiver ELSE UNCHANGED receivers

PushBack(m) == buf' = Append(buf, m) /\ NotifyReceiver

SendHoldingMutex(t, m) ==
    /\ sendWoken' = sendWoken \ {t}
    /\ UNCHANGED closed
    /\ \/ /\ closed
          /\ Returns(t, "rejected")
          /\ arg' = [arg EXCEPT ![t] = NoMessage]
          /\ UNCHANGED <<buf, recvWait, recvWoken, sendWait>>
       \/ /\ ~closed /\ HasRoom
          /\ PushBack(m)
          /\ Returns(t, "accepted")
          /\ arg' = [arg EXCEPT ![t] = NoMessage]
          /\ UNCHANGED sendWait
       \/ /\ ~closed /\ ~HasRoom
          /\ Returns(t, "pending")
          /\ arg' = [arg EXCEPT ![t] = m]
          /\ sendWait' = sendWait \cup {t}
          /\ UNCHANGED <<buf, recvWait, recvWoken>>

Send(t, m) == Free(t) /\ SendHoldingMutex(t, m)

ResumeSend(t) == t \in sendWoken /\ SendHoldingMutex(t, arg[t])

Refuse(t, r) == Returns(t, r) /\ UNCHANGED <<buf, recvWait, recvWoken>>

TrySend(t, m) ==
    /\ Free(t)
    /\ UNCHANGED <<closed, sendWait, sendWoken, arg>>
    /\ \/ closed /\ Refuse(t, "Closed")
       \/ ~closed /\ ~HasRoom /\ Refuse(t, "Full")
       \/ ~closed /\ HasRoom /\ PushBack(m) /\ Returns(t, "Ok")

(* Evicting the head makes the room the new item takes, so cv_not_full_    *)
(* is not notified.                                                        *)
SendDropOldest(t, m) ==
    /\ Free(t)
    /\ UNCHANGED <<closed, sendWait, sendWoken, arg>>
    /\ \/ closed /\ Refuse(t, "Closed")
       \/ ~closed /\ HasRoom /\ PushBack(m) /\ Returns(t, "Ok")
       \/ /\ ~closed /\ ~HasRoom
          /\ buf' = Append(Tail(buf), m)
          /\ NotifyReceiver
          /\ Returns(t, "Evicted")

-----------------------------------------------------------------------------
(* Mutant: close() forgets the threads blocked in send(). *)
CloseForgetsSenders(t) ==
    /\ Free(t)
    /\ closed' = TRUE
    /\ recvWoken' = recvWoken \cup recvWait /\ recvWait' = {}
    /\ UNCHANGED <<buf, sendWait, sendWoken, arg, result>>

(* close(), by any thread that shares the channel: notify_all on both      *)
(* condition variables.  It is idempotent.                                 *)
Close(t) ==
    /\ Free(t)
    /\ closed' = TRUE
    /\ recvWoken' = recvWoken \cup recvWait /\ recvWait' = {}
    /\ sendWoken' = sendWoken \cup sendWait /\ sendWait' = {}
    /\ UNCHANGED <<buf, arg, result>>

(* condition_variable::wait may return without a notification; the         *)
(* predicate given to wait() sends the thread back to sleep.               *)
SpuriousWakeup(t) ==
    /\ \/ /\ t \in recvWait
          /\ recvWait' = recvWait \ {t} /\ recvWoken' = recvWoken \cup {t}
          /\ UNCHANGED senders
       \/ /\ t \in sendWait
          /\ sendWait' = sendWait \ {t} /\ sendWoken' = sendWoken \cup {t}
          /\ UNCHANGED receivers
    /\ UNCHANGED <<buf, closed, arg, result>>

-----------------------------------------------------------------------------
Next ==
    \E t \in Threads :
        \/ Recv(t) \/ ResumeRecv(t) \/ TryRecv(t) \/ ResumeSend(t)
        \/ Close(t) \/ SpuriousWakeup(t)
        \/ \E m \in Messages : Send(t, m) \/ TrySend(t, m) \/ SendDropOldest(t, m)

(* A woken thread contends for mu_, which every method releases; it gets   *)
(* it eventually.  Nothing makes a thread start a call.                    *)
Fairness == \A t \in Threads : WF_vars(ResumeRecv(t)) /\ WF_vars(ResumeSend(t))

Spec == Init /\ [][Next]_vars /\ Fairness

-----------------------------------------------------------------------------
(* Type invariant.  buf_ never exceeds capacity_ whatever mix of send(),   *)
(* try_send() and send_drop_oldest() fills it; a thread is in one place    *)
(* only; a blocked send() still holds its value.                           *)
TypeOK ==
    /\ buf \in Seq(Messages) /\ Len(buf) <= Capacity
    /\ closed \in BOOLEAN
    /\ recvWait \subseteq Threads /\ recvWoken \subseteq Threads
    /\ sendWait \subseteq Threads /\ sendWoken \subseteq Threads
    /\ recvWait \cap recvWoken = {}
    /\ sendWait \cap sendWoken = {}
    /\ (recvWait \cup recvWoken) \cap (sendWait \cup sendWoken) = {}
    /\ arg \in [Threads -> Messages \cup {NoMessage}]
    /\ \A t \in sendWait \cup sendWoken : arg[t] \in Messages
    /\ result \in [Threads -> Messages \cup Outcomes]
    /\ \A t \in Waiting \cup Woken : result[t] = "pending"

(* No lost wakeup for receivers.  notify_one wakes one thread per item and *)
(* an awake recv() or try_recv() may steal the item first; nevertheless,   *)
(* while a receiver sleeps, every buffered item has a woken receiver of    *)
(* its own on the way to take it.                                          *)
NoStrandedReceiver ==
    recvWait # {} => Len(buf) <= Cardinality(recvWoken)

(* No lost wakeup for senders.  While a send() sleeps under the Block      *)
(* policy, every free slot has a woken sender of its own on the way to     *)
(* fill it, although try_send() and send_drop_oldest() may take the slot   *)
(* first and an eviction notifies nobody.                                  *)
NoStrandedSender ==
    sendWait # {} => Capacity - Len(buf) <= Cardinality(sendWoken)

(* close() leaves nobody asleep on either condition variable, and nobody   *)
(* goes to sleep on a closed channel.                                      *)
NoSleeperAfterClose == closed => Waiting = {}

(* The condition variables are invisible to the callers: the class is the  *)
(* closable FIFO queue of FifoChannel, a woken or sleeping thread being a  *)
(* pending call.  This includes that queue's liveness: an item (a free     *)
(* slot) does not sit there while every receiver (sender) stays blocked,   *)
(* and close() releases every blocked call.                                *)
Fifo == INSTANCE FifoChannel WITH
            items <- buf,
            receiving <- recvWait \cup recvWoken,
            sending <- sendWait \cup sendWoken

ImplementsFifo == Fifo!Spec

=============================================================================
