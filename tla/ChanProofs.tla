----------------------------- MODULE ChanProofs -----------------------------
(***************************************************************************)
(* Proofs about Chan, for every finite set of threads, every set of        *)
(* messages and every capacity.  The inductive invariant is IInv: TLC      *)
(* checks its conjuncts on the instances of MCChan.                        *)
(***************************************************************************)
EXTENDS Chan, FiniteSetTheorems, SequenceTheorems, TLAPS

IInv == TypeOK /\ NoSleeperAfterClose /\ NoStrandedReceiver /\ NoStrandedSender

-----------------------------------------------------------------------------
(* Type correctness *)

(* The critical section of recv() keeps the types, whether the thread      *)
(* enters it from the outside or out of the wait.                          *)
LEMMA RecvHoldingMutexType ==
    ASSUME TypeOK, NEW t \in Threads, t \notin Waiting \cup sendWoken,
           RecvHoldingMutex(t)
    PROVE  TypeOK'
<1> USE ChanAssumption DEF TypeOK, RecvHoldingMutex, Waiting, Woken, Outcomes, Returns,
        senders
<1>1. CASE PopFront(t) /\ UNCHANGED recvWait
  BY <1>1 DEF PopFront, NotifySender
<1>2. CASE buf = << >> /\ UNCHANGED <<buf, recvWait, sendWait, sendWoken>>
           /\ Returns(t, "nullopt")
  BY <1>2
<1>3. CASE /\ buf = << >> /\ UNCHANGED <<buf, sendWait, sendWoken>>
           /\ recvWait' = recvWait \cup {t} /\ Returns(t, "pending")
  BY <1>3
<1> QED BY <1>1, <1>2, <1>3

(* The same for the critical section of send(). *)
LEMMA SendHoldingMutexType ==
    ASSUME TypeOK, NEW t \in Threads, t \notin Waiting \cup recvWoken,
           NEW m \in Messages, SendHoldingMutex(t, m)
    PROVE  TypeOK'
<1> USE ChanAssumption DEF TypeOK, SendHoldingMutex, Waiting, Woken, Outcomes, Returns,
        receivers
<1>1. CASE /\ Returns(t, "rejected") /\ arg' = [arg EXCEPT ![t] = NoMessage]
           /\ UNCHANGED <<buf, recvWait, recvWoken, sendWait>>
  BY <1>1
<1>2. CASE /\ HasRoom /\ PushBack(m) /\ Returns(t, "accepted")
           /\ arg' = [arg EXCEPT ![t] = NoMessage] /\ UNCHANGED sendWait
  BY <1>2 DEF HasRoom, PushBack, NotifyReceiver
<1>3. CASE /\ Returns(t, "pending") /\ arg' = [arg EXCEPT ![t] = m]
           /\ sendWait' = sendWait \cup {t}
           /\ UNCHANGED <<buf, recvWait, recvWoken>>
  BY <1>3
<1> QED BY <1>1, <1>2, <1>3

(* Every step keeps the types. *)
LEMMA TypeStep == TypeOK /\ [Next]_vars => TypeOK'
<1> SUFFICES ASSUME TypeOK, [Next]_vars PROVE TypeOK'
  OBVIOUS
<1> USE ChanAssumption DEF Waiting, Woken, Outcomes, Returns, receivers, senders
<1>1. ASSUME NEW t \in Threads, Recv(t) PROVE TypeOK'
  BY <1>1, RecvHoldingMutexType DEF Recv, Free
<1>2. ASSUME NEW t \in Threads, ResumeRecv(t) PROVE TypeOK'
  BY <1>2, RecvHoldingMutexType DEF ResumeRecv, TypeOK
<1>3. ASSUME NEW t \in Threads, TryRecv(t) PROVE TypeOK'
  BY <1>3 DEF TryRecv, Free, PopFront, NotifySender, TypeOK
<1>4. ASSUME NEW t \in Threads, ResumeSend(t) PROVE TypeOK'
  BY <1>4, SendHoldingMutexType DEF ResumeSend, TypeOK
<1>5. ASSUME NEW t \in Threads, Close(t) PROVE TypeOK'
  BY <1>5 DEF Close, TypeOK
<1>6. ASSUME NEW t \in Threads, SpuriousWakeup(t) PROVE TypeOK'
  BY <1>6 DEF SpuriousWakeup, TypeOK
<1>7. ASSUME NEW t \in Threads, NEW m \in Messages, Send(t, m) PROVE TypeOK'
  BY <1>7, SendHoldingMutexType DEF Send, Free
<1>8. ASSUME NEW t \in Threads, NEW m \in Messages, TrySend(t, m) PROVE TypeOK'
  BY <1>8 DEF TrySend, Free, Refuse, PushBack, NotifyReceiver, HasRoom, TypeOK
<1>9. ASSUME NEW t \in Threads, NEW m \in Messages, SendDropOldest(t, m) PROVE TypeOK'
  <2> t \notin Waiting \cup Woken /\ UNCHANGED <<closed, sendWait, sendWoken, arg>>
    BY <1>9 DEF SendDropOldest, Free
  <2>1. CASE Refuse(t, "Closed")
    BY <2>1 DEF Refuse, TypeOK
  <2>2. CASE HasRoom /\ PushBack(m) /\ Returns(t, "Ok")
    BY <2>2 DEF PushBack, NotifyReceiver, HasRoom, TypeOK
  <2>3. CASE /\ ~HasRoom /\ buf' = Append(Tail(buf), m)
             /\ NotifyReceiver /\ Returns(t, "Evicted")
    <3>1. buf' \in Seq(Messages) /\ Len(buf') = Len(buf)
      <4>1. buf # << >>
        BY <2>3 DEF HasRoom, TypeOK
      <4> QED BY <2>3, <4>1, HeadTailProperties, AppendProperties DEF TypeOK
    <3> QED BY <2>3, <3>1 DEF NotifyReceiver, TypeOK
  <2> QED BY <1>9, <2>1, <2>2, <2>3 DEF SendDropOldest
<1>10. CASE UNCHANGED vars
  BY <1>10 DEF vars, TypeOK
<1> QED BY <1>1, <1>2, <1>3, <1>4, <1>5, <1>6, <1>7, <1>8, <1>9, <1>10 DEF Next

-----------------------------------------------------------------------------
(* Counting the woken threads *)

LEMMA WokenFinite ==
    ASSUME TypeOK
    PROVE  /\ IsFiniteSet(recvWoken) /\ Cardinality(recvWoken) \in Nat
           /\ IsFiniteSet(sendWoken) /\ Cardinality(sendWoken) \in Nat
<1>1. IsFiniteSet(recvWoken) /\ IsFiniteSet(sendWoken)
  BY ChanAssumption, FS_Subset DEF TypeOK
<1> QED BY <1>1, FS_CardinalityType

LEMMA PopLength ==
    ASSUME TypeOK, buf # << >>
    PROVE  Len(Tail(buf)) = Len(buf) - 1 /\ Len(buf) \in Nat /\ Len(buf) > 0
BY HeadTailProperties, LenProperties, EmptySeq DEF TypeOK

LEMMA PushLength ==
    ASSUME TypeOK, NEW m \in Messages
    PROVE  Len(Append(buf, m)) = Len(buf) + 1 /\ Len(buf) \in Nat
BY AppendProperties, LenProperties DEF TypeOK

LEMMA EvictLength ==
    ASSUME TypeOK, NEW m \in Messages, ~HasRoom
    PROVE  Len(Append(Tail(buf), m)) = Len(buf) /\ Len(buf) = Capacity
<1>1. buf # << >> /\ Len(buf) = Capacity
  BY ChanAssumption DEF TypeOK, HasRoom
<1> QED BY <1>1, HeadTailProperties, AppendProperties DEF TypeOK

-----------------------------------------------------------------------------
(* No receiver is stranded *)

(* Taking one thread out of a finite set costs at most one.                *)
LEMMA RemoveOne ==
    ASSUME NEW S, IsFiniteSet(S), NEW x
    PROVE  /\ Cardinality(S \ {x}) \in Nat /\ Cardinality(S) \in Nat
           /\ Cardinality(S \ {x}) >= Cardinality(S) - 1
<1>1. IsFiniteSet(S \ {x})
      /\ Cardinality(S \ {x}) = IF x \in S THEN Cardinality(S) - 1 ELSE Cardinality(S)
  BY FS_RemoveElement
<1>2. Cardinality(S \ {x}) \in Nat /\ Cardinality(S) \in Nat
  BY <1>1, FS_CardinalityType
<1> QED BY <1>1, <1>2

(* A push that notifies: one more item, one more woken receiver if any     *)
(* receiver sleeps.                                                        *)
LEMMA NotifyKeepsReceivers ==
    ASSUME TypeOK, NoStrandedReceiver, NotifyReceiver,
           Len(buf') \in Nat, Len(buf) \in Nat, Len(buf') <= Len(buf) + 1
    PROVE  NoStrandedReceiver'
<1>1. CASE recvWait = {} /\ UNCHANGED receivers
  BY <1>1 DEF NoStrandedReceiver, receivers
<1>2. ASSUME NEW r \in recvWait,
             recvWait' = recvWait \ {r}, recvWoken' = recvWoken \cup {r}
      PROVE  NoStrandedReceiver'
  <2>1. r \notin recvWoken
    BY <1>2 DEF TypeOK
  <2>2. Cardinality(recvWoken') = Cardinality(recvWoken) + 1
    BY <1>2, <2>1, WokenFinite, FS_AddElement
  <2>3. Len(buf) <= Cardinality(recvWoken)
    BY <1>2 DEF NoStrandedReceiver
  <2> QED BY <2>2, <2>3, WokenFinite DEF NoStrandedReceiver
<1> QED BY <1>1, <1>2 DEF NotifyReceiver

(* A receiver that runs: it takes an item with it, or it found none.       *)
LEMMA RecvKeepsReceivers ==
    ASSUME TypeOK, TypeOK', NoStrandedReceiver, NEW t \in Threads, RecvHoldingMutex(t)
    PROVE  NoStrandedReceiver'
<1>1. CASE PopFront(t) /\ UNCHANGED recvWait
  <2>1. Len(buf') = Len(buf) - 1 /\ Len(buf) \in Nat
    BY <1>1, PopLength DEF PopFront
  <2>2. recvWoken' = recvWoken \ {t}
    BY DEF RecvHoldingMutex
  <2>3. /\ Cardinality(recvWoken') \in Nat /\ Cardinality(recvWoken) \in Nat
        /\ Cardinality(recvWoken') >= Cardinality(recvWoken) - 1
    BY <2>2, WokenFinite, RemoveOne
  <2> QED BY <1>1, <2>1, <2>3 DEF NoStrandedReceiver
<1>2. CASE buf' = << >>
  <2>1. Cardinality(recvWoken') \in Nat
    BY WokenFinite, RemoveOne DEF RecvHoldingMutex
  <2> QED BY <1>2, <2>1 DEF NoStrandedReceiver
<1> QED BY <1>1, <1>2 DEF RecvHoldingMutex

LEMMA SendKeepsReceivers ==
    ASSUME TypeOK, NoStrandedReceiver, NEW t \in Threads, NEW m \in Messages,
           SendHoldingMutex(t, m)
    PROVE  NoStrandedReceiver'
<1>1. CASE UNCHANGED <<buf, recvWait, recvWoken>>
  BY <1>1 DEF NoStrandedReceiver
<1>2. CASE PushBack(m)
  <2>1. Len(buf') = Len(buf) + 1 /\ Len(buf) \in Nat /\ NotifyReceiver
    BY <1>2, PushLength DEF PushBack
  <2> QED BY <2>1, NotifyKeepsReceivers
<1> QED BY <1>1, <1>2 DEF SendHoldingMutex

LEMMA ReceiverStep ==
    TypeOK /\ TypeOK' /\ NoStrandedReceiver /\ [Next]_vars => NoStrandedReceiver'
<1> SUFFICES ASSUME TypeOK, TypeOK', NoStrandedReceiver, [Next]_vars
             PROVE  NoStrandedReceiver'
  OBVIOUS
<1>1. ASSUME NEW t \in Threads, Recv(t) \/ ResumeRecv(t) PROVE NoStrandedReceiver'
  BY <1>1, RecvKeepsReceivers DEF Recv, ResumeRecv
<1>2. ASSUME NEW t \in Threads, TryRecv(t) PROVE NoStrandedReceiver'
  <2>1. UNCHANGED <<recvWait, recvWoken>>
    BY <1>2 DEF TryRecv
  <2>2. CASE PopFront(t)
    <3>1. Len(buf') <= Len(buf) /\ Len(buf') \in Nat /\ Len(buf) \in Nat
      BY <2>2, PopLength DEF PopFront
    <3> QED BY <2>1, <3>1, WokenFinite DEF NoStrandedReceiver
  <2>3. CASE UNCHANGED buf
    BY <2>1, <2>3 DEF NoStrandedReceiver
  <2> QED BY <1>2, <2>2, <2>3 DEF TryRecv
<1>3. ASSUME NEW t \in Threads, ResumeSend(t) PROVE NoStrandedReceiver'
  BY <1>3, SendKeepsReceivers DEF ResumeSend, TypeOK
<1>4. ASSUME NEW t \in Threads, Close(t) PROVE NoStrandedReceiver'
  BY <1>4 DEF Close, NoStrandedReceiver
<1>5. ASSUME NEW t \in Threads, SpuriousWakeup(t) PROVE NoStrandedReceiver'
  <2>1. CASE UNCHANGED receivers
    BY <1>5, <2>1 DEF SpuriousWakeup, receivers, NoStrandedReceiver
  <2>2. CASE t \in recvWait /\ recvWait' = recvWait \ {t} /\ recvWoken' = recvWoken \cup {t}
    <3>1. NotifyReceiver
      BY <2>2 DEF NotifyReceiver
    <3>2. buf' = buf /\ Len(buf) \in Nat
      BY <1>5 DEF SpuriousWakeup, TypeOK
    <3> QED BY <3>1, <3>2, NotifyKeepsReceivers
  <2> QED BY <1>5, <2>1, <2>2 DEF SpuriousWakeup
<1>6. ASSUME NEW t \in Threads, NEW m \in Messages, Send(t, m) PROVE NoStrandedReceiver'
  BY <1>6, SendKeepsReceivers DEF Send
<1>7. ASSUME NEW t \in Threads, NEW m \in Messages,
             TrySend(t, m) \/ SendDropOldest(t, m)
      PROVE  NoStrandedReceiver'
  <2>1. CASE UNCHANGED <<buf, recvWait, recvWoken>>
    BY <2>1 DEF NoStrandedReceiver
  <2>2. CASE PushBack(m)
    BY <2>2, PushLength, NotifyKeepsReceivers DEF PushBack
  <2>3. CASE ~HasRoom /\ buf' = Append(Tail(buf), m) /\ NotifyReceiver
    <3>1. Len(buf') = Len(buf) /\ Len(buf) \in Nat
      BY <2>3, EvictLength, ChanAssumption
    <3> QED BY <2>3, <3>1, NotifyKeepsReceivers
  <2> QED BY <1>7, <2>1, <2>2, <2>3 DEF TrySend, SendDropOldest, Refuse
<1>8. CASE UNCHANGED vars
  BY <1>8 DEF vars, NoStrandedReceiver
<1> QED BY <1>1, <1>2, <1>3, <1>4, <1>5, <1>6, <1>7, <1>8 DEF Next

-----------------------------------------------------------------------------
(* No sender is stranded: the same argument over the free slots. *)

LEMMA NotifyKeepsSenders ==
    ASSUME TypeOK, NoStrandedSender, NotifySender,
           Len(buf') \in Nat, Len(buf) \in Nat, Len(buf) <= Len(buf') + 1
    PROVE  NoStrandedSender'
<1>1. CASE sendWait = {} /\ UNCHANGED senders
  BY <1>1 DEF NoStrandedSender, senders
<1>2. ASSUME NEW s \in sendWait,
             sendWait' = sendWait \ {s}, sendWoken' = sendWoken \cup {s}
      PROVE  NoStrandedSender'
  <2>1. s \notin sendWoken
    BY <1>2 DEF TypeOK
  <2>2. Cardinality(sendWoken') = Cardinality(sendWoken) + 1
    BY <1>2, <2>1, WokenFinite, FS_AddElement
  <2>3. Capacity - Len(buf) <= Cardinality(sendWoken)
    BY <1>2 DEF NoStrandedSender
  <2> QED BY <2>2, <2>3, WokenFinite, ChanAssumption DEF NoStrandedSender
<1> QED BY <1>1, <1>2 DEF NotifySender

(* A sender that runs: it fills a slot, or there was none, or the channel  *)
(* is closed and nobody sleeps.                                            *)
LEMMA SendKeepsSenders ==
    ASSUME TypeOK, NoStrandedSender, NoSleeperAfterClose,
           NEW t \in Threads, NEW m \in Messages, SendHoldingMutex(t, m)
    PROVE  NoStrandedSender'
<1>1. /\ Cardinality(sendWoken') \in Nat /\ Cardinality(sendWoken) \in Nat
      /\ Cardinality(sendWoken') >= Cardinality(sendWoken) - 1
  <2>1. sendWoken' = sendWoken \ {t}
    BY DEF SendHoldingMutex
  <2> QED BY <2>1, WokenFinite, RemoveOne
<1>2. CASE closed /\ UNCHANGED sendWait
  BY <1>2 DEF NoStrandedSender, NoSleeperAfterClose, Waiting
<1>3. CASE PushBack(m) /\ UNCHANGED sendWait
  <2>1. Len(buf') = Len(buf) + 1 /\ Len(buf) \in Nat
    BY <1>3, PushLength DEF PushBack
  <2> QED BY <1>1, <1>3, <2>1, ChanAssumption DEF NoStrandedSender
<1>4. CASE ~HasRoom /\ UNCHANGED buf
  <2>1. Capacity - Len(buf') = 0
    BY <1>4, ChanAssumption DEF HasRoom, TypeOK
  <2> QED BY <1>1, <2>1 DEF NoStrandedSender
<1> QED BY <1>2, <1>3, <1>4 DEF SendHoldingMutex

LEMMA RecvKeepsSenders ==
    ASSUME TypeOK, NoStrandedSender, NEW t \in Threads, RecvHoldingMutex(t)
    PROVE  NoStrandedSender'
<1>1. CASE PopFront(t)
  <2>1. Len(buf') = Len(buf) - 1 /\ Len(buf) \in Nat /\ Len(buf) > 0 /\ NotifySender
    BY <1>1, PopLength DEF PopFront
  <2> QED BY <2>1, NotifyKeepsSenders
<1>2. CASE UNCHANGED <<buf, sendWait, sendWoken>>
  BY <1>2 DEF NoStrandedSender
<1> QED BY <1>1, <1>2 DEF RecvHoldingMutex

LEMMA SenderStep ==
    TypeOK /\ NoSleeperAfterClose /\ NoStrandedSender /\ [Next]_vars => NoStrandedSender'
<1> SUFFICES ASSUME TypeOK, NoSleeperAfterClose, NoStrandedSender, [Next]_vars
             PROVE  NoStrandedSender'
  OBVIOUS
<1>1. ASSUME NEW t \in Threads, Recv(t) \/ ResumeRecv(t) PROVE NoStrandedSender'
  BY <1>1, RecvKeepsSenders DEF Recv, ResumeRecv
<1>2. ASSUME NEW t \in Threads, TryRecv(t) PROVE NoStrandedSender'
  <2>1. CASE PopFront(t)
    <3>1. Len(buf') = Len(buf) - 1 /\ Len(buf) \in Nat /\ Len(buf) > 0 /\ NotifySender
      BY <2>1, PopLength DEF PopFront
    <3> QED BY <3>1, NotifyKeepsSenders
  <2>2. CASE UNCHANGED <<buf, sendWait, sendWoken>>
    BY <2>2 DEF NoStrandedSender
  <2> QED BY <1>2, <2>1, <2>2 DEF TryRecv
<1>3. ASSUME NEW t \in Threads, ResumeSend(t) PROVE NoStrandedSender'
  BY <1>3, SendKeepsSenders DEF ResumeSend, TypeOK
<1>4. ASSUME NEW t \in Threads, Close(t) PROVE NoStrandedSender'
  BY <1>4 DEF Close, NoStrandedSender
<1>5. ASSUME NEW t \in Threads, SpuriousWakeup(t) PROVE NoStrandedSender'
  <2>1. CASE UNCHANGED senders
    BY <1>5, <2>1 DEF SpuriousWakeup, senders, NoStrandedSender
  <2>2. CASE t \in sendWait /\ sendWait' = sendWait \ {t} /\ sendWoken' = sendWoken \cup {t}
    <3>1. NotifySender
      BY <2>2 DEF NotifySender
    <3>2. buf' = buf /\ Len(buf) \in Nat
      BY <1>5 DEF SpuriousWakeup, TypeOK
    <3> QED BY <3>1, <3>2, NotifyKeepsSenders
  <2> QED BY <1>5, <2>1, <2>2 DEF SpuriousWakeup
<1>6. ASSUME NEW t \in Threads, NEW m \in Messages, Send(t, m) PROVE NoStrandedSender'
  BY <1>6, SendKeepsSenders DEF Send
<1>7. ASSUME NEW t \in Threads, NEW m \in Messages,
             TrySend(t, m) \/ SendDropOldest(t, m)
      PROVE  NoStrandedSender'
  <2>1. UNCHANGED <<sendWait, sendWoken>>
    BY <1>7 DEF TrySend, SendDropOldest
  <2>2. Len(buf') >= Len(buf) /\ Len(buf') \in Nat /\ Len(buf) \in Nat
    <3>1. CASE UNCHANGED buf
      BY <3>1 DEF TypeOK
    <3>2. CASE PushBack(m)
      BY <3>2, PushLength DEF PushBack
    <3>3. CASE ~HasRoom /\ buf' = Append(Tail(buf), m)
      BY <3>3, EvictLength, ChanAssumption
    <3> QED BY <1>7, <3>1, <3>2, <3>3 DEF TrySend, SendDropOldest, Refuse
  <2> QED BY <2>1, <2>2, WokenFinite, ChanAssumption DEF NoStrandedSender
<1>8. CASE UNCHANGED vars
  BY <1>8 DEF vars, NoStrandedSender
<1> QED BY <1>1, <1>2, <1>3, <1>4, <1>5, <1>6, <1>7, <1>8 DEF Next

-----------------------------------------------------------------------------
(* Nobody sleeps on a closed channel. *)

LEMMA CloseStep == NoSleeperAfterClose /\ [Next]_vars => NoSleeperAfterClose'
<1> SUFFICES ASSUME NoSleeperAfterClose, [Next]_vars PROVE NoSleeperAfterClose'
  OBVIOUS
<1> USE DEF NoSleeperAfterClose, Waiting
<1>1. ASSUME NEW t \in Threads, Recv(t) \/ ResumeRecv(t) \/ TryRecv(t)
      PROVE  NoSleeperAfterClose'
  BY <1>1 DEF Recv, ResumeRecv, TryRecv, RecvHoldingMutex, PopFront, NotifySender, senders
<1>2. ASSUME NEW t \in Threads, Close(t) \/ SpuriousWakeup(t)
      PROVE  NoSleeperAfterClose'
  BY <1>2 DEF Close, SpuriousWakeup, senders, receivers
<1>3. ASSUME NEW t \in Threads, NEW m, SendHoldingMutex(t, m) \/ TrySend(t, m)
                                       \/ SendDropOldest(t, m)
      PROVE  NoSleeperAfterClose'
  BY <1>3 DEF SendHoldingMutex, TrySend, SendDropOldest, Refuse, PushBack,
              NotifyReceiver, receivers
<1>4. CASE UNCHANGED vars
  BY <1>4 DEF vars
<1> QED BY <1>1, <1>2, <1>3, <1>4 DEF Next, Send, ResumeSend

-----------------------------------------------------------------------------
(* The theorems *)

LEMMA InitIInv == Init => IInv
<1> SUFFICES ASSUME Init PROVE IInv
  OBVIOUS
<1>1. buf \in Seq(Messages) /\ Len(buf) <= Capacity
  BY EmptySeq, ChanAssumption DEF Init
<1>2. TypeOK
  BY <1>1 DEF Init, TypeOK, Outcomes, Waiting, Woken
<1> QED BY <1>2 DEF Init, IInv, NoSleeperAfterClose, NoStrandedReceiver,
                    NoStrandedSender, Waiting

LEMMA NextIInv == IInv /\ [Next]_vars => IInv'
BY TypeStep, CloseStep, ReceiverStep, SenderStep DEF IInv

(* IInv is an invariant of the class.                                      *)
THEOREM Invariance == Spec => []IInv
BY InitIInv, NextIInv, PTL DEF Spec

(* Every reachable state of the channel is well typed, its buffer within   *)
(* its capacity: TypeOK.                                                   *)
THEOREM TypeCorrect == Spec => []TypeOK
<1>1. IInv => TypeOK
  BY DEF IInv
<1> QED BY <1>1, Invariance, PTL

(* notify_one on every push is enough for the receivers, with any number   *)
(* of threads mixing blocking and non-blocking calls.                      *)
THEOREM ReceiversNotStranded == Spec => []NoStrandedReceiver
<1>1. IInv => NoStrandedReceiver
  BY DEF IInv
<1> QED BY <1>1, Invariance, PTL

(* notify_one on every pop is enough for the senders.                      *)
THEOREM SendersNotStranded == Spec => []NoStrandedSender
<1>1. IInv => NoStrandedSender
  BY DEF IInv
<1> QED BY <1>1, Invariance, PTL

(* After close() nobody sleeps in the channel.                             *)
THEOREM CloseWakesAll == Spec => []NoSleeperAfterClose
<1>1. IInv => NoSleeperAfterClose
  BY DEF IInv
<1> QED BY <1>1, Invariance, PTL

-----------------------------------------------------------------------------
(* Refinement: every step of Chan is a step of FifoChannel or invisible.   *)

LEMMA FreeIsFree == ASSUME NEW t PROVE Free(t) <=> Fifo!Free(t)
BY DEF Free, Fifo!Free, Waiting, Woken

(* A receiver that holds the mutex does what the queue lets it do; one     *)
(* that goes back to sleep stays pending.                                  *)
LEMMA RecvRefines ==
    ASSUME TypeOK, TypeOK', NEW t \in Threads, RecvHoldingMutex(t),
           t \notin Waiting \cup sendWoken
    PROVE  \/ Fifo!Take(t) \/ Fifo!EndOfStream(t)
           \/ Fifo!BeginWaitingForItem(t)
<1>1. CASE PopFront(t) /\ UNCHANGED recvWait
  <2>1. sendWait' \cup sendWoken' = sendWait \cup sendWoken
    BY <1>1 DEF PopFront, NotifySender, senders
  <2>2. recvWait' \cup recvWoken' = (recvWait \cup recvWoken) \ {t}
    BY <1>1 DEF RecvHoldingMutex, Waiting
  <2> QED BY <1>1, <2>1, <2>2 DEF PopFront, RecvHoldingMutex, Returns, Fifo!Take,
                                  Fifo!Returns
<1>2. CASE buf = << >> /\ closed /\ Returns(t, "nullopt")
           /\ UNCHANGED <<buf, recvWait, sendWait, sendWoken>>
  <2>1. recvWait' \cup recvWoken' = (recvWait \cup recvWoken) \ {t}
    BY <1>2 DEF RecvHoldingMutex, Waiting
  <2> QED BY <1>2, <2>1 DEF RecvHoldingMutex, Returns, Fifo!EndOfStream, Fifo!Returns
<1>3. CASE /\ buf = << >> /\ ~closed /\ Returns(t, "pending")
           /\ recvWait' = recvWait \cup {t} /\ UNCHANGED <<buf, sendWait, sendWoken>>
  <2>1. recvWait' \cup recvWoken' = (recvWait \cup recvWoken) \cup {t}
    BY <1>3 DEF RecvHoldingMutex
  <2> QED BY <1>3, <2>1 DEF RecvHoldingMutex, Returns, Fifo!BeginWaitingForItem,
                            Fifo!Returns
<1> QED BY <1>1, <1>2, <1>3 DEF RecvHoldingMutex

LEMMA PushRefines ==
    ASSUME NEW m \in Messages, NEW t \in Threads, ~closed, HasRoom, PushBack(m),
           NEW r, Returns(t, r), UNCHANGED closed
    PROVE  Fifo!Enqueue(t, m, r)
<1>1. recvWait' \cup recvWoken' = recvWait \cup recvWoken
  BY DEF PushBack, NotifyReceiver, receivers
<1> QED BY <1>1 DEF PushBack, HasRoom, Returns, Fifo!Enqueue, Fifo!HasRoom, Fifo!Returns

LEMMA SendRefines ==
    ASSUME TypeOK, NEW t \in Threads, NEW m \in Messages, SendHoldingMutex(t, m),
           t \notin Waiting \cup recvWoken
    PROVE  \/ Fifo!Accept(t, m) \/ Fifo!Reject(t)
           \/ Fifo!BeginWaitingForRoom(t, m)
<1>1. CASE /\ closed /\ Returns(t, "rejected") /\ arg' = [arg EXCEPT ![t] = NoMessage]
           /\ UNCHANGED <<buf, recvWait, recvWoken, sendWait>>
  <2>1. sendWait' \cup sendWoken' = (sendWait \cup sendWoken) \ {t}
    BY <1>1 DEF SendHoldingMutex, Waiting
  <2> QED BY <1>1, <2>1 DEF SendHoldingMutex, Returns, Fifo!Reject, Fifo!Returns
<1>2. CASE /\ ~closed /\ HasRoom /\ PushBack(m) /\ Returns(t, "accepted")
           /\ arg' = [arg EXCEPT ![t] = NoMessage] /\ UNCHANGED sendWait
  <2>1. sendWait' \cup sendWoken' = (sendWait \cup sendWoken) \ {t}
    BY <1>2 DEF SendHoldingMutex, Waiting
  <2>2. Fifo!Enqueue(t, m, "accepted")
    BY <1>2, PushRefines DEF SendHoldingMutex
  <2> QED BY <1>2, <2>1, <2>2 DEF Fifo!Accept
<1>3. CASE /\ ~closed /\ ~HasRoom /\ Returns(t, "pending")
           /\ arg' = [arg EXCEPT ![t] = m] /\ sendWait' = sendWait \cup {t}
           /\ UNCHANGED <<buf, recvWait, recvWoken>>
  <2>1. sendWait' \cup sendWoken' = (sendWait \cup sendWoken) \cup {t}
    BY <1>3 DEF SendHoldingMutex
  <2> QED BY <1>3, <2>1 DEF SendHoldingMutex, HasRoom, Returns, Fifo!BeginWaitingForRoom,
                            Fifo!HasRoom, Fifo!Returns
<1> QED BY <1>1, <1>2, <1>3 DEF SendHoldingMutex

LEMMA StepRefines ==
    TypeOK /\ TypeOK' /\ NoSleeperAfterClose /\ [Next]_vars => [Fifo!Next]_(Fifo!vars)
<1> SUFFICES ASSUME TypeOK, TypeOK', NoSleeperAfterClose, [Next]_vars
             PROVE  [Fifo!Next]_(Fifo!vars)
  OBVIOUS
<1>1. ASSUME NEW t \in Threads, Recv(t) PROVE Fifo!Next
  <2>1. Fifo!Free(t) /\ t \notin Waiting \cup sendWoken
    BY <1>1, FreeIsFree DEF Recv, Free, Waiting, Woken
  <2>2. Fifo!Recv(t)
    BY <1>1, <2>1, RecvRefines DEF Recv, Fifo!Recv
  <2> QED BY <2>2 DEF Fifo!Next
<1>2. ASSUME NEW t \in Threads, ResumeRecv(t) PROVE [Fifo!Next]_(Fifo!vars)
  <2>1. t \notin Waiting \cup sendWoken /\ t \in recvWait \cup recvWoken
    BY <1>2 DEF ResumeRecv, TypeOK, Waiting
  <2>2. CASE Fifo!Take(t) \/ Fifo!EndOfStream(t)
    BY <2>1, <2>2 DEF Fifo!CompleteRecv, Fifo!Next
  <2>3. CASE Fifo!BeginWaitingForItem(t)
    <3>1. result' = result
      BY <1>2, <2>3 DEF Fifo!BeginWaitingForItem, Fifo!Returns, ResumeRecv, TypeOK, Woken
    <3> QED BY <2>1, <2>3, <3>1 DEF Fifo!BeginWaitingForItem, Fifo!vars
  <2> QED BY <1>2, <2>1, <2>2, <2>3, RecvRefines DEF ResumeRecv
<1>3. ASSUME NEW t \in Threads, TryRecv(t) PROVE Fifo!Next
  <2>1. Fifo!Free(t) /\ t \notin recvWait \cup recvWoken
    BY <1>3, FreeIsFree DEF TryRecv, Fifo!Free
  <2>2. CASE PopFront(t)
    <3>1. sendWait' \cup sendWoken' = sendWait \cup sendWoken
      BY <2>2 DEF PopFront, NotifySender, senders
    <3>2. Fifo!Take(t)
      BY <1>3, <2>1, <2>2, <3>1 DEF TryRecv, PopFront, Returns, Fifo!Take, Fifo!Returns
    <3> QED BY <2>1, <3>2 DEF Fifo!TryRecv, Fifo!Next
  <2>3. CASE buf = << >> /\ Returns(t, "nullopt") /\ UNCHANGED <<buf, sendWait, sendWoken>>
    BY <1>3, <2>1, <2>3 DEF TryRecv, Returns, Fifo!TryRecv, Fifo!Returns, Fifo!Next
  <2> QED BY <1>3, <2>2, <2>3 DEF TryRecv
<1>4. ASSUME NEW t \in Threads, ResumeSend(t) PROVE [Fifo!Next]_(Fifo!vars)
  <2>1. /\ t \notin Waiting \cup recvWoken /\ t \in sendWait \cup sendWoken
        /\ arg[t] \in Messages
    BY <1>4 DEF ResumeSend, TypeOK, Waiting
  <2>2. CASE Fifo!Accept(t, arg[t]) \/ Fifo!Reject(t)
    BY <2>1, <2>2 DEF Fifo!CompleteSend, Fifo!Next
  <2>3. CASE Fifo!BeginWaitingForRoom(t, arg[t])
    <3>1. result' = result /\ arg' = arg
      BY <1>4, <2>3 DEF Fifo!BeginWaitingForRoom, Fifo!Returns, ResumeSend, TypeOK, Woken
    <3> QED BY <2>1, <2>3, <3>1 DEF Fifo!BeginWaitingForRoom, Fifo!vars
  <2> QED BY <1>4, <2>1, <2>2, <2>3, SendRefines DEF ResumeSend
<1>5. ASSUME NEW t \in Threads, Close(t) PROVE Fifo!Next
  BY <1>5, FreeIsFree DEF Close, Fifo!Close, Fifo!Next
<1>6. ASSUME NEW t \in Threads, SpuriousWakeup(t) PROVE UNCHANGED Fifo!vars
  BY <1>6 DEF SpuriousWakeup, senders, receivers, Fifo!vars
<1>7. ASSUME NEW t \in Threads, NEW m \in Messages, Send(t, m) PROVE Fifo!Next
  <2>1. Fifo!Free(t) /\ t \notin Waiting \cup recvWoken
    BY <1>7, FreeIsFree DEF Send, Free, Waiting, Woken
  <2>2. Fifo!Send(t, m)
    BY <1>7, <2>1, SendRefines DEF Send, Fifo!Send
  <2> QED BY <2>2 DEF Fifo!Next
<1>8. ASSUME NEW t \in Threads, NEW m \in Messages, TrySend(t, m) PROVE Fifo!Next
  <2>1. Fifo!Free(t) /\ UNCHANGED <<closed, sendWait, sendWoken, arg>>
    BY <1>8, FreeIsFree DEF TrySend
  <2>2. CASE ~closed /\ HasRoom /\ PushBack(m) /\ Returns(t, "Ok")
    <3>1. Fifo!Enqueue(t, m, "Ok")
      BY <2>1, <2>2, PushRefines
    <3> QED BY <2>1, <3>1 DEF Fifo!TrySend, Fifo!Next
  <2>3. CASE \/ closed /\ Refuse(t, "Closed")
             \/ ~closed /\ ~HasRoom /\ Refuse(t, "Full")
    BY <2>1, <2>3 DEF Refuse, Returns, HasRoom, Fifo!Refuse, Fifo!Returns, Fifo!HasRoom,
                      Fifo!TrySend, Fifo!Next
  <2> QED BY <1>8, <2>2, <2>3 DEF TrySend
<1>9. ASSUME NEW t \in Threads, NEW m \in Messages, SendDropOldest(t, m) PROVE Fifo!Next
  <2>1. Fifo!Free(t) /\ UNCHANGED <<closed, sendWait, sendWoken, arg>>
    BY <1>9, FreeIsFree DEF SendDropOldest
  <2>2. CASE ~closed /\ HasRoom /\ PushBack(m) /\ Returns(t, "Ok")
    <3>1. Fifo!Enqueue(t, m, "Ok")
      BY <2>1, <2>2, PushRefines
    <3> QED BY <2>1, <3>1 DEF Fifo!SendDropOldest, Fifo!Next
  <2>3. CASE closed /\ Refuse(t, "Closed")
    BY <2>1, <2>3 DEF Refuse, Returns, Fifo!Refuse, Fifo!Returns, Fifo!SendDropOldest,
                      Fifo!Next
  <2>4. CASE /\ ~closed /\ ~HasRoom /\ buf' = Append(Tail(buf), m)
             /\ NotifyReceiver /\ Returns(t, "Evicted")
    <3>1. recvWait' \cup recvWoken' = recvWait \cup recvWoken
      BY <2>4 DEF NotifyReceiver, receivers
    <3> QED BY <2>1, <2>4, <3>1 DEF Returns, HasRoom, Fifo!Returns, Fifo!HasRoom,
                                   Fifo!SendDropOldest, Fifo!Next
  <2> QED BY <1>9, <2>2, <2>3, <2>4 DEF SendDropOldest
<1>10. CASE UNCHANGED vars
  BY <1>10 DEF vars, Fifo!vars
<1> QED BY <1>1, <1>2, <1>3, <1>4, <1>5, <1>6, <1>7, <1>8, <1>9, <1>10 DEF Next

(* The safety half of ImplementsFifo: whatever the condition variables do, *)
(* callers see the closable FIFO queue.  (Its liveness half is left to     *)
(* TLC.)                                                                   *)
THEOREM RefinesFifoSafety == Spec => Fifo!Init /\ [][Fifo!Next]_(Fifo!vars)
<1>1. Init => Fifo!Init
  BY DEF Init, Fifo!Init
<1>2. IInv /\ IInv' /\ [Next]_vars => [Fifo!Next]_(Fifo!vars)
  BY StepRefines DEF IInv
<1> QED BY <1>1, <1>2, Invariance, PTL DEF Spec

=============================================================================
