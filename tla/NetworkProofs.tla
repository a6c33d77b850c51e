--------------------------- MODULE NetworkProofs ---------------------------
(***************************************************************************)
(* Proofs about SlaveNode, for any threads, identifiers and payloads: the  *)
(* node and the bus agree when no identifier is set by two threads.  And   *)
(* the network is a slave and it is a master: what is proved here of the   *)
(* slave and in MasterNodeProofs of the master, each next to an            *)
(* environment that may do anything, holds of the two together.            *)
(***************************************************************************)
EXTENDS Network, TLAPS

-----------------------------------------------------------------------------
(* The slave alone                                                         *)

IInv == TypeOK /\ PartitionedAgreement

LEMMA PublishedBusy == \A p \in Published : p # Idle
BY DEF Published, Idle

LEMMA InitIInv == Init => IInv
BY DEF Init, IInv, TypeOK, PartitionedAgreement, RegisteredMatchesBus, Settled, Busy, Idle,
       Bytes

LEMMA TypeStep == TypeOK /\ [Next]_vars => TypeOK'
<1> SUFFICES ASSUME TypeOK, [Next]_vars PROVE TypeOK'
  OBVIOUS
<1> USE SlaveAssumption DEF TypeOK, Busy, Bytes, Returns, Published
<1>1. CASE CloseBus
  BY <1>1 DEF CloseBus
<1>2. ASSUME NEW t \in Callers, NEW id \in ValidIds, NEW data \in Bytes,
             Publish(t, id, data)
      PROVE  TypeOK'
  BY <1>2 DEF Publish
<1>3. ASSUME NEW t \in Callers, NEW id \in InvalidIds, RefuseId(t, id) PROVE TypeOK'
  BY <1>3 DEF RefuseId
<1>4. ASSUME NEW t \in Callers, PublishRefused(t) PROVE TypeOK'
  BY <1>4 DEF PublishRefused
<1>5. ASSUME NEW t \in Callers, Remember(t) PROVE TypeOK'
  BY <1>5 DEF Remember
<1>6. CASE UNCHANGED vars
  BY <1>6 DEF vars
<1> QED BY <1>1, <1>2, <1>3, <1>4, <1>5, <1>6 DEF Next, SetResponse

(* A publish unsettles its own identifier and, the identifiers being       *)
(* partitioned, touches no other thread's.                                 *)
LEMMA PublishAgrees ==
    ASSUME TypeOK, PartitionedAgreement, Partitioned,
           NEW t \in Callers, NEW id \in ValidIds, NEW data \in Bytes, Publish(t, id, data)
    PROVE  PartitionedAgreement'
<1>1. /\ responses' = [responses EXCEPT ![id] = data]
      /\ pending' = [pending EXCEPT ![t] = [at |-> "published", id |-> id, data |-> data]]
      /\ ids' = ids /\ ~Busy(t) /\ id \in MayCall[t]
  BY DEF Publish
<1>2. pending'[t].id = id /\ pending'[t].data = data /\ Busy(t)'
  <2>1. pending'[t] = [at |-> "published", id |-> id, data |-> data]
    BY <1>1 DEF TypeOK
  <2>2. pending'[t] \in Published
    BY <2>1 DEF Published
  <2> QED BY <2>1, <2>2, PublishedBusy DEF Busy
<1>3. ASSUME NEW s \in Callers, Busy(s)' PROVE responses'[pending'[s].id] = pending'[s].data
  <2>1. CASE s = t
    BY <1>1, <1>2, <2>1 DEF TypeOK
  <2>2. CASE s # t
    <3>1. pending'[s] = pending[s] /\ Busy(s)
      BY <1>1, <1>3, <2>2 DEF TypeOK, Busy
    <3>2. pending[s].id \in MayCall[s] /\ pending[s].id # id
      BY <1>1, <2>2, <3>1 DEF TypeOK, Partitioned
    <3> QED BY <1>1, <3>1, <3>2, SlaveAssumption DEF TypeOK, PartitionedAgreement
  <2> QED BY <2>1, <2>2
<1>4. ASSUME NEW i \in ValidIds, Settled(i)'
      PROVE  i \in ids' <=> responses'[i] # Empty
  <2>1. i # id
    BY <1>2, <1>4 DEF Settled
  <2>2. Settled(i)
    <3> SUFFICES ASSUME NEW s \in Callers, Busy(s) PROVE pending[s].id # i
      BY DEF Settled
    <3>1. s # t
      BY <1>1
    <3>2. pending'[s] = pending[s] /\ Busy(s)'
      BY <1>1, <3>1 DEF TypeOK, Busy
    <3> QED BY <1>4, <3>2 DEF Settled
  <2> QED BY <1>1, <2>1, <2>2 DEF TypeOK, PartitionedAgreement, RegisteredMatchesBus
<1> QED BY <1>3, <1>4 DEF PartitionedAgreement, RegisteredMatchesBus

(* The update of ids_ settles the identifier with what was published. *)
LEMMA RememberAgrees ==
    ASSUME TypeOK, PartitionedAgreement, Partitioned, NEW t \in Callers, Remember(t)
    PROVE  PartitionedAgreement'
<1> DEFINE id == pending[t].id
           data == pending[t].data
<1>1. /\ ids' = IF data = Empty THEN ids \ {id} ELSE ids \cup {id}
      /\ pending' = [pending EXCEPT ![t] = Idle]
      /\ responses' = responses /\ Busy(t) /\ id \in MayCall[t]
  BY DEF Remember, TypeOK
<1>2. responses[id] = data
  BY <1>1 DEF PartitionedAgreement
<1>3. ASSUME NEW s \in Callers, Busy(s)' PROVE s # t /\ pending'[s] = pending[s] /\ Busy(s)
  <2>1. s # t
    BY <1>1, <1>3 DEF TypeOK, Busy
  <2> QED BY <1>1, <1>3, <2>1 DEF TypeOK, Busy
<1>4. ASSUME NEW s \in Callers, Busy(s)' PROVE responses'[pending'[s].id] = pending'[s].data
  BY <1>1, <1>3, <1>4 DEF PartitionedAgreement
<1>5. ASSUME NEW i \in ValidIds, Settled(i)'
      PROVE  i \in ids' <=> responses'[i] # Empty
  <2>1. CASE i = id
    BY <1>1, <1>2, <2>1
  <2>2. CASE i # id
    <3>1. Settled(i)
      <4> SUFFICES ASSUME NEW s \in Callers, Busy(s) PROVE pending[s].id # i
        BY DEF Settled
      <4>1. CASE s = t
        BY <2>2, <4>1
      <4>2. CASE s # t
        <5>1. pending'[s] = pending[s] /\ Busy(s)'
          BY <1>1, <4>2 DEF TypeOK, Busy
        <5> QED BY <1>5, <5>1 DEF Settled
      <4> QED BY <4>1, <4>2
    <3> QED BY <1>1, <2>2, <3>1 DEF PartitionedAgreement, RegisteredMatchesBus
  <2> QED BY <2>1, <2>2
<1> QED BY <1>4, <1>5 DEF PartitionedAgreement, RegisteredMatchesBus

LEMMA NextIInv == IInv /\ [Next]_vars => IInv'
<1> SUFFICES ASSUME IInv, [Next]_vars PROVE PartitionedAgreement'
  BY TypeStep DEF IInv
<1>1. CASE ~Partitioned
  BY <1>1 DEF PartitionedAgreement, Partitioned
<1>2. CASE Partitioned
  <2>1. ASSUME NEW t \in Callers, NEW id \in ValidIds, NEW data \in Bytes,
               Publish(t, id, data)
        PROVE  PartitionedAgreement'
    BY <1>2, <2>1, PublishAgrees DEF IInv
  <2>2. ASSUME NEW t \in Callers, Remember(t) PROVE PartitionedAgreement'
    BY <1>2, <2>2, RememberAgrees DEF IInv
  <2>3. CASE UNCHANGED <<responses, ids, pending>>
    BY <2>3 DEF IInv, PartitionedAgreement, RegisteredMatchesBus, Settled, Busy
  <2> QED BY <2>1, <2>2, <2>3 DEF Next, SetResponse, CloseBus, RefuseId, PublishRefused, vars
<1> QED BY <1>1, <1>2

(* registered_ids() is right on every identifier that is not being set,    *)
(* provided no identifier is set by two threads: PartitionedAgreement.     *)
THEOREM IdsAgree == Spec => []PartitionedAgreement
<1>1. IInv => PartitionedAgreement
  BY DEF IInv
<1> QED BY <1>1, InitIInv, NextIInv, PTL DEF Spec

-----------------------------------------------------------------------------
(* The slave and the master together                                       *)

MP == INSTANCE MasterNodeProofs WITH answered <- {id \in ValidIds : responses[id] # Empty}

LEMMA SlaveSteps == ASSUME NetNext PROVE [Next]_vars
<1>1. CASE SlaveStep  BY <1>1 DEF SlaveStep, Next
<1>2. CASE CloseNet   BY <1>2 DEF CloseNet, Next
<1>3. CASE Configure  BY <1>3 DEF Configure
<1>4. CASE RunMaster  BY <1>4 DEF RunMaster
<1>5. CASE StopMaster BY <1>5 DEF StopMaster
<1> QED BY <1>1, <1>2, <1>3, <1>4, <1>5 DEF NetNext

(* The slave of the network is a slave. *)
THEOREM NetworkImplementsSlave == NetSpec => Spec
<1>1. NetInit => Init
  BY DEF NetInit
<1>2. [NetNext]_netVars => [Next]_vars
  BY SlaveSteps DEF netVars
<1> QED BY <1>1, <1>2, PTL DEF NetSpec, Spec

(* What the critical sections of set_response do to the set of answered    *)
(* identifiers is what MasterNode allows.                                  *)
LEMMA SlaveIsEnvironment ==
    ASSUME TypeOK, SlaveStep PROVE [Master!Next]_(Master!vars)
<1> PICK t \in Callers : SetResponse(t)
  BY DEF SlaveStep
<1>0. UNCHANGED masterVars
  BY DEF SlaveStep
<1>1. CASE UNCHANGED <<responses, busClosed>>
  BY <1>0, <1>1 DEF masterVars, Master!vars, Master!env
<1>2. ASSUME NEW id \in ValidIds, NEW data \in Bytes, Publish(t, id, data)
      PROVE  [Master!Next]_(Master!vars)
  <2>1. responses' = [responses EXCEPT ![id] = data] /\ ~busClosed /\ busClosed' = busClosed
    BY <1>2 DEF Publish
  <2>2. CASE data = Empty
    <3>1. {i \in ValidIds : responses'[i] # Empty}
          = {i \in ValidIds : responses[i] # Empty} \ {id}
      BY <2>1, <2>2 DEF TypeOK
    <3>2. Master!SlaveChanges(id)
      BY <1>0, <2>1, <3>1 DEF Master!SlaveChanges, masterVars
    <3> QED BY <3>2 DEF Master!Next
  <2>3. CASE data # Empty
    <3>1. {i \in ValidIds : responses'[i] # Empty}
          = {i \in ValidIds : responses[i] # Empty} \cup {id}
      BY <2>1, <2>3 DEF TypeOK
    <3>2. Master!SlaveChanges(id)
      BY <1>0, <2>1, <3>1 DEF Master!SlaveChanges, masterVars
    <3> QED BY <3>2 DEF Master!Next
  <2> QED BY <2>2, <2>3
<1>3. CASE \E id \in InvalidIds : RefuseId(t, id)
  BY <1>1, <1>3 DEF RefuseId
<1>4. CASE PublishRefused(t)
  BY <1>1, <1>4 DEF PublishRefused
<1>5. CASE Remember(t)
  BY <1>1, <1>5 DEF Remember
<1> QED BY <1>2, <1>3, <1>4, <1>5 DEF SetResponse

LEMMA MasterSteps ==
    ASSUME TypeOK, NetNext PROVE [Master!Next]_(Master!vars)
<1>1. CASE SlaveStep  BY <1>1, SlaveIsEnvironment
<1>2. CASE CloseNet
  <2>1. Master!CloseBus
    BY <1>2 DEF CloseNet, CloseBus, Master!CloseBus, masterVars
  <2> QED BY <2>1 DEF Master!Next
<1>3. CASE Configure  BY <1>3 DEF Configure, Master!Next
<1>4. CASE RunMaster  BY <1>4 DEF RunMaster, Master!Next
<1>5. CASE StopMaster BY <1>5 DEF StopMaster, Master!Next
<1> QED BY <1>1, <1>2, <1>3, <1>4, <1>5 DEF NetNext

(* The master of the network is a master: the slave's threads do nothing   *)
(* to it that MasterNode does not expect of its environment.               *)
THEOREM NetworkImplementsMaster == NetSpec => Master!Init /\ [][Master!Next]_(Master!vars)
<1>1. NetInit => Master!Init
  BY DEF NetInit, Init, Master!Init
<1>2. TypeOK /\ [NetNext]_netVars => [Master!Next]_(Master!vars)
  <2>1. CASE UNCHANGED netVars
    BY <2>1 DEF netVars, vars, masterVars, Master!vars, Master!env
  <2> QED BY <2>1, MasterSteps
<1>3. Spec => []TypeOK
  <2>1. IInv => TypeOK
    BY DEF IInv
  <2> QED BY InitIInv, TypeStep, <2>1, PTL DEF Spec
<1> QED BY <1>1, <1>2, <1>3, NetworkImplementsSlave, PTL DEF NetSpec

(* MP and Master are the same module under the same substitution. *)
LEMMA SameActions == ASSUME [Master!Next]_(Master!vars) PROVE [MP!Next]_(MP!vars)
<1> USE DEF Master!env, MP!env
<1>1. ASSUME NEW s \in Schedules, Master!SetSchedule(s) PROVE MP!SetSchedule(s)
  BY <1>1 DEF Master!SetSchedule, MP!SetSchedule
<1>2. Master!Run => MP!Run
  BY DEF Master!Run, MP!Run
<1>3. Master!RunThread => MP!RunThread
  BY DEF Master!RunThread, MP!RunThread, Master!TestLoop, MP!TestLoop,
         Master!TestSlot, MP!TestSlot, Master!SendHeader, MP!SendHeader,
         Master!EndSlot, MP!EndSlot, Master!Leave, MP!Leave
<1>4. Master!Stop => MP!Stop
  BY DEF Master!Stop, MP!Stop
<1>5. Master!CloseBus => MP!CloseBus
  BY DEF Master!CloseBus, MP!CloseBus
<1>6. ASSUME NEW id \in ValidIds, Master!SlaveChanges(id) PROVE MP!SlaveChanges(id)
  BY <1>6 DEF Master!SlaveChanges, MP!SlaveChanges
<1>7. UNCHANGED Master!vars => UNCHANGED MP!vars
  BY DEF Master!vars, MP!vars
<1> QED BY <1>1, <1>2, <1>3, <1>4, <1>5, <1>6, <1>7 DEF Master!Next, MP!Next

LEMMA NetworkMasterInductive == NetSpec => []MP!IInv
<1>1. MP!MasterAssumption
  BY NetworkAssumption
     DEF Master!MasterAssumption, MP!MasterAssumption, Master!Entries, MP!Entries
<1>2. Master!Init => MP!Init
  BY DEF Master!Init, MP!Init
<1>3. [Master!Next]_(Master!vars) => [MP!Next]_(MP!vars)
  BY SameActions
<1>4. MP!Init /\ [][MP!Next]_(MP!vars) => []MP!IInv
  BY <1>1, MP!Inductive
<1> QED BY <1>2, <1>3, <1>4, NetworkImplementsMaster, PTL

(* In the network both nodes keep their types: the master's table holds    *)
(* valid identifiers and its loop index stays inside it.                   *)
THEOREM NetworkTypeCorrect == NetSpec => []NetTypeOK
<1>1. MP!IInv => Master!TypeOK
  BY DEF MP!IInv, MP!TypeOK, Master!TypeOK, MP!Entries, Master!Entries
<1>2. Spec => []TypeOK
  <2>1. IInv => TypeOK
    BY DEF IInv
  <2> QED BY InitIInv, TypeStep, <2>1, PTL DEF Spec
<1>3. TypeOK /\ Master!TypeOK => NetTypeOK
  BY DEF NetTypeOK
<1> QED BY <1>1, <1>2, <1>3, NetworkMasterInductive, NetworkImplementsSlave, PTL

(* registered_ids and the bus agree on every identifier that is not being  *)
(* set, while a master polls them.                                         *)
THEOREM NetworkIdsAgree == NetSpec => []PartitionedAgreement
BY NetworkImplementsSlave, IdsAgree, PTL

(* Once the stop flag is set, at most one more header goes out, whatever   *)
(* the slaves do meanwhile.                                                *)
THEOREM NetworkOneLateHeader == NetSpec => []AtMostOneLateHeader
<1>1. MP!IInv => AtMostOneLateHeader
  BY DEF MP!IInv, MP!LateOnce, AtMostOneLateHeader, Master!AtMostOneLateHeader
<1> QED BY <1>1, NetworkMasterInductive, PTL

=============================================================================
