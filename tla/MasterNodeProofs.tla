-------------------------- MODULE MasterNodeProofs --------------------------
(***************************************************************************)
(* Proofs about MasterNode, for any tables: the loop index stays inside    *)
(* the table, and once the flag is set one more header goes out at most.   *)
(***************************************************************************)
EXTENDS MasterNode, SequenceTheorems, TLAPS

(* A late header takes the thread away from the place where it sends, and  *)
(* the flag, which is set for good, does not let it back there.            *)
LateOnce == late = 0 \/ (late = 1 /\ stop /\ at # "header")

(* run leaves the loop index behind when it returns, so that a shorter     *)
(* table may be set.                                                       *)
OutsideAtZero == at = "outside" => slot = 0

IInv == TypeOK /\ OutsideAtZero /\ LateOnce

LEMMA InitIInv == Init => IInv
<1> SUFFICES ASSUME Init PROVE IInv
  OBVIOUS
<1>1. schedule \in Seq(Entries(ValidIds)) /\ Len(schedule) = 0
  BY EmptySeq DEF Init
<1>2. slot \in 0..Len(schedule)
  BY <1>1 DEF Init
<1>3. OutsideAtZero /\ LateOnce
  BY DEF Init, OutsideAtZero, LateOnce
<1>4. TypeOK
  BY <1>1, <1>2 DEF Init, TypeOK
<1> QED BY <1>3, <1>4 DEF IInv

LEMMA NarrowSeq ==
    ASSUME NEW S, NEW T, NEW s \in Seq(S), \A i \in 1..Len(s) : s[i] \in T
    PROVE  s \in Seq(T)
<1>1. Len(s) \in Nat /\ s \in [1..Len(s) -> S]
  BY LenProperties
<1>2. s \in [1..Len(s) -> T]
  BY <1>1
<1> QED BY <1>1, <1>2, SeqDef

LEMMA TypeStep ==
    ASSUME MasterAssumption, TypeOK, OutsideAtZero, [Next]_vars PROVE TypeOK'
<1> USE DEF TypeOK, env
<1>1. ASSUME NEW s \in Schedules, SetSchedule(s) PROVE TypeOK'
  <2>1. s \in Seq(Entries(ValidIds \cup InvalidIds))
    BY DEF MasterAssumption
  <2>2. CASE \E i \in DOMAIN s : s[i].id \notin ValidIds
    BY <1>1, <2>2 DEF SetSchedule
  <2>3. CASE \A i \in DOMAIN s : s[i].id \in ValidIds
    <3>1. DOMAIN s = 1..Len(s)
      BY <2>1, LenProperties
    <3>2. \A r \in Entries(ValidIds \cup InvalidIds) :
             r.id \in ValidIds => r \in Entries(ValidIds)
      BY DEF Entries
    <3>3. \A i \in 1..Len(s) : s[i] \in Entries(ValidIds \cup InvalidIds)
      BY <2>1, ElementOfSeq
    <3>4. \A i \in 1..Len(s) : s[i] \in Entries(ValidIds)
      BY <2>3, <3>1, <3>2, <3>3
    <3>5. s \in Seq(Entries(ValidIds))
      BY <2>1, <3>4, NarrowSeq
    <3> QED BY <1>1, <2>3, <3>5 DEF SetSchedule, OutsideAtZero
  <2> QED BY <2>2, <2>3
<1>2. CASE Run        BY <1>2 DEF Run
<1>3. CASE TestLoop   BY <1>3 DEF TestLoop, Leave
<1>4. CASE TestSlot   BY <1>4 DEF TestSlot, Leave
<1>5. CASE SendHeader BY <1>5 DEF SendHeader
<1>6. CASE EndSlot    BY <1>6 DEF EndSlot
<1>7. CASE Stop       BY <1>7 DEF Stop
<1>8. CASE CloseBus   BY <1>8 DEF CloseBus
<1>9. ASSUME NEW id \in ValidIds, SlaveChanges(id) PROVE TypeOK'
  BY <1>9 DEF SlaveChanges
<1>10. CASE UNCHANGED vars  BY <1>10 DEF vars
<1> QED BY <1>1, <1>2, <1>3, <1>4, <1>5, <1>6, <1>7, <1>8, <1>9, <1>10
        DEF Next, RunThread

LEMMA HistoryStep ==
    ASSUME TypeOK, OutsideAtZero, LateOnce, [Next]_vars
    PROVE  OutsideAtZero' /\ LateOnce'
<1> USE DEF OutsideAtZero, LateOnce, env
<1>1. ASSUME NEW s \in Schedules, SetSchedule(s) PROVE OutsideAtZero' /\ LateOnce'
  BY <1>1 DEF SetSchedule
<1>2. CASE Run        BY <1>2 DEF Run
<1>3. CASE TestLoop   BY <1>3 DEF TestLoop, Leave
<1>4. CASE TestSlot   BY <1>4 DEF TestSlot, Leave
<1>5. CASE SendHeader BY <1>5 DEF SendHeader
<1>6. CASE EndSlot    BY <1>6 DEF EndSlot
<1>7. CASE Stop       BY <1>7 DEF Stop
<1>8. CASE CloseBus   BY <1>8 DEF CloseBus
<1>9. ASSUME NEW id \in ValidIds, SlaveChanges(id) PROVE OutsideAtZero' /\ LateOnce'
  BY <1>9 DEF SlaveChanges
<1>10. CASE UNCHANGED vars  BY <1>10 DEF vars
<1> QED BY <1>1, <1>2, <1>3, <1>4, <1>5, <1>6, <1>7, <1>8, <1>9, <1>10
        DEF Next, RunThread

(* The safety part of Spec is enough; the lemma is for every system of     *)
(* which a master is a part.                                               *)
LEMMA Inductive ==
    ASSUME MasterAssumption PROVE Init /\ [][Next]_vars => []IInv
<1>1. IInv /\ [Next]_vars => IInv'
  BY TypeStep, HistoryStep DEF IInv
<1> QED BY InitIInv, <1>1, PTL

(* While run executes, the index of the for loop is inside the table, and  *)
(* the table holds valid identifiers only.                                 *)
THEOREM TypeCorrect == ASSUME MasterAssumption PROVE Spec => []TypeOK
<1>1. IInv => TypeOK
  BY DEF IInv
<1> QED BY Inductive, <1>1, PTL DEF Spec

(* Once the stop flag is set, at most one more header goes out on the bus. *)
THEOREM OneLateHeader == ASSUME MasterAssumption PROVE Spec => []AtMostOneLateHeader
<1>1. IInv => AtMostOneLateHeader
  BY DEF IInv, LateOnce, AtMostOneLateHeader
<1> QED BY Inductive, <1>1, PTL DEF Spec

=============================================================================
