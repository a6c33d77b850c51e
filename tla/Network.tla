------------------------------- MODULE Network -------------------------------
(***************************************************************************)
(* A master node and a slave node on one bus: MasterNode's loop polls the  *)
(* responses that SlaveNode's threads publish, and the bus may close at    *)
(* any time.  What MasterNode takes for granted, that identifiers come and *)
(* go, is here what set_response does.                                     *)
(***************************************************************************)
EXTENDS SlaveNode, Sequences

CONSTANT Schedules

VARIABLES schedule, stop, at, slot, callback, returned, late

Master == INSTANCE MasterNode WITH answered <- {id \in ValidIds : responses[id] # Empty}

ASSUME NetworkAssumption == Master!MasterAssumption

masterVars == <<schedule, stop, at, slot, callback, returned, late>>

netVars == <<vars, masterVars>>

NetInit == Init /\ Master!Init

SlaveStep ==
    /\ \E t \in Callers : SetResponse(t)
    /\ UNCHANGED masterVars

CloseNet == CloseBus /\ UNCHANGED masterVars

Configure == UNCHANGED vars /\ \E s \in Schedules : Master!SetSchedule(s)

RunMaster == UNCHANGED vars /\ (Master!Run \/ Master!RunThread)

StopMaster == UNCHANGED vars /\ Master!Stop

NetNext == SlaveStep \/ CloseNet \/ Configure \/ RunMaster \/ StopMaster

(* The thread inside run keeps going.  No slave has to do anything.        *)
NetSpec ==
    /\ NetInit /\ [][NetNext]_netVars
    /\ WF_netVars(UNCHANGED vars /\ Master!RunThread)

-----------------------------------------------------------------------------
(* Type invariant *)
NetTypeOK == TypeOK /\ Master!TypeOK

(* The properties of MasterNode, over the bus of a real slave. *)
AtMostOneLateHeader == Master!AtMostOneLateHeader
StopEndsRun == Master!StopEndsRun
EverySlotPolled == Master!EverySlotPolled

Scheduled(id) == at # "outside" /\ \E i \in DOMAIN schedule : schedule[i].id = id

(* A response that registered_ids reports, for an identifier of the table  *)
(* that is being run, reaches the master's on_frame callback, unless the   *)
(* master is stopped, the bus closed or the response set again meanwhile.  *)
(* (REQ-MASTER-006 and REQ-SLAVE-005 taken together.)                      *)
RegisteredIsHeard ==
    Partitioned => \A id \in ValidIds :
        id \in ids /\ Scheduled(id) ~>
            \/ stop \/ busClosed \/ ~Settled(id)
            \/ at = "delay" /\ schedule[slot].id = id /\ callback = "on_frame"

=============================================================================
