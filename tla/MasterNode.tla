----------------------------- MODULE MasterNode -----------------------------
(***************************************************************************)
(* lin::master::Node (src/master/node.cpp): one thread runs the schedule   *)
(* table over a bus until a stop flag that other threads set.  The flag is *)
(* read at three places, the while condition, the head of the for loop and *)
(* the delay loop, and everything else may happen in between.              *)
(*                                                                         *)
(* The bus is reduced to whether a header is answered: VirtualBus models   *)
(* what else send_header does.  It is assumed to return (no subscriber     *)
(* with the Block policy is stuck).                                        *)
(***************************************************************************)
EXTENDS Naturals, Sequences

CONSTANTS
    ValidIds, InvalidIds,
    Schedules   \* the tables given to set_schedule: sequences of [id, delay]

(* ScheduleEntry *)
Entries(ids) == [id : ids, delay : Nat]

MasterAssumption ==
    /\ ValidIds \cap InvalidIds = {}
    /\ Schedules \subseteq Seq(Entries(ValidIds \cup InvalidIds))

VARIABLES
    schedule,   \* schedule_
    stop,       \* the atomic flag given to run
    busClosed,
    answered,   \* identifiers with a response on the bus
    at,         \* where the thread is in run, "outside" when it is not in it
    slot,       \* the index of the for loop
    callback,   \* the last callback: "on_frame", "on_error" or "none"
    returned,   \* what the last call of run or set_schedule returned
    late        \* history: headers sent since stop was set

env == <<stop, busClosed, answered>>
vars == <<schedule, env, at, slot, callback, returned, late>>

Init ==
    /\ schedule = << >>
    /\ stop = FALSE
    /\ busClosed = FALSE
    /\ answered = {}
    /\ at = "outside"
    /\ slot = 0
    /\ callback = "none"
    /\ returned = "none"
    /\ late = 0

(* Mutant: the table is stored before it is validated. *)
SetScheduleStoresFirst(s) ==
    /\ at = "outside"
    /\ returned' = IF \E i \in DOMAIN s : s[i].id \notin ValidIds
                   THEN "invalid_frame" ELSE "ok"
    /\ schedule' = s
    /\ UNCHANGED <<env, at, slot, callback, late>>

(* set_schedule, which must not be called during run (SAFETY_MANUAL.md,    *)
(* section 6): one bad entry and the old table stays.                      *)
SetSchedule(s) ==
    /\ at = "outside"
    /\ IF \E i \in DOMAIN s : s[i].id \notin ValidIds
       THEN returned' = "invalid_frame" /\ UNCHANGED schedule
       ELSE returned' = "ok" /\ schedule' = s
    /\ UNCHANGED <<env, at, slot, callback, late>>

Run ==
    /\ at = "outside"
    /\ IF schedule = << >>
       THEN returned' = "run_ok" /\ UNCHANGED at
       ELSE returned' = "running" /\ at' = "while"
    /\ UNCHANGED <<schedule, env, slot, callback, late>>

Leave == at' = "outside" /\ returned' = "run_ok" /\ slot' = 0

(* while (!stop.load()) *)
TestLoop ==
    /\ at = "while"
    /\ IF stop THEN Leave ELSE at' = "for" /\ slot' = 1 /\ UNCHANGED returned
    /\ UNCHANGED <<schedule, env, callback, late>>

(* Mutant: the for loop does not look at the flag. *)
TestSlotIgnoresStop ==
    /\ at = "for"
    /\ at' = "header"
    /\ UNCHANGED <<schedule, env, slot, callback, returned, late>>

(* if (stop.load()) return {}; at the head of the for loop *)
TestSlot ==
    /\ at = "for"
    /\ IF stop THEN Leave ELSE at' = "header" /\ UNCHANGED <<slot, returned>>
    /\ UNCHANGED <<schedule, env, callback, late>>

(* Mutant: a slot without an answer is retried at once. *)
SendHeaderRetries ==
    /\ at = "header"
    /\ IF ~busClosed /\ schedule[slot].id \in answered
       THEN callback' = "on_frame" /\ at' = "delay"
       ELSE callback' = "on_error" /\ UNCHANGED at
    /\ UNCHANGED <<schedule, env, slot, returned, late>>

(* bus_->send_header and the callback for its answer.  An error does not   *)
(* end the run.                                                            *)
SendHeader ==
    /\ at = "header"
    /\ callback' = IF ~busClosed /\ schedule[slot].id \in answered
                   THEN "on_frame" ELSE "on_error"
    /\ at' = "delay"
    /\ late' = IF stop THEN late + 1 ELSE late
    /\ UNCHANGED <<schedule, env, slot, returned>>

(* Mutant: the loop runs one entry short. *)
EndSlotOffByOne ==
    /\ at = "delay"
    /\ IF slot + 1 < Len(schedule) THEN at' = "for" /\ slot' = slot + 1
                                   ELSE at' = "while" /\ UNCHANGED slot
    /\ UNCHANGED <<schedule, env, callback, returned, late>>

(* The delay loop ends at its deadline or because of the flag; without a   *)
(* delay there is none.  Either way the for loop goes on.                  *)
EndSlot ==
    /\ at = "delay"
    /\ IF slot < Len(schedule) THEN at' = "for" /\ slot' = slot + 1
                               ELSE at' = "while" /\ UNCHANGED slot
    /\ UNCHANGED <<schedule, env, callback, returned, late>>

Stop == stop' = TRUE /\ UNCHANGED <<schedule, busClosed, answered, at, slot, callback,
                                    returned, late>>

CloseBus == busClosed' = TRUE /\ UNCHANGED <<schedule, stop, answered, at, slot, callback,
                                             returned, late>>

(* A slave publishes or removes a response. *)
SlaveChanges(id) ==
    /\ ~busClosed
    /\ \/ answered' = answered \cup {id}
       \/ answered' = answered \ {id}
    /\ UNCHANGED <<schedule, stop, busClosed, at, slot, callback, returned, late>>

RunThread == TestLoop \/ TestSlot \/ SendHeader \/ EndSlot

Next ==
    \/ \E s \in Schedules : SetSchedule(s)
    \/ Run \/ RunThread
    \/ Stop \/ CloseBus
    \/ \E id \in ValidIds : SlaveChanges(id)

(* The thread inside run keeps going (and the clock with it). *)
Spec == Init /\ [][Next]_vars /\ WF_vars(RunThread)

-----------------------------------------------------------------------------
(* Type invariant.  While run executes, the loop index is inside the       *)
(* table, and the table holds valid identifiers only.                      *)
TypeOK ==
    /\ schedule \in Seq(Entries(ValidIds))
    /\ stop \in BOOLEAN /\ busClosed \in BOOLEAN
    /\ answered \subseteq ValidIds
    /\ at \in {"outside", "while", "for", "header", "delay"}
    /\ slot \in 0..Len(schedule)
    /\ at \in {"for", "header", "delay"} => slot \in DOMAIN schedule
    /\ at # "outside" => schedule # << >>
    /\ callback \in {"none", "on_frame", "on_error"}
    /\ returned \in {"none", "ok", "running", "run_ok", "invalid_frame"}
    /\ late \in Nat

(* Once the flag is set, at most one more header goes out on the bus: the  *)
(* one whose test of the flag was already over.                            *)
AtMostOneLateHeader == late <= 1

(* run returns once the flag is set (REQ-MASTER-008). *)
StopEndsRun == stop ~> at = "outside"

SlotIndices == UNION {DOMAIN s : s \in Schedules}

(* Every slot of the table is polled again and again until the flag is     *)
(* set, whatever errors the other slots and this one produce               *)
(* (REQ-MASTER-003, REQ-MASTER-013).                                       *)
EverySlotPolled ==
    \A i \in SlotIndices :
        at # "outside" /\ i \in DOMAIN schedule ~> stop \/ (at = "header" /\ slot = i)

=============================================================================
