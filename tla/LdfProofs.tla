------------------------------ MODULE LdfProofs ------------------------------
(***************************************************************************)
(* Proofs about LdfDocument: whatever lines a file has, the parser's       *)
(* database keeps its widths and identifiers in range and no schedule      *)
(* holds a slot that send_header would refuse; of a well-formed file the   *)
(* database holds exactly what its lines declare, and decode reads each    *)
(* signal as the slice of the payload that the file gives it.              *)
(***************************************************************************)
EXTENDS LdfDocument, TLAPS, WellFoundedInduction

-----------------------------------------------------------------------------
(* What Put does *)

LEMMA PutDomain ==
    \A map, key, value : DOMAIN Put(map, key, value) = DOMAIN map \cup {key}
BY DEF Put

LEMMA PutAt ==
    \A map, key, value : \A k \in DOMAIN map \cup {key} :
        Put(map, key, value)[k] = IF k = key THEN value ELSE map[k]
BY DEF Put

(* A property that all values of a map and the new one have. *)
LEMMA PutKeeps ==
    ASSUME NEW map, NEW key, NEW value, NEW S,
           \A k \in DOMAIN map : map[k] \in S, value \in S
    PROVE  \A k \in DOMAIN Put(map, key, value) : Put(map, key, value)[k] \in S
<1> SUFFICES ASSUME NEW k \in DOMAIN Put(map, key, value)
             PROVE  Put(map, key, value)[k] \in S
  OBVIOUS
<1>1. k \in DOMAIN map \cup {key}
  BY PutDomain
<1>2. Put(map, key, value)[k] = IF k = key THEN value ELSE map[k]
  BY <1>1, PutAt
<1> QED BY <1>1, <1>2

(* A second Put under the same key replaces the first. *)
LEMMA PutTwice ==
    \A map, key, value, new :
        [Put(map, key, value) EXCEPT ![key] = new] = Put(map, key, new)
BY DEF Put

LEMMA NumberIsInteger == \A v \in Numerals : Number(v) \in Int
BY LdfAssumption DEF Numerals, Number

LEMMA ClampInRange == \A v \in Int : Clamp(v) \in 0..64
BY DEF Clamp

LEMMA FrameIdIsByte == \A v \in Numerals : FrameId(v) \in 0..255
<1>1. \A n \in Int : n % 256 \in 0..255
  OBVIOUS
<1> QED BY <1>1, NumberIsInteger DEF FrameId

-----------------------------------------------------------------------------
(* The parser, for any line: TypeOK and ScheduleIdsValid with what they    *)
(* rest on, that the table being read holds only valid slots already.      *)

Slot(known) == [id : known \cap 0..MaxID, delay : Int]

OpenIsRecord == open = [name |-> open.name, id |-> open.id, items |-> open.items]

OpenTableValid == mode = "table" => open.items \in Seq(Slot(DOMAIN frames))

PInv == TypeOK /\ ScheduleIdsValid /\ OpenIsRecord /\ OpenTableValid

(* Frames are added, never taken away, so valid slots stay valid. *)
LEMMA SchedulesStay ==
    ASSUME ScheduleIdsValid, UNCHANGED schedules, DOMAIN frames \subseteq DOMAIN frames'
    PROVE  ScheduleIdsValid'
BY DEF ScheduleIdsValid

(* What Resolve gives is a frame that is known and in range. *)
LEMMA ResolveIsValid ==
    ASSUME TypeOK, NEW name, NEW id \in Resolve(name)
    PROVE  /\ id \in DOMAIN frames \cap 0..MaxID
           /\ frames[id].name = name
BY LdfAssumption DEF Resolve, TypeOK

LEMMA NothingOpenIsRecord ==
    ASSUME open' = NothingOpen
    PROVE  OpenIsRecord' /\ open'.id = 0
<1>1. PICK name, id, items : id = 0 /\ NothingOpen = [name |-> name, id |-> id, items |-> items]
  BY DEF NothingOpen
<1>2. open' = [name |-> name, id |-> id, items |-> items]
  BY <1>1
<1>3. OpenIsRecord' /\ open'.id = id
  BY <1>2 DEF OpenIsRecord
<1>4. id = 0
  BY <1>1
<1> QED BY <1>3, <1>4

LEMMA StoreFrameValid ==
    ASSUME PInv, StoreFrame
    PROVE  /\ ScheduleIdsValid'
           /\ DOMAIN frames' \subseteq 0..255
           /\ \A s \in DOMAIN signals' : signals'[s] \in 0..64
<1> USE DEF PInv
<1>1. DOMAIN frames' = DOMAIN frames \cup {open.id}
  BY PutDomain DEF StoreFrame
<1>2. ScheduleIdsValid'
  BY <1>1, SchedulesStay DEF StoreFrame
<1> QED BY <1>1, <1>2 DEF StoreFrame, TypeOK

LEMMA StoreTableValid ==
    ASSUME PInv, mode = "table", StoreTable
    PROVE  /\ ScheduleIdsValid'
           /\ DOMAIN frames' \subseteq 0..255
           /\ \A s \in DOMAIN signals' : signals'[s] \in 0..64
<1> USE DEF PInv
<1>1. /\ DOMAIN schedules' = DOMAIN schedules \cup {open.name}
      /\ \A t \in DOMAIN schedules' :
            schedules'[t] = IF t = open.name THEN open.items ELSE schedules[t]
  <2>1. schedules' = Put(schedules, open.name, open.items)
    BY DEF StoreTable
  <2>2. DOMAIN schedules' = DOMAIN schedules \cup {open.name}
    BY <2>1, PutDomain
  <2>3. \A t \in DOMAIN schedules \cup {open.name} :
           Put(schedules, open.name, open.items)[t]
             = IF t = open.name THEN open.items ELSE schedules[t]
    BY PutAt
  <2> QED BY <2>1, <2>2, <2>3
<1>2. \A i \in DOMAIN open.items : open.items[i].id \in DOMAIN frames \cap 0..MaxID
  <2>1. open.items \in Seq(Slot(DOMAIN frames))
    BY DEF OpenTableValid
  <2>2. \A i \in DOMAIN open.items : open.items[i] \in Slot(DOMAIN frames)
    BY <2>1
  <2> QED BY <2>2 DEF Slot
<1>3. ScheduleIdsValid'
  BY <1>1, <1>2 DEF ScheduleIdsValid, StoreTable
<1> QED BY <1>3 DEF StoreTable, TypeOK

(* One line, of any kind, in any mode. *)
LEMMA LineKeeps ==
    ASSUME PInv, NEW l, LineOK(l), Line(l)
    PROVE  PInv'
<1> USE DEF PInv, LineOK, db
<1>1. CASE TopLine(l)
  <2>1. UNCHANGED <<open, signals, frames, schedules>>
    BY <1>1 DEF TopLine
  <2>2. mode' \in Sections \cup {"top"} /\ fresh' \in BOOLEAN
    BY <1>1 DEF TopLine, TypeOK
  <2>3. ScheduleIdsValid'
    BY <2>1, SchedulesStay
  <2> QED BY <2>1, <2>2, <2>3 DEF TypeOK, OpenIsRecord, OpenTableValid, Sections
<1>2. CASE NodesLine(l)
  <2>1. UNCHANGED <<open, signals, frames, schedules>>
    BY <1>2 DEF NodesLine, InSection
  <2>2. mode' \in Sections \cup {"top"} /\ fresh' \in BOOLEAN
    BY <1>2 DEF NodesLine, InSection, Sections
  <2>3. ScheduleIdsValid'
    BY <2>1, SchedulesStay
  <2> QED BY <2>1, <2>2, <2>3 DEF TypeOK, OpenIsRecord, OpenTableValid, Sections
<1>3. CASE SignalsLine(l)
  <2>1. UNCHANGED <<open, frames, schedules>>
    BY <1>3 DEF SignalsLine, InSection
  <2>2. mode' \in Sections \cup {"top"} /\ fresh' \in BOOLEAN
    BY <1>3 DEF SignalsLine, InSection, Sections
  <2>3. ScheduleIdsValid'
    BY <2>1, SchedulesStay
  <2>4. \A s \in DOMAIN signals' : signals'[s] \in 0..64
    <3>1. CASE l.kind = "signal"
      <4>1. Clamp(Number(l.width)) \in 0..64
        BY <3>1, NumberIsInteger, ClampInRange
      <4>2. signals' = Put(signals, l.name, Clamp(Number(l.width)))
        BY <1>3, <3>1 DEF SignalsLine
      <4>3. \A s \in DOMAIN signals : signals[s] \in 0..64
        BY DEF TypeOK
      <4> QED BY <4>1, <4>2, <4>3, PutKeeps
    <3>2. CASE l.kind = "frame"
      <4>1. Clamp(Number(l.id)) \in 0..64
        BY <3>2, NumberIsInteger, ClampInRange
      <4>2. signals' = Put(signals, l.name, Clamp(Number(l.id)))
        BY <1>3, <3>2 DEF SignalsLine
      <4>3. \A s \in DOMAIN signals : signals[s] \in 0..64
        BY DEF TypeOK
      <4> QED BY <4>1, <4>2, <4>3, PutKeeps
    <3>3. CASE l.kind = "master"
      <4>1. 0 \in 0..64
        OBVIOUS
      <4>2. signals' = Put(signals, "Master", 0)
        BY <1>3, <3>3 DEF SignalsLine
      <4>3. \A s \in DOMAIN signals : signals[s] \in 0..64
        BY DEF TypeOK
      <4> QED BY <4>1, <4>2, <4>3, PutKeeps
    <3>4. CASE l.kind \notin {"signal", "frame", "master"}
      BY <1>3, <3>4 DEF SignalsLine, TypeOK
    <3> QED BY <3>1, <3>2, <3>3, <3>4
  <2> QED BY <2>1, <2>2, <2>3, <2>4 DEF TypeOK, OpenIsRecord, OpenTableValid, Sections
<1>4. CASE FramesLine(l) \/ TablesLine(l)
  <2>1. UNCHANGED <<open, signals, frames, schedules>>
    BY <1>4 DEF FramesLine, TablesLine, InSection
  <2>2. mode' \in Sections \cup {"top"} /\ fresh' \in BOOLEAN
    BY <1>4 DEF FramesLine, TablesLine, InSection, Sections
  <2>3. ScheduleIdsValid'
    BY <2>1, SchedulesStay
  <2> QED BY <2>1, <2>2, <2>3 DEF TypeOK, OpenIsRecord, OpenTableValid, Sections
<1>5. CASE OpenFrame(l)
  <2>1. UNCHANGED <<signals, frames, schedules>>
    BY <1>5 DEF OpenFrame
  <2>2. FrameId(l.id) \in 0..255
    BY <1>5, FrameIdIsByte DEF OpenFrame
  <2>3. open' = [name |-> l.name, id |-> FrameId(l.id), items |-> << >>]
        /\ mode' = "frame" /\ fresh' = FALSE
    BY <1>5 DEF OpenFrame
  <2>4. ScheduleIdsValid'
    BY <2>1, SchedulesStay
  <2>5. OpenIsRecord' /\ open'.id = FrameId(l.id)
    BY <2>3 DEF OpenIsRecord
  <2> QED BY <2>1, <2>2, <2>3, <2>4, <2>5 DEF TypeOK, OpenTableValid
<1>6. CASE FrameLine(l)
  <2>1. UNCHANGED <<mode, fresh, signals, frames, schedules>> /\ mode = "frame"
    BY <1>6 DEF FrameLine
  <2>2. ScheduleIdsValid'
    BY <2>1, SchedulesStay
  <2>3. OpenIsRecord' /\ open'.id = open.id
    BY <1>6 DEF FrameLine, OpenIsRecord
  <2> QED BY <2>1, <2>2, <2>3 DEF TypeOK, OpenTableValid
<1>7. CASE CloseFrame(l)
  <2>1. /\ ScheduleIdsValid'
        /\ DOMAIN frames' \subseteq 0..255
        /\ \A s \in DOMAIN signals' : signals'[s] \in 0..64
    BY <1>7, StoreFrameValid DEF CloseFrame
  <2>2. mode' = "Frames" /\ open' = NothingOpen /\ UNCHANGED fresh
    BY <1>7 DEF CloseFrame
  <2>3. OpenIsRecord' /\ open'.id = 0
    BY <2>2, NothingOpenIsRecord
  <2> QED BY <2>1, <2>2, <2>3 DEF TypeOK, OpenTableValid, Sections
<1>8. CASE OpenTable(l)
  <2>1. UNCHANGED <<signals, frames, schedules>>
    BY <1>8 DEF OpenTable
  <2>2. open' = [name |-> TableName(l), id |-> 0, items |-> << >>]
        /\ mode' = "table" /\ fresh' = FALSE
    BY <1>8 DEF OpenTable
  <2>3. ScheduleIdsValid'
    BY <2>1, SchedulesStay
  <2>4. << >> \in Seq(Slot(DOMAIN frames))
    OBVIOUS
  <2>5. OpenIsRecord' /\ open'.id = 0 /\ open'.items = << >>
    BY <2>2 DEF OpenIsRecord
  <2>6. OpenTableValid'
    BY <2>1, <2>4, <2>5 DEF OpenTableValid
  <2>7. open'.id \in 0..255
    BY <2>5
  <2>8. TypeOK'
    BY <2>1, <2>2, <2>7 DEF TypeOK
  <2> QED BY <2>3, <2>5, <2>6, <2>8
<1>9. CASE TableLine(l)
  <2>1. UNCHANGED <<mode, fresh, signals, frames, schedules>> /\ mode = "table"
    BY <1>9 DEF TableLine
  <2>2. ScheduleIdsValid'
    BY <2>1, SchedulesStay
  <2>3. CASE l.kind = "slot" /\ Resolve(l.name) # {}
    <3>1. PICK id \in Resolve(l.name) :
            open' = [open EXCEPT !.items = Append(@, [id |-> id, delay |-> Number(l.delay)])]
      BY <1>9, <2>3 DEF TableLine
    <3>2. id \in DOMAIN frames \cap 0..MaxID
      BY ResolveIsValid
    <3>3. Number(l.delay) \in Int
      BY <2>3, NumberIsInteger
    <3>4. [id |-> id, delay |-> Number(l.delay)] \in Slot(DOMAIN frames)
      BY <3>2, <3>3 DEF Slot
    <3>5. /\ OpenIsRecord' /\ open'.id = open.id
          /\ open'.items = Append(open.items, [id |-> id, delay |-> Number(l.delay)])
      BY <3>1 DEF OpenIsRecord
    <3>6. open'.items \in Seq(Slot(DOMAIN frames))
      BY <2>1, <3>4, <3>5 DEF OpenTableValid
    <3> QED BY <2>1, <2>2, <3>5, <3>6 DEF TypeOK, OpenTableValid
  <2>4. CASE ~(l.kind = "slot" /\ Resolve(l.name) # {})
    BY <1>9, <2>1, <2>2, <2>4 DEF TableLine, TypeOK, OpenIsRecord, OpenTableValid
  <2> QED BY <2>3, <2>4
<1>10. CASE CloseTable(l)
  <2>1. /\ ScheduleIdsValid'
        /\ DOMAIN frames' \subseteq 0..255
        /\ \A s \in DOMAIN signals' : signals'[s] \in 0..64
    BY <1>10, StoreTableValid DEF CloseTable
  <2>2. mode' = "Schedule_tables" /\ open' = NothingOpen /\ UNCHANGED fresh
    BY <1>10 DEF CloseTable
  <2>3. OpenIsRecord' /\ open'.id = 0
    BY <2>2, NothingOpenIsRecord
  <2> QED BY <2>1, <2>2, <2>3 DEF TypeOK, OpenTableValid, Sections
<1> QED BY <1>1, <1>2, <1>3, <1>4, <1>5, <1>6, <1>7, <1>8, <1>9, <1>10 DEF Line

LEMMA EndKeeps ==
    ASSUME PInv, EndOfFile
    PROVE  PInv'
<1>1. /\ ScheduleIdsValid'
      /\ DOMAIN frames' \subseteq 0..255
      /\ \A s \in DOMAIN signals' : signals'[s] \in 0..64
  <2>1. CASE mode = "frame"
    BY <2>1, StoreFrameValid DEF EndOfFile
  <2>2. CASE mode = "table"
    BY <2>2, StoreTableValid DEF EndOfFile
  <2>3. CASE mode \notin {"frame", "table"}
    <3>1. UNCHANGED <<signals, frames, schedules>>
      BY <2>3 DEF EndOfFile, db
    <3> QED BY <3>1, SchedulesStay DEF PInv, TypeOK
  <2> QED BY <2>1, <2>2, <2>3
<1>2. mode' = "done" /\ open' = NothingOpen /\ UNCHANGED fresh
  BY DEF EndOfFile
<1>3. OpenIsRecord' /\ open'.id = 0
  BY <1>2, NothingOpenIsRecord
<1>4. OpenTableValid'
  BY <1>2 DEF OpenTableValid
<1> QED BY <1>1, <1>2, <1>3, <1>4 DEF PInv, TypeOK

(* Every line of the writer is one the parser's lemma is about. *)
LEMMA WrittenLineOK ==
    ASSUME DocNext
    PROVE  (\E l : LineOK(l) /\ Line(l)) \/ EndOfFile
<1> USE DEF LineOK, Emit
<1>1. CASE WriteHeader
  BY <1>1 DEF WriteHeader
<1>2. CASE WriteBrace
  BY <1>2 DEF WriteBrace
<1>3. CASE WriteClose
  BY <1>3 DEF WriteClose
<1>4. CASE WriteOther
  BY <1>4 DEF WriteOther
<1>5. CASE WriteNodes
  BY <1>5 DEF WriteNodes
<1>6. CASE WriteTable
  BY <1>6 DEF WriteTable
<1>7. ASSUME NEW s \in Sections, NEW sameLine \in BOOLEAN, WriteSection(s, sameLine)
      PROVE  \E l : LineOK(l) /\ Line(l)
  BY <1>7 DEF WriteSection
<1>8. ASSUME NEW n \in SignalNames, NEW w \in Widths, WriteSignal(n, w)
      PROVE  \E l : LineOK(l) /\ Line(l)
  <2>1. w \in Numerals
    BY DocumentAssumption DEF Numerals
  <2> QED BY <1>8, <2>1 DEF WriteSignal
<1>9. ASSUME NEW n \in SignalNames, NEW o \in Offsets, WriteRef(n, o)
      PROVE  \E l : LineOK(l) /\ Line(l)
  BY <1>9 DEF WriteRef
<1>10. ASSUME NEW n \in FrameNames, NEW id \in Ids, WriteFrame(n, id)
       PROVE  \E l : LineOK(l) /\ Line(l)
  <2>1. id \in Numerals
    BY DocumentAssumption, LdfAssumption DEF Numerals
  <2> QED BY <1>10, <2>1 DEF WriteFrame
<1>11. ASSUME NEW id \in DOMAIN wanted.frames, NEW d \in Delays, WriteSlot(id, d)
       PROVE  \E l : LineOK(l) /\ Line(l)
  <2>1. d \in Numerals
    BY DocumentAssumption DEF Numerals
  <2> QED BY <1>11, <2>1 DEF WriteSlot
<1>12. ASSUME NEW l \in Lines, WriteAnything(l)
       PROVE  LineOK(l) /\ Line(l)
  BY <1>12, DocumentAssumption DEF WriteAnything
<1> QED BY <1>1, <1>2, <1>3, <1>4, <1>5, <1>6, <1>7, <1>8, <1>9, <1>10, <1>11, <1>12
        DEF DocNext

LEMMA InitParser == DocInit => PInv
<1> SUFFICES ASSUME DocInit PROVE PInv
  OBVIOUS
<1>1. PICK name, id, items : id = 0 /\ NothingOpen = [name |-> name, id |-> id, items |-> items]
  BY DEF NothingOpen
<1>2. open = [name |-> name, id |-> id, items |-> items]
  BY <1>1 DEF DocInit, Init
<1>3. OpenIsRecord /\ open.id = id
  BY <1>2 DEF OpenIsRecord
<1>4. open.id \in 0..255
  BY <1>1, <1>3
<1>5. DOMAIN << >> = {}
  OBVIOUS
<1>6. mode = "top" /\ fresh = FALSE /\ signals = << >> /\ frames = << >> /\ schedules = << >>
  BY DEF DocInit, Init
<1>7. TypeOK
  BY <1>4, <1>5, <1>6 DEF TypeOK
<1>8. ScheduleIdsValid
  BY <1>5, <1>6 DEF ScheduleIdsValid
<1>9. OpenTableValid
  BY <1>6 DEF OpenTableValid
<1> QED BY <1>3, <1>7, <1>8, <1>9 DEF PInv

LEMMA ParserStep == PInv /\ [DocNext]_vars => PInv'
<1> SUFFICES ASSUME PInv, [DocNext]_vars PROVE PInv'
  OBVIOUS
<1>1. CASE DocNext
  <2>1. CASE EndOfFile
    BY <2>1, EndKeeps
  <2>2. ASSUME NEW l, LineOK(l), Line(l)
        PROVE  PInv'
    BY <2>2, LineKeeps
  <2> QED BY <1>1, <2>1, <2>2, WrittenLineOK
<1>2. CASE UNCHANGED vars
  BY <1>2 DEF vars, parser, db, PInv, TypeOK, ScheduleIdsValid, OpenIsRecord, OpenTableValid
<1> QED BY <1>1, <1>2

(* What the parser keeps true through any lines, the section or table that *)
(* it is in the middle of included.                                        *)
THEOREM ParserInvariant == Spec => []PInv
<1> QED BY InitParser, ParserStep, PTL DEF Spec

(* parse, for any lines at all: no width that decode could not shift by,   *)
(* no identifier that is not a byte.                                       *)
THEOREM TypeCorrect == Spec => []TypeOK
<1>1. PInv => TypeOK
  BY DEF PInv
<1> QED BY <1>1, ParserInvariant, PTL

(* Whatever the file says, each slot of a parsed schedule is one that      *)
(* master::Node can send, and the database has the frame it is for.        *)
THEOREM SchedulesAreUsable == Spec => []ScheduleIdsValid
<1>1. PInv => ScheduleIdsValid
  BY DEF PInv
<1> QED BY <1>1, ParserInvariant, PTL

-----------------------------------------------------------------------------
(* A well-formed file: the writer and the parser go in lockstep.  What the *)
(* lines declare is the database with the frame or table that is open.     *)

IsWanted(w) == w = [header |-> w.header, nodes |-> w.nodes, signals |-> w.signals,
                    frames |-> w.frames, schedules |-> w.schedules, last |-> w.last]

(* The writer is in the section whose loop the parser runs, and the        *)
(* section's own "{" comes before anything else in it.                     *)
Aligned ==
    mode # "done" => at = mode /\ (brace => fresh /\ at \in Sections)

SameSoFar ==
    /\ header = wanted.header /\ nodes = wanted.nodes /\ signals = wanted.signals
    /\ wanted.frames = IF mode = "frame"
                       THEN Put(frames, open.id, [name |-> open.name, refs |-> open.items])
                       ELSE frames
    /\ wanted.schedules = IF mode = "table" THEN Put(schedules, open.name, open.items)
                                            ELSE schedules
    /\ mode = "frame" => wanted.last = open.id
    /\ mode = "table" => open.name = "T"

(* Each slot of a well-formed file has one frame it can mean. *)
NamesUnique ==
    /\ DOMAIN wanted.frames \subseteq Ids
    /\ \A i, j \in DOMAIN wanted.frames :
          wanted.frames[i].name = wanted.frames[j].name => i = j

Lockstep == IsWanted(wanted) /\ Aligned /\ SameSoFar /\ NamesUnique

LInv == OpenIsRecord /\ (wf => Lockstep)

LEMMA WithHeader ==
    ASSUME NEW w, IsWanted(w), NEW v, NEW u, u = [w EXCEPT !.header = v]
    PROVE  /\ IsWanted(u) /\ u.header = v
           /\ u.nodes = w.nodes /\ u.signals = w.signals /\ u.frames = w.frames
           /\ u.schedules = w.schedules /\ u.last = w.last
BY DEF IsWanted

LEMMA WithNodes ==
    ASSUME NEW w, IsWanted(w), NEW v, NEW u, u = [w EXCEPT !.nodes = v]
    PROVE  /\ IsWanted(u) /\ u.nodes = v
           /\ u.header = w.header /\ u.signals = w.signals /\ u.frames = w.frames
           /\ u.schedules = w.schedules /\ u.last = w.last
BY DEF IsWanted

LEMMA WithSignals ==
    ASSUME NEW w, IsWanted(w), NEW v, NEW u, u = [w EXCEPT !.signals = v]
    PROVE  /\ IsWanted(u) /\ u.signals = v
           /\ u.header = w.header /\ u.nodes = w.nodes /\ u.frames = w.frames
           /\ u.schedules = w.schedules /\ u.last = w.last
BY DEF IsWanted

LEMMA WithFrames ==
    ASSUME NEW w, IsWanted(w), NEW v, NEW u, u = [w EXCEPT !.frames = v]
    PROVE  /\ IsWanted(u) /\ u.frames = v
           /\ u.header = w.header /\ u.nodes = w.nodes /\ u.signals = w.signals
           /\ u.schedules = w.schedules /\ u.last = w.last
BY DEF IsWanted

LEMMA WithLast ==
    ASSUME NEW w, IsWanted(w), NEW v, NEW u, u = [w EXCEPT !.last = v]
    PROVE  /\ IsWanted(u) /\ u.last = v
           /\ u.header = w.header /\ u.nodes = w.nodes /\ u.signals = w.signals
           /\ u.frames = w.frames /\ u.schedules = w.schedules
BY DEF IsWanted

LEMMA WithSchedules ==
    ASSUME NEW w, IsWanted(w), NEW v, NEW u, u = [w EXCEPT !.schedules = v]
    PROVE  /\ IsWanted(u) /\ u.schedules = v
           /\ u.header = w.header /\ u.nodes = w.nodes /\ u.signals = w.signals
           /\ u.frames = w.frames /\ u.last = w.last
BY DEF IsWanted

(* The mode decides which loop of the parser takes the line. *)
LEMMA LineByMode ==
    ASSUME NEW l, Line(l)
    PROVE  /\ mode # "done"
           /\ mode = "top" => TopLine(l)
           /\ mode = "Nodes" => NodesLine(l)
           /\ mode = "Signals" => SignalsLine(l)
           /\ mode = "Frames" => FramesLine(l) \/ OpenFrame(l)
           /\ mode = "frame" => FrameLine(l) \/ CloseFrame(l)
           /\ mode = "Schedule_tables" => TablesLine(l) \/ OpenTable(l)
           /\ mode = "table" => TableLine(l) \/ CloseTable(l)
           /\ mode \in Sections \cup {"top", "frame", "table"}
BY DEF Line, TopLine, NodesLine, SignalsLine, FramesLine, OpenFrame, FrameLine, CloseFrame,
       TablesLine, OpenTable, TableLine, CloseTable, InSection, Sections

(* A line the parser skips leaves the database and what is open alone. *)
LEMMA Skipped ==
    ASSUME LInv, wf, NEW l, Line(l), UNCHANGED <<at, wf, wanted>>, ~brace',
           \/ l.kind = "other" /\ ~brace
           \/ l.kind = "open" /\ brace
    PROVE  Lockstep'
<1> USE DEF LInv, Lockstep
<1>1. at = mode /\ (brace => fresh /\ at \in Sections)
  BY LineByMode DEF Aligned
<1>2. UNCHANGED <<mode, open, header, nodes, signals, frames, schedules>>
  <2>1. CASE mode = "top"
    BY <1>1, <2>1, LineByMode DEF TopLine, Sections
  <2>2. CASE mode = "Nodes"
    BY <1>1, <2>2, LineByMode DEF NodesLine, InSection
  <2>3. CASE mode = "Signals"
    BY <1>1, <2>3, LineByMode DEF SignalsLine, InSection
  <2>4. CASE mode = "Frames"
    BY <1>1, <2>4, LineByMode DEF FramesLine, OpenFrame, InSection, db
  <2>5. CASE mode = "frame"
    BY <1>1, <2>5, LineByMode DEF FrameLine, CloseFrame, db
  <2>6. CASE mode = "Schedule_tables"
    BY <1>1, <2>6, LineByMode DEF TablesLine, OpenTable, OpensTable, InSection, db
  <2>7. CASE mode = "table"
    BY <1>1, <2>7, LineByMode DEF TableLine, CloseTable, db
  <2> QED BY <2>1, <2>2, <2>3, <2>4, <2>5, <2>6, <2>7, LineByMode DEF Sections
<1>3. Aligned'
  BY <1>1, <1>2 DEF Aligned
<1>4. SameSoFar'
  BY <1>2 DEF SameSoFar
<1>5. NamesUnique' /\ IsWanted(wanted')
  BY DEF NamesUnique
<1> QED BY <1>3, <1>4, <1>5

LEMMA StepHeader ==
    ASSUME LInv, wf, WriteHeader
    PROVE  Lockstep'
<1> USE DEF LInv, Lockstep
<1> DEFINE l == [kind |-> "header", field |-> "speed", value |-> 19]
           h == Put(wanted.header, "speed", 19)
<1>1. at = "top" /\ ~brace /\ Line(l) /\ UNCHANGED <<at, brace>>
      /\ wanted' = [wanted EXCEPT !.header = h]
  BY DEF WriteHeader, Ready, Emit, Stays
<1>2. mode = "top"
  BY <1>1, LineByMode DEF Aligned
<1>3. TopLine(l)
  BY <1>1, <1>2, LineByMode
<1>4. UNCHANGED <<mode, open, nodes, signals, frames, schedules>> /\ header' = Put(header, "speed", 19)
  BY <1>3 DEF TopLine
<1> HIDE DEF h
<1>5. /\ IsWanted(wanted') /\ wanted'.header = h
      /\ wanted'.nodes = wanted.nodes /\ wanted'.signals = wanted.signals
      /\ wanted'.frames = wanted.frames /\ wanted'.schedules = wanted.schedules
      /\ wanted'.last = wanted.last
  BY <1>1, WithHeader
<1>6. SameSoFar'
  BY <1>2, <1>4, <1>5 DEF SameSoFar, h
<1>7. NamesUnique'
  BY <1>5 DEF NamesUnique
<1>8. Aligned'
  BY <1>1, <1>2, <1>4 DEF Aligned
<1> QED BY <1>5, <1>6, <1>7, <1>8

LEMMA StepSection ==
    ASSUME LInv, wf, NEW s \in Sections, NEW sameLine \in BOOLEAN, WriteSection(s, sameLine)
    PROVE  Lockstep'
<1> USE DEF LInv, Lockstep
<1> DEFINE l == [kind |-> "section", name |-> s, brace |-> sameLine]
<1>1. at = "top" /\ ~brace /\ Line(l) /\ at' = s /\ brace' = ~sameLine /\ UNCHANGED wanted
  BY DEF WriteSection, Ready, Emit
<1>2. mode = "top"
  BY <1>1, LineByMode DEF Aligned
<1>3. TopLine(l)
  BY <1>1, <1>2, LineByMode
<1>4. /\ mode' = s /\ fresh' = TRUE
      /\ UNCHANGED <<header, open, nodes, signals, frames, schedules>>
  BY <1>3 DEF TopLine
<1>5. SameSoFar'
  BY <1>1, <1>2, <1>4 DEF SameSoFar, Sections
<1>6. NamesUnique' /\ IsWanted(wanted')
  BY <1>1 DEF NamesUnique
<1>7. Aligned'
  BY <1>1, <1>4 DEF Aligned
<1> QED BY <1>5, <1>6, <1>7

LEMMA StepNodes ==
    ASSUME LInv, wf, WriteNodes
    PROVE  Lockstep'
<1> USE DEF LInv, Lockstep
<1>1. PICK l, v : /\ at = "Nodes" /\ ~brace /\ Line(l) /\ UNCHANGED <<at, brace>>
                  /\ wanted' = [wanted EXCEPT !.nodes = v]
                  /\ \/ /\ l = [kind |-> "master", node |-> "M"]
                        /\ v = [wanted.nodes EXCEPT !.master = "M"]
                     \/ /\ l = [kind |-> "slaves", nodes |-> <<"S1", "S2">>]
                        /\ v = [wanted.nodes EXCEPT !.slaves = @ \o <<"S1", "S2">>]
  BY DEF WriteNodes, Ready, Emit, Stays
<1>2. mode = "Nodes"
  BY <1>1, LineByMode DEF Aligned
<1>3. NodesLine(l)
  BY <1>1, <1>2, LineByMode
<1>4. nodes' = v
  <2>1. nodes = wanted.nodes
    BY DEF SameSoFar
  <2>2. CASE l = [kind |-> "master", node |-> "M"]
    BY <1>1, <1>3, <2>1, <2>2 DEF NodesLine
  <2>3. CASE l = [kind |-> "slaves", nodes |-> <<"S1", "S2">>]
    BY <1>1, <1>3, <2>1, <2>3 DEF NodesLine
  <2> QED BY <1>1, <2>2, <2>3
<1>5. UNCHANGED <<mode, open, header, signals, frames, schedules>>
  BY <1>1, <1>2, <1>3 DEF NodesLine, InSection
<1>6. /\ IsWanted(wanted') /\ wanted'.nodes = v
      /\ wanted'.header = wanted.header /\ wanted'.signals = wanted.signals
      /\ wanted'.frames = wanted.frames /\ wanted'.schedules = wanted.schedules
      /\ wanted'.last = wanted.last
  BY <1>1, WithNodes
<1>7. SameSoFar'
  BY <1>4, <1>5, <1>6 DEF SameSoFar
<1>8. NamesUnique'
  BY <1>6 DEF NamesUnique
<1>9. Aligned'
  BY <1>1, <1>2, <1>5 DEF Aligned
<1> QED BY <1>6, <1>7, <1>8, <1>9

LEMMA StepSignal ==
    ASSUME LInv, wf, NEW n \in SignalNames, NEW w \in Widths, WriteSignal(n, w)
    PROVE  Lockstep'
<1> USE DEF LInv, Lockstep
<1> DEFINE l == [kind |-> "signal", name |-> n, width |-> w]
           v == Put(wanted.signals, n, w)
<1>1. at = "Signals" /\ ~brace /\ Line(l) /\ UNCHANGED <<at, brace>>
      /\ wanted' = [wanted EXCEPT !.signals = v]
  BY DEF WriteSignal, Ready, Emit, Stays
<1>2. mode = "Signals"
  BY <1>1, LineByMode DEF Aligned
<1>3. SignalsLine(l)
  BY <1>1, <1>2, LineByMode
<1>4. Clamp(Number(w)) = w
  <2>1. w \in 0..64 /\ w # BadNumber
    BY DocumentAssumption, LdfAssumption
  <2>2. Number(w) = w
    BY <2>1 DEF Number
  <2> QED BY <2>1, <2>2 DEF Clamp
<1>5. signals' = v /\ UNCHANGED <<mode, open, header, nodes, frames, schedules>>
  <2>1. signals' = Put(signals, n, Clamp(Number(w)))
    BY <1>3 DEF SignalsLine
  <2>2. signals = wanted.signals
    BY DEF SameSoFar
  <2> QED BY <1>2, <1>3, <1>4, <2>1, <2>2 DEF SignalsLine, InSection
<1> HIDE DEF v
<1>6. /\ IsWanted(wanted') /\ wanted'.signals = v
      /\ wanted'.header = wanted.header /\ wanted'.nodes = wanted.nodes
      /\ wanted'.frames = wanted.frames /\ wanted'.schedules = wanted.schedules
      /\ wanted'.last = wanted.last
  BY <1>1, WithSignals
<1>7. SameSoFar'
  BY <1>5, <1>6 DEF SameSoFar
<1>8. NamesUnique'
  BY <1>6 DEF NamesUnique
<1>9. Aligned'
  BY <1>1, <1>2, <1>5 DEF Aligned
<1> QED BY <1>6, <1>7, <1>8, <1>9

(* The first line of a frame: what it declares is the frame now open, with *)
(* no signals yet.                                                         *)
LEMMA StepFrame ==
    ASSUME LInv, wf, NEW n \in FrameNames, NEW id \in Ids, WriteFrame(n, id)
    PROVE  Lockstep'
<1> USE DEF LInv, Lockstep
<1> DEFINE l == [kind |-> "frame", name |-> n, id |-> id]
           new == [name |-> n, refs |-> << >>]
           v == Put(wanted.frames, id, new)
<1>1. /\ at = "Frames" /\ ~brace /\ Line(l) /\ at' = "frame" /\ UNCHANGED brace
      /\ wanted' = [[wanted EXCEPT !.frames = v] EXCEPT !.last = id]
      /\ id \notin DOMAIN wanted.frames
      /\ \A i \in DOMAIN wanted.frames : wanted.frames[i].name # n
  BY DEF WriteFrame, Ready, Emit, Goes
<1>2. mode = "Frames"
  BY <1>1, LineByMode DEF Aligned
<1>3. OpenFrame(l)
  BY <1>1, <1>2, LineByMode DEF FramesLine
<1>4. FrameId(id) = id
  <2>1. id \in 0..254 /\ id # BadNumber
    BY DocumentAssumption, LdfAssumption
  <2>2. Number(id) = id
    BY <2>1 DEF Number
  <2> QED BY <2>1, <2>2 DEF FrameId
<1>5. PICK items : items = << >> /\ open' = [name |-> n, id |-> id, items |-> items]
  BY <1>3, <1>4 DEF OpenFrame
<1>6. open'.name = n /\ open'.id = id /\ open'.items = items
  BY <1>5
<1>7. mode' = "frame" /\ UNCHANGED <<header, nodes, signals, frames, schedules>>
  BY <1>3 DEF OpenFrame, db
<1> HIDE DEF v, new
<1>8. PICK u : u = [wanted EXCEPT !.frames = v]
  OBVIOUS
<1>9. /\ IsWanted(wanted') /\ wanted'.frames = v /\ wanted'.last = id
      /\ wanted'.header = wanted.header /\ wanted'.nodes = wanted.nodes
      /\ wanted'.signals = wanted.signals /\ wanted'.schedules = wanted.schedules
  <2>1. wanted' = [u EXCEPT !.last = id]
    BY <1>1, <1>8
  <2>2. /\ IsWanted(u) /\ u.frames = v
        /\ u.header = wanted.header /\ u.nodes = wanted.nodes
        /\ u.signals = wanted.signals /\ u.schedules = wanted.schedules
    BY <1>8, WithFrames
  <2>3. /\ IsWanted(wanted') /\ wanted'.last = id /\ wanted'.frames = u.frames
        /\ wanted'.header = u.header /\ wanted'.nodes = u.nodes
        /\ wanted'.signals = u.signals /\ wanted'.schedules = u.schedules
    <3>1. IsWanted(u)
      BY <2>2
    <3> QED BY ONLY <2>1, <3>1, WithLast
  <2> QED BY <2>2, <2>3
<1>10. v = Put(frames', open'.id, [name |-> open'.name, refs |-> open'.items])
  <2>1. wanted.frames = frames
    BY <1>2 DEF SameSoFar
  <2>2. new = [name |-> open'.name, refs |-> open'.items]
    BY <1>5, <1>6 DEF new
  <2> QED BY <1>6, <1>7, <2>1, <2>2 DEF v
<1>11. SameSoFar'
  BY <1>2, <1>6, <1>7, <1>9, <1>10 DEF SameSoFar
<1>12. NamesUnique'
  <2>1. DOMAIN v = DOMAIN wanted.frames \cup {id}
    BY PutDomain DEF v
  <2>2. \A i \in DOMAIN wanted.frames \cup {id} : v[i] = IF i = id THEN new ELSE wanted.frames[i]
    BY PutAt DEF v
  <2>3. new.name = n
    BY DEF new
  <2>4. \A i \in DOMAIN v : v[i].name = IF i = id THEN n ELSE wanted.frames[i].name
    BY <2>1, <2>2, <2>3
  <2> QED BY <1>1, <1>9, <2>1, <2>4 DEF NamesUnique
<1>13. Aligned'
  BY <1>1, <1>7 DEF Aligned
<1> QED BY <1>9, <1>11, <1>12, <1>13

LEMMA StepRef ==
    ASSUME LInv, wf, NEW n \in SignalNames, NEW o \in Offsets, WriteRef(n, o)
    PROVE  Lockstep'
<1> USE DEF LInv, Lockstep
<1> DEFINE l == [kind |-> "ref", name |-> n, offset |-> o]
           id == wanted.last
           ref == [name |-> n, offset |-> o]
           was == [name |-> open.name, refs |-> open.items]
           now == [name |-> open.name, refs |-> Append(open.items, ref)]
           v == [wanted.frames EXCEPT ![id].refs = Append(@, ref)]
<1>1. /\ at = "frame" /\ ~brace /\ Line(l) /\ UNCHANGED <<at, brace>>
      /\ wanted' = [wanted EXCEPT !.frames = v]
  BY DEF WriteRef, Ready, Emit, Stays
<1>2. mode = "frame"
  BY <1>1, LineByMode DEF Aligned
<1>3. FrameLine(l)
  BY <1>1, <1>2, LineByMode DEF CloseFrame
<1>4. RefOf(l) = ref
  <2>1. o # BadNumber
    BY DocumentAssumption, LdfAssumption
  <2> QED BY <2>1 DEF RefOf, Number
<1> HIDE DEF ref
<1>5. open' = [open EXCEPT !.items = Append(@, ref)]
  BY <1>3, <1>4 DEF FrameLine
<1>6. open'.name = open.name /\ open'.id = open.id /\ open'.items = Append(open.items, ref)
  BY <1>5 DEF OpenIsRecord
<1>7. UNCHANGED <<mode, header, nodes, signals, frames, schedules>>
  BY <1>3 DEF FrameLine, db
<1>8. wanted.frames = Put(frames, id, was) /\ id = open.id
  BY <1>2 DEF SameSoFar
<1>9. v = Put(frames, id, now)
  <2>1. wanted.frames[id] = was
    BY <1>8, PutAt
  <2>2. [was EXCEPT !.refs = Append(was.refs, ref)] = now
    OBVIOUS
  <2>3. v = [wanted.frames EXCEPT ![id] = [wanted.frames[id] EXCEPT
                                              !.refs = Append(wanted.frames[id].refs, ref)]]
    OBVIOUS
  <2>4. was.refs = open.items
    OBVIOUS
  <2> HIDE DEF was, now, v
  <2>5. [wanted.frames[id] EXCEPT !.refs = Append(wanted.frames[id].refs, ref)] = now
    BY <2>1, <2>2
  <2>6. v = [Put(frames, id, was) EXCEPT ![id] = now]
    BY <1>8, <2>3, <2>5
  <2> QED BY <2>6, PutTwice
<1>10. now.name = was.name
  OBVIOUS
<1>11. now = [name |-> open.name, refs |-> Append(open.items, ref)]
  OBVIOUS
<1> HIDE DEF was, now
<1> HIDE DEF v
<1>12. /\ IsWanted(wanted') /\ wanted'.frames = v
       /\ wanted'.header = wanted.header /\ wanted'.nodes = wanted.nodes
       /\ wanted'.signals = wanted.signals /\ wanted'.schedules = wanted.schedules
       /\ wanted'.last = wanted.last
  BY <1>1, WithFrames
<1>13. SameSoFar'
  BY <1>2, <1>6, <1>7, <1>8, <1>9, <1>11, <1>12 DEF SameSoFar
<1>14. NamesUnique'
  <2>1. DOMAIN v = DOMAIN wanted.frames
    <3>1. DOMAIN Put(frames, id, was) = DOMAIN frames \cup {id}
      BY PutDomain
    <3>2. DOMAIN Put(frames, id, now) = DOMAIN frames \cup {id}
      BY PutDomain
    <3> QED BY <1>8, <1>9, <3>1, <3>2
  <2>2. \A i \in DOMAIN v : v[i].name = wanted.frames[i].name
    <3>1. \A i \in DOMAIN frames \cup {id} : v[i] = IF i = id THEN now ELSE frames[i]
      BY <1>9, PutAt
    <3>2. \A i \in DOMAIN frames \cup {id} :
             wanted.frames[i] = IF i = id THEN was ELSE frames[i]
      BY <1>8, PutAt
    <3>3. DOMAIN v = DOMAIN frames \cup {id}
      BY <1>9, PutDomain
    <3> QED BY <1>10, <3>1, <3>2, <3>3
  <2> QED BY <1>12, <2>1, <2>2 DEF NamesUnique
<1>15. Aligned'
  BY <1>1, <1>2, <1>7 DEF Aligned
<1> QED BY <1>12, <1>13, <1>14, <1>15

LEMMA StepTable ==
    ASSUME LInv, wf, WriteTable
    PROVE  Lockstep'
<1> USE DEF LInv, Lockstep
<1> DEFINE l == [kind |-> "table", name |-> "T"]
           v == Put(wanted.schedules, "T", << >>)
<1>1. /\ at = "Schedule_tables" /\ ~brace /\ Line(l) /\ at' = "table" /\ UNCHANGED brace
      /\ wanted' = [wanted EXCEPT !.schedules = v]
  BY DEF WriteTable, Ready, Emit, Goes
<1>2. mode = "Schedule_tables"
  BY <1>1, LineByMode DEF Aligned
<1>3. OpenTable(l)
  BY <1>1, <1>2, LineByMode DEF TablesLine, OpensTable
<1>4. PICK id, items : id = 0 /\ items = << >> /\ open' = [name |-> "T", id |-> id, items |-> items]
  BY <1>3 DEF OpenTable, TableName
<1>5. open'.name = "T" /\ open'.items = items
  BY <1>4
<1>6. mode' = "table" /\ UNCHANGED <<header, nodes, signals, frames, schedules>>
  BY <1>3 DEF OpenTable, db
<1>7. v = Put(schedules, "T", items)
  BY <1>2, <1>4 DEF SameSoFar
<1> HIDE DEF v
<1>8. /\ IsWanted(wanted') /\ wanted'.schedules = v
      /\ wanted'.header = wanted.header /\ wanted'.nodes = wanted.nodes
      /\ wanted'.signals = wanted.signals /\ wanted'.frames = wanted.frames
      /\ wanted'.last = wanted.last
  BY <1>1, WithSchedules
<1>9. SameSoFar'
  BY <1>2, <1>5, <1>6, <1>7, <1>8 DEF SameSoFar
<1>10. NamesUnique'
  BY <1>8 DEF NamesUnique
<1>11. Aligned'
  BY <1>1, <1>6 DEF Aligned
<1> QED BY <1>8, <1>9, <1>10, <1>11

(* A slot names one frame of the file, and the parser, which has all the   *)
(* frames declared so far, finds that one.                                 *)
LEMMA StepSlot ==
    ASSUME LInv, wf, NEW id \in DOMAIN wanted.frames, NEW d \in Delays, WriteSlot(id, d)
    PROVE  Lockstep'
<1> USE DEF LInv, Lockstep
<1> DEFINE name == wanted.frames[id].name
           l == [kind |-> "slot", name |-> name, delay |-> d]
           slot == [id |-> id, delay |-> d]
           v == [wanted.schedules EXCEPT !["T"] = Append(@, slot)]
<1>1. /\ at = "table" /\ ~brace /\ Line(l) /\ UNCHANGED <<at, brace>>
      /\ wanted' = [wanted EXCEPT !.schedules = v]
  BY DEF WriteSlot, Ready, Emit, Stays
<1>2. mode = "table"
  BY <1>1, LineByMode DEF Aligned
<1>3. TableLine(l)
  BY <1>1, <1>2, LineByMode DEF CloseTable
<1>4. Resolve(name) = {id}
  <2>1. frames = wanted.frames
    BY <1>2 DEF SameSoFar
  <2>2. {i \in DOMAIN frames : frames[i].name = name} = {id}
    BY <2>1 DEF NamesUnique
  <2>3. id \in 0..MaxID
    BY DocumentAssumption DEF NamesUnique
  <2>4. id <= MaxID /\ id <= id
    BY <2>3, LdfAssumption
  <2> QED BY <2>2, <2>4 DEF Resolve
<1>5. Number(d) = d
  <2>1. d # BadNumber
    BY DocumentAssumption, LdfAssumption
  <2> QED BY <2>1 DEF Number
<1>6. open' = [open EXCEPT !.items = Append(@, slot)]
  <2>1. l.kind = "slot" /\ Resolve(l.name) # {}
    BY <1>4
  <2>2. \E i \in Resolve(name) :
           open' = [open EXCEPT !.items = Append(@, [id |-> i, delay |-> Number(d)])]
    BY <1>3, <2>1 DEF TableLine
  <2> QED BY <1>4, <1>5, <2>2
<1>7. UNCHANGED <<mode, header, nodes, signals, frames, schedules>>
  BY <1>3 DEF TableLine, db
<1> HIDE DEF slot
<1>8. open'.name = open.name /\ open'.items = Append(open.items, slot)
  BY <1>6 DEF OpenIsRecord
<1>9. wanted.schedules = Put(schedules, "T", open.items) /\ open.name = "T"
  BY <1>2 DEF SameSoFar
<1>10. v = Put(schedules, "T", Append(open.items, slot))
  <2>1. wanted.schedules["T"] = open.items
    BY <1>9, PutAt
  <2>2. v = [wanted.schedules EXCEPT !["T"] = Append(wanted.schedules["T"], slot)]
    OBVIOUS
  <2> HIDE DEF v
  <2>3. v = [Put(schedules, "T", open.items) EXCEPT !["T"] = Append(open.items, slot)]
    BY <1>9, <2>1, <2>2
  <2>4. PICK key, new : key = "T" /\ new = Append(open.items, slot)
    OBVIOUS
  <2>5. [Put(schedules, key, open.items) EXCEPT ![key] = new] = Put(schedules, key, new)
    BY PutTwice
  <2> QED BY <2>3, <2>4, <2>5
<1> HIDE DEF v
<1>11. /\ IsWanted(wanted') /\ wanted'.schedules = v
       /\ wanted'.header = wanted.header /\ wanted'.nodes = wanted.nodes
       /\ wanted'.signals = wanted.signals /\ wanted'.frames = wanted.frames
       /\ wanted'.last = wanted.last
  BY <1>1, WithSchedules
<1>12. SameSoFar'
  BY <1>2, <1>7, <1>8, <1>9, <1>10, <1>11 DEF SameSoFar
<1>13. NamesUnique'
  BY <1>11 DEF NamesUnique
<1>14. Aligned'
  BY <1>1, <1>2, <1>7 DEF Aligned
<1> QED BY <1>11, <1>12, <1>13, <1>14

(* A "}" ends what is open, or the section. *)
LEMMA StepClose ==
    ASSUME LInv, wf, WriteClose
    PROVE  Lockstep'
<1> USE DEF LInv, Lockstep
<1> DEFINE l == [kind |-> "close"]
           to == CASE at = "frame" -> "Frames"
                   [] at = "table" -> "Schedule_tables"
                   [] OTHER -> "top"
<1>1. ~brace /\ at # "top" /\ Line(l) /\ at' = to /\ UNCHANGED <<brace, wanted>>
  BY DEF WriteClose, Emit, Goes
<1>2. mode = at /\ mode \in Sections \cup {"frame", "table"}
  BY <1>1, LineByMode DEF Aligned
<1>3. NamesUnique' /\ IsWanted(wanted')
  BY <1>1 DEF NamesUnique
<1>4. CASE mode = "frame"
  <2>1. StoreFrame /\ mode' = "Frames"
    BY <1>1, <1>4, LineByMode DEF FrameLine, CloseFrame
  <2>2. SameSoFar'
    BY <1>1, <1>4, <2>1 DEF SameSoFar, StoreFrame
  <2>3. Aligned'
    BY <1>1, <1>2, <1>4, <2>1 DEF Aligned
  <2> QED BY <1>3, <2>2, <2>3
<1>5. CASE mode = "table"
  <2>1. StoreTable /\ mode' = "Schedule_tables"
    BY <1>1, <1>5, LineByMode DEF TableLine, CloseTable
  <2>2. SameSoFar'
    BY <1>1, <1>5, <2>1 DEF SameSoFar, StoreTable
  <2>3. Aligned'
    BY <1>1, <1>2, <1>5, <2>1 DEF Aligned
  <2> QED BY <1>3, <2>2, <2>3
<1>6. CASE mode \in Sections
  <2> l.kind = "close"
    OBVIOUS
  <2> HIDE DEF l
  <2>1. /\ mode' = "top"
        /\ UNCHANGED <<header, nodes, signals, frames, schedules>>
    <3>1. CASE mode = "Nodes"
      BY <1>1, <3>1, LineByMode DEF NodesLine, InSection
    <3>2. CASE mode = "Signals"
      BY <1>1, <3>2, LineByMode DEF SignalsLine, InSection
    <3>3. CASE mode = "Frames"
      BY <1>1, <3>3, LineByMode DEF FramesLine, OpenFrame, InSection, db
    <3>4. CASE mode = "Schedule_tables"
      BY <1>1, <3>4, LineByMode DEF TablesLine, OpenTable, OpensTable, InSection, db
    <3> QED BY <1>6, <3>1, <3>2, <3>3, <3>4 DEF Sections
  <2>2. SameSoFar'
    BY <1>1, <1>6, <2>1 DEF SameSoFar, Sections
  <2>3. at' = "top"
    BY <1>1, <1>2, <1>6 DEF Sections
  <2>4. Aligned'
    BY <1>1, <2>1, <2>3 DEF Aligned
  <2> QED BY <1>3, <2>2, <2>4
<1> QED BY <1>2, <1>4, <1>5, <1>6

(* The file may end anywhere: what is open is stored. *)
LEMMA StepEnd ==
    ASSUME LInv, wf, EndOfFile, UNCHANGED writer
    PROVE  Lockstep'
<1> USE DEF LInv, Lockstep
<1>1. mode' = "done" /\ UNCHANGED wanted
  BY DEF EndOfFile, writer
<1>2. NamesUnique' /\ IsWanted(wanted') /\ Aligned'
  BY <1>1 DEF NamesUnique, Aligned
<1>3. SameSoFar'
  <2>1. CASE mode = "frame"
    BY <1>1, <2>1 DEF SameSoFar, EndOfFile, StoreFrame
  <2>2. CASE mode = "table"
    BY <1>1, <2>2 DEF SameSoFar, EndOfFile, StoreTable
  <2>3. CASE mode \notin {"frame", "table"}
    BY <1>1, <2>3 DEF SameSoFar, EndOfFile, db
  <2> QED BY <2>1, <2>2, <2>3
<1> QED BY <1>2, <1>3

-----------------------------------------------------------------------------
LEMMA LockstepInit == DocInit => LInv
<1> SUFFICES ASSUME DocInit PROVE LInv
  OBVIOUS
<1>1. OpenIsRecord
  BY InitParser DEF PInv
<1>2. mode = "top" /\ at = "top" /\ brace = FALSE
  BY DEF DocInit, Init
<1>3. PICK h, n, s, f, t, last :
        /\ Nothing = [header |-> h, nodes |-> n, signals |-> s, frames |-> f,
                      schedules |-> t, last |-> last]
        /\ header = h /\ nodes = n /\ signals = s /\ frames = f /\ schedules = t
        /\ f = << >>
  BY DEF DocInit, Init, Nothing
<1>4. wanted = [header |-> h, nodes |-> n, signals |-> s, frames |-> f,
                schedules |-> t, last |-> last]
  BY <1>3 DEF DocInit
<1>5. /\ IsWanted(wanted) /\ wanted.header = h /\ wanted.nodes = n /\ wanted.signals = s
      /\ wanted.frames = f /\ wanted.schedules = t
  BY <1>4 DEF IsWanted
<1>6. SameSoFar
  BY <1>2, <1>3, <1>5 DEF SameSoFar
<1>7. DOMAIN wanted.frames = {}
  BY <1>3, <1>5
<1>8. NamesUnique
  BY <1>7 DEF NamesUnique
<1>9. Aligned
  BY <1>2 DEF Aligned
<1> QED BY <1>1, <1>5, <1>6, <1>8, <1>9 DEF LInv, Lockstep

LEMMA LockstepStep == PInv /\ LInv /\ [DocNext]_vars => LInv'
<1> SUFFICES ASSUME PInv, LInv, [DocNext]_vars PROVE LInv'
  OBVIOUS
<1>1. OpenIsRecord'
  BY ParserStep DEF PInv
<1>2. SUFFICES ASSUME wf' PROVE Lockstep'
  BY <1>1 DEF LInv
<1>3. CASE UNCHANGED vars
  BY <1>2, <1>3 DEF vars, parser, writer, db, LInv, Lockstep, IsWanted, Aligned, SameSoFar,
                    NamesUnique
<1>4. CASE WriteHeader
  BY <1>4, StepHeader DEF WriteHeader, Ready
<1>5. CASE WriteBrace
  BY <1>5, Skipped DEF WriteBrace, Emit
<1>6. CASE WriteOther
  BY <1>6, Skipped DEF WriteOther, Emit, Stays
<1>7. CASE WriteClose
  BY <1>7, StepClose DEF WriteClose
<1>8. CASE WriteNodes
  BY <1>8, StepNodes DEF WriteNodes, Ready
<1>9. CASE WriteTable
  BY <1>9, StepTable DEF WriteTable, Ready
<1>10. ASSUME NEW s \in Sections, NEW sameLine \in BOOLEAN, WriteSection(s, sameLine)
       PROVE  Lockstep'
  BY <1>10, StepSection DEF WriteSection, Ready
<1>11. ASSUME NEW n \in SignalNames, NEW w \in Widths, WriteSignal(n, w)
       PROVE  Lockstep'
  BY <1>11, StepSignal DEF WriteSignal, Ready
<1>12. ASSUME NEW n \in SignalNames, NEW o \in Offsets, WriteRef(n, o)
       PROVE  Lockstep'
  BY <1>12, StepRef DEF WriteRef, Ready
<1>13. ASSUME NEW n \in FrameNames, NEW id \in Ids, WriteFrame(n, id)
       PROVE  Lockstep'
  BY <1>13, StepFrame DEF WriteFrame, Ready
<1>14. ASSUME NEW id \in DOMAIN wanted.frames, NEW d \in Delays, WriteSlot(id, d)
       PROVE  Lockstep'
  BY <1>14, StepSlot DEF WriteSlot, Ready
<1>15. ASSUME NEW l \in Lines, WriteAnything(l)
       PROVE  Lockstep'
  BY <1>2, <1>15 DEF WriteAnything
<1>16. CASE EndOfFile /\ UNCHANGED writer
  BY <1>2, <1>16, StepEnd DEF writer
<1> QED BY <1>3, <1>4, <1>5, <1>6, <1>7, <1>8, <1>9, <1>10, <1>11, <1>12, <1>13, <1>14,
           <1>15, <1>16 DEF DocNext

(* What the lines of a well-formed file declare, cut anywhere, is what the *)
(* database has: nothing is lost, added or changed.                        *)
THEOREM ParsedAsDeclared == Spec => []DeclaredIsParsed
<1>1. LInv => DeclaredIsParsed
  BY DEF LInv, Lockstep, SameSoFar, DeclaredIsParsed
<1>2. Spec => []LInv
  BY InitParser, ParserStep, LockstepInit, LockstepStep, PTL DEF Spec
<1> QED BY <1>1, <1>2, PTL

-----------------------------------------------------------------------------
(* Induction over the natural numbers, by the least counterexample, and    *)
(* the existence of functions that are defined by recursion.               *)

LEMMA UpTo ==
    ASSUME NEW n \in Nat, NEW S, 1 \in S,
           \A i \in 1..n - 1 : i \in S => i + 1 \in S
    PROVE  \A i \in 1..n : i \in S
<1> DEFINE T == {i \in Nat : 1 <= i /\ i <= n /\ i \notin S}
<1>1. SUFFICES ASSUME T # {} PROVE FALSE
  OBVIOUS
<1>2. T \subseteq Nat
  OBVIOUS
<1>3. PICK x \in T : \A y \in T : ~(<<y, x>> \in OpToRel(<, Nat))
  <2> HIDE DEF T
  <2> QED BY <1>1, <1>2, NatLessThanWellFounded, WFMin
<1>4. x \in Nat /\ 1 <= x /\ x <= n /\ x \notin S /\ x # 1
  OBVIOUS
<1>5. x - 1 \in Nat /\ 1 <= x - 1 /\ x - 1 <= n /\ x - 1 < x /\ x - 1 \in 1..n - 1
      /\ (x - 1) + 1 = x
  BY <1>4
<1>6. x - 1 \notin T
  <2> HIDE DEF T
  <2>1. <<x - 1, x>> \in OpToRel(<, Nat)
    BY <1>4, <1>5 DEF OpToRel
  <2> QED BY <2>1, <1>3
<1>7. x - 1 \in S
  BY <1>6, <1>5
<1> QED BY <1>4, <1>5, <1>7

(* One step per position, each from a value to a value of V ... *)
StepFunctions(n, V) == [1..n -> [V -> V]]

(* ... and what iterating them from base gives. *)
Iterates(f, F, base, n) ==
    \A i \in 1..n : f[i] = F[i][IF i = 1 THEN base ELSE f[i - 1]]

(* A function that is defined by recursion on the positions exists. *)
LEMMA Recursion ==
    ASSUME NEW n \in Nat, NEW V, NEW base \in V, NEW F \in StepFunctions(n, V)
    PROVE  \E f \in [1..n -> V] : Iterates(f, F, base, n)
<1> DEFINE S == {k \in 1..n : \E f \in [1..k -> V] : Iterates(f, F, base, k)}
<1> USE DEF Iterates, StepFunctions
<1>1. CASE n = 0
  <2>1. [i \in 1..n |-> base] \in [1..n -> V]
    OBVIOUS
  <2>2. 1..n = {}
    BY <1>1
  <2> QED BY <2>1, <2>2
<1>2. CASE n # 0
  <2>1. 1 \in S
    <3> DEFINE g == [i \in 1..1 |-> F[1][base]]
    <3>1. g \in [1..1 -> V] /\ g[1] = F[1][base] /\ 1 \in 1..n
      BY <1>2
    <3>2. Iterates(g, F, base, 1)
      <4> HIDE DEF g
      <4> QED BY <3>1
    <3> HIDE DEF g
    <3> QED BY <3>1, <3>2
  <2>2. ASSUME NEW k \in 1..n - 1, k \in S PROVE k + 1 \in S
    <3>1. PICK f \in [1..k -> V] : Iterates(f, F, base, k)
      BY <2>2
    <3> DEFINE g == [i \in 1..k + 1 |-> IF i = k + 1 THEN F[k + 1][f[k]] ELSE f[i]]
    <3>2. g \in [1..k + 1 -> V]
      OBVIOUS
    <3>3. ASSUME NEW i \in 1..k + 1 PROVE g[i] = F[i][IF i = 1 THEN base ELSE g[i - 1]]
      BY <3>1
    <3>4. Iterates(g, F, base, k + 1)
      <4> HIDE DEF g
      <4> QED BY <3>3
    <3> HIDE DEF g
    <3> QED BY <3>2, <3>4
  <2>3. n \in S
    <3> HIDE DEF S
    <3>1. \A i \in 1..n : i \in S
      BY <2>1, <2>2, UpTo
    <3> QED BY <1>2, <3>1
  <2> QED BY <2>3
<1> QED BY <1>1, <1>2

LEMMA EveryNumber ==
    ASSUME NEW S, 0 \in S, \A n \in Nat : n \in S => n + 1 \in S
    PROVE  \A n \in Nat : n \in S
<1> SUFFICES ASSUME NEW n \in Nat PROVE n \in S
  OBVIOUS
<1>1. CASE n = 0
  BY <1>1
<1>2. CASE n # 0
  <2>1. 1 \in S
    <3>1. 0 \in Nat /\ 0 + 1 = 1
      OBVIOUS
    <3> QED BY <3>1
  <2>2. \A i \in 1..n - 1 : i \in S => i + 1 \in S
    OBVIOUS
  <2>3. \A i \in 1..n : i \in S
    BY <2>1, <2>2, UpTo
  <2> QED BY <1>2, <2>3
<1> QED BY <1>1, <1>2

-----------------------------------------------------------------------------
(* Quotients by any divisor *)

LEMMA DivOf ==
    ASSUME NEW p \in Nat \ {0}, NEW a \in Nat
    PROVE  a \div p \in Nat /\ a % p \in 0..p - 1 /\ a = p * (a \div p) + (a % p)
OBVIOUS

LEMMA TimesMonotone ==
    ASSUME NEW p \in Nat \ {0}, NEW q \in Int, NEW d \in Int, q < d
    PROVE  p * q + p <= p * d
<1>1. PICK e \in Nat : d = q + 1 + e
  <2>1. d - q - 1 \in Nat /\ d = q + 1 + (d - q - 1)
    OBVIOUS
  <2> QED BY <2>1
<1>2. p * d = p * q + p + p * e
  BY <1>1
<1>3. p * e \in Nat
  OBVIOUS
<1>4. p * q \in Int
  OBVIOUS
<1> QED BY <1>2, <1>3, <1>4

(* Quotient and remainder are unique. *)
LEMMA DivIs ==
    ASSUME NEW p \in Nat \ {0}, NEW q \in Nat, NEW r \in Nat, r < p
    PROVE  (p * q + r) \div p = q /\ (p * q + r) % p = r
<1>1. PICK a \in Nat : a = p * q + r
  OBVIOUS
<1>2. PICK d \in Nat, s \in 0..p - 1 : d = a \div p /\ s = a % p /\ a = p * d + s
  BY DivOf
<1>3. ~(q < d)
  <2>1. SUFFICES ASSUME q < d PROVE FALSE
    OBVIOUS
  <2>2. p * q + p <= p * d
    BY <2>1, TimesMonotone
  <2>3. p * q \in Nat /\ p * d \in Nat
    OBVIOUS
  <2> QED BY <1>1, <1>2, <2>2, <2>3
<1>4. ~(d < q)
  <2>1. SUFFICES ASSUME d < q PROVE FALSE
    OBVIOUS
  <2>2. p * d + p <= p * q
    BY <2>1, TimesMonotone
  <2>3. p * q \in Nat /\ p * d \in Nat
    OBVIOUS
  <2> QED BY <1>1, <1>2, <2>2, <2>3
<1>5. q = d
  BY <1>3, <1>4
<1>6. r = s
  <2>1. p * q \in Nat
    OBVIOUS
  <2> QED BY <1>1, <1>2, <1>5, <2>1
<1> QED BY <1>1, <1>2, <1>5, <1>6

(* Half of a quotient, and the remainder of twice the divisor. *)
LEMMA HalfMore ==
    ASSUME NEW p \in Nat \ {0}, NEW a \in Nat
    PROVE  /\ (a \div p) \div 2 = a \div (2 * p)
           /\ a % (2 * p) = (a % p) + ((a \div p) % 2) * p
<1>1. PICK q \in Nat, r \in 0..p - 1 : q = a \div p /\ r = a % p /\ a = p * q + r
  BY DivOf
<1>2. PICK e \in Nat, b \in 0..1 : e = q \div 2 /\ b = q % 2 /\ q = 2 * e + b
  <2>1. q \div 2 \in Nat /\ q % 2 \in 0..1 /\ q = 2 * (q \div 2) + (q % 2)
    OBVIOUS
  <2> QED BY <2>1
<1>3. a = (2 * p) * e + (b * p + r)
  <2>1. PICK x \in Int, y \in Int : x = p * e /\ y = p * b
    OBVIOUS
  <2>2. p * q = 2 * x + y
    <3>1. p * q = p * (2 * e) + p * b
      BY <1>2
    <3>2. p * (2 * e) = 2 * x
      BY <2>1
    <3> QED BY <3>1, <3>2, <2>1
  <2>3. (2 * p) * e = 2 * x
    BY <2>1
  <2>4. b * p = y
    BY <2>1
  <2> QED BY <1>1, <2>2, <2>3, <2>4
<1>4. b * p + r \in Nat /\ b * p + r < 2 * p
  <2>1. CASE b = 0
    BY <2>1, <1>1
  <2>2. CASE b = 1
    BY <2>2, <1>1
  <2> QED BY <2>1, <2>2
<1>5. PICK s \in Nat, t \in Nat \ {0} : s = b * p + r /\ t = 2 * p
  BY <1>4
<1>6. a \div t = e /\ a % t = s
  <2>1. a = t * e + s /\ s < t
    BY <1>3, <1>4, <1>5
  <2> QED BY <2>1, DivIs
<1>7. a \div (2 * p) = e /\ a % (2 * p) = b * p + r
  BY <1>5, <1>6
<1>8. (a \div p) \div 2 = e /\ (a \div p) % 2 = b /\ a % p = r
  BY <1>1, <1>2
<1> QED BY <1>7, <1>8

-----------------------------------------------------------------------------
(* Powers of two *)

(* t has the powers up to n. *)
PowersUpTo(t, n) ==
    t[0] = 1 /\ \A i \in 1..n : t[i] \in Nat /\ t[i] = 2 * t[i - 1]

LEMMA PowersExist ==
    ASSUME NEW n \in Nat
    PROVE  \E t \in [0..n -> Nat] : PowersUpTo(t, n)
<1> DEFINE F == [i \in 1..n |-> [v \in Nat |-> 2 * v]]
<1>1. F \in StepFunctions(n, Nat)
  BY DEF StepFunctions
<1>2. PICK f \in [1..n -> Nat] : Iterates(f, F, 1, n)
  <2> HIDE DEF F
  <2> QED BY <1>1, Recursion
<1> DEFINE t == [i \in 0..n |-> IF i = 0 THEN 1 ELSE f[i]]
<1>3. t \in [0..n -> Nat]
  OBVIOUS
<1>4. ASSUME NEW i \in 1..n PROVE t[i] \in Nat /\ t[i] = 2 * t[i - 1]
  <2>1. PICK u \in Nat : u = IF i = 1 THEN 1 ELSE f[i - 1]
    OBVIOUS
  <2>2. f[i] = F[i][u]
    BY <1>2, <2>1 DEF Iterates
  <2>3. F[i][u] = 2 * u
    OBVIOUS
  <2>4. t[i] = f[i] /\ t[i - 1] = u
    BY <2>1
  <2> QED BY <2>2, <2>3, <2>4
<1>5. PowersUpTo(t, n)
  <2>1. t[0] = 1
    OBVIOUS
  <2> HIDE DEF t
  <2> QED BY <1>4, <2>1 DEF PowersUpTo
<1> HIDE DEF t
<1> QED BY <1>3, <1>5

(* Two tables of the powers agree where both are defined. *)
LEMMA PowersAgree ==
    ASSUME NEW n \in Nat, NEW m \in Nat, n <= m, NEW t, NEW u,
           PowersUpTo(t, n), PowersUpTo(u, m)
    PROVE  t[n] = u[n]
<1> DEFINE S == {i \in Nat : t[i] = u[i]}
<1>1. CASE n = 0
  BY <1>1 DEF PowersUpTo
<1>2. CASE n # 0
  <2>1. 1 \in S
    BY <1>2 DEF PowersUpTo
  <2>2. ASSUME NEW i \in 1..n - 1, i \in S PROVE i + 1 \in S
    <3>1. i + 1 \in 1..n /\ i + 1 \in 1..m /\ (i + 1) - 1 = i
      OBVIOUS
    <3> QED BY <2>2, <3>1 DEF PowersUpTo
  <2> HIDE DEF S
  <2>3. \A i \in 1..n : i \in S
    BY <2>1, <2>2, UpTo
  <2>4. n \in S
    BY <1>2, <2>3
  <2> QED BY <2>4 DEF S
<1> QED BY <1>1, <1>2

LEMMA TwoToIs ==
    /\ TwoTo[0] = 1
    /\ \A n \in Nat : TwoTo[n] \in Nat \ {0} /\ TwoTo[n + 1] = 2 * TwoTo[n]
<1> DEFINE P(n) == CHOOSE t \in [0..n -> Nat] : PowersUpTo(t, n)
           g == [n \in Nat |-> P(n)[n]]
<1>1. \A n \in Nat : P(n) \in [0..n -> Nat] /\ PowersUpTo(P(n), n)
  BY PowersExist
<1> HIDE DEF P
<1>2. g[0] = 1
  BY <1>1 DEF PowersUpTo
<1>3. ASSUME NEW n \in Nat \ {0} PROVE g[n] = 2 * g[n - 1]
  <2>1. n - 1 \in Nat /\ n - 1 <= n
    OBVIOUS
  <2>2. PowersUpTo(P(n), n) /\ PowersUpTo(P(n - 1), n - 1)
    BY <1>1, <2>1
  <2>3. P(n - 1)[n - 1] = P(n)[n - 1]
    BY <2>1, <2>2, PowersAgree
  <2>4. P(n)[n] = 2 * P(n)[n - 1]
    BY <2>2 DEF PowersUpTo
  <2> QED BY <2>1, <2>3, <2>4
<1>4. g = [n \in Nat |-> IF n = 0 THEN 1 ELSE 2 * g[n - 1]]
  <2>1. \A n \in Nat : g[n] = IF n = 0 THEN 1 ELSE 2 * g[n - 1]
    BY <1>2, <1>3
  <2>2. g = [n \in Nat |-> g[n]]
    OBVIOUS
  <2> HIDE DEF g
  <2> QED BY <2>1, <2>2
<1> HIDE DEF g
<1>5. TwoTo = [n \in Nat |-> IF n = 0 THEN 1 ELSE 2 * TwoTo[n - 1]]
  BY <1>4 DEF TwoTo
<1>6. TwoTo[0] = 1 /\ \A n \in Nat : TwoTo[n + 1] = 2 * TwoTo[n]
  <2>1. \A n \in Nat : TwoTo[n] = IF n = 0 THEN 1 ELSE 2 * TwoTo[n - 1]
    BY <1>5
  <2>2. ASSUME NEW n \in Nat PROVE TwoTo[n + 1] = 2 * TwoTo[n]
    <3>1. n + 1 \in Nat /\ n + 1 # 0 /\ (n + 1) - 1 = n
      OBVIOUS
    <3> QED BY <2>1, <3>1
  <2> QED BY <2>1, <2>2
<1>7. ASSUME NEW n \in Nat PROVE TwoTo[n] \in Nat \ {0}
  <2> DEFINE S == {i \in Nat : TwoTo[i] \in Nat \ {0}}
  <2>1. CASE n = 0
    BY <1>6, <2>1
  <2>2. CASE n # 0
    <3>1. 1 \in S
      <4>1. TwoTo[0 + 1] = 2 * 1
        BY <1>6
      <4> QED BY <4>1
    <3>2. \A i \in 1..n - 1 : i \in S => i + 1 \in S
      BY <1>6
    <3> HIDE DEF S
    <3>3. n \in S
      BY <2>2, <3>1, <3>2, UpTo
    <3> QED BY <3>3 DEF S
  <2> QED BY <2>1, <2>2
<1> QED BY <1>6, <1>7

LEMMA SmallPowers ==
    /\ TwoTo[0] = 1 /\ TwoTo[1] = 2 /\ TwoTo[2] = 4 /\ TwoTo[3] = 8
    /\ TwoTo[4] = 16 /\ TwoTo[5] = 32 /\ TwoTo[6] = 64 /\ TwoTo[7] = 128
<1>1. TwoTo[0] = 1 /\ \A n \in Nat : TwoTo[n + 1] = 2 * TwoTo[n]
  BY TwoToIs
<1>2. TwoTo[0 + 1] = 2
  BY <1>1
<1>3. TwoTo[1 + 1] = 4
  BY <1>1, <1>2
<1>4. TwoTo[2 + 1] = 8
  BY <1>1, <1>3
<1>5. TwoTo[3 + 1] = 16
  BY <1>1, <1>4
<1>6. TwoTo[4 + 1] = 32
  BY <1>1, <1>5
<1>7. TwoTo[5 + 1] = 64
  BY <1>1, <1>6
<1>8. TwoTo[6 + 1] = 128
  BY <1>1, <1>7
<1> QED BY <1>1, <1>2, <1>3, <1>4, <1>5, <1>6, <1>7, <1>8

(* One more bit. *)
LEMMA HalfOfPower ==
    ASSUME NEW a \in Nat, NEW k \in Nat
    PROVE  /\ (a \div TwoTo[k]) \div 2 = a \div TwoTo[k + 1]
           /\ a % TwoTo[k + 1] = (a % TwoTo[k]) + ((a \div TwoTo[k]) % 2) * TwoTo[k]
<1>1. PICK p \in Nat \ {0} : p = TwoTo[k] /\ TwoTo[k + 1] = 2 * p
  BY TwoToIs
<1>2. (a \div p) \div 2 = a \div (2 * p)
      /\ a % (2 * p) = (a % p) + ((a \div p) % 2) * p
  BY HalfMore
<1> QED BY <1>1, <1>2

(* A shift by a sum is one shift after the other. *)
LEMMA ShiftByBoth ==
    ASSUME NEW a \in Nat, NEW k \in Nat, NEW i \in Nat
    PROVE  (a \div TwoTo[k]) \div TwoTo[i] = a \div TwoTo[k + i]
<1> DEFINE S == {j \in Nat : (a \div TwoTo[k]) \div TwoTo[j] = a \div TwoTo[k + j]}
<1>1. PICK m \in Nat : m = a \div TwoTo[k]
  BY TwoToIs, DivOf
<1>2. 0 \in S
  <2>1. m \div 1 = m /\ k + 0 = k
    OBVIOUS
  <2> QED BY <1>1, <2>1, TwoToIs
<1>3. ASSUME NEW j \in Nat, j \in S PROVE j + 1 \in S
  <2>1. (m \div TwoTo[j]) \div 2 = m \div TwoTo[j + 1]
    BY HalfOfPower
  <2>2. (a \div TwoTo[k + j]) \div 2 = a \div TwoTo[(k + j) + 1]
    BY HalfOfPower
  <2>3. (k + j) + 1 = k + (j + 1)
    OBVIOUS
  <2> QED BY <1>1, <1>3, <2>1, <2>2, <2>3
<1> HIDE DEF S
<1>4. i \in S
  BY <1>2, <1>3, EveryNumber
<1> QED BY <1>4 DEF S

-----------------------------------------------------------------------------
(* The payload as a number *)

(* rest[b] is the number that the bytes from position b on make up. *)
RestOf(rest, data) ==
    /\ \A b \in Nat \ {0} : rest[b] \in Nat
    /\ \A b \in 1..Len(data) : rest[b] = data[b] + 256 * rest[b + 1]
    /\ \A b \in Nat : b > Len(data) => rest[b] = 0

LEMMA OfSequence ==
    ASSUME NEW V, NEW s \in Seq(V)
    PROVE  /\ Len(s) \in Nat
           /\ \A i \in 1..Len(s) : s[i] \in V
           /\ Len(s) = 0 => s = << >>
OBVIOUS

LEMMA ByteIsNumber == \A x \in 0..255 : x \in Nat
OBVIOUS

(* s[b] is the number that the bytes from b to n make up. *)
Numbers(s, data, n) ==
    \A b \in 1..n : s[b] = data[b] + 256 * (IF b = n THEN 0 ELSE s[b + 1])

LEMMA SuffixesUnfold ==
    ASSUME NEW data, NEW f \in [1..Len(data) -> Nat],
           Numbers(f, data, Len(data))
    PROVE  Numbers(Suffixes(data), data, Len(data))
<1> DEFINE s == Suffixes(data)
<1>1. f = [n \in 1..Len(data) |->
              data[n] + 256 * (IF n = Len(data) THEN 0 ELSE f[n + 1])]
  BY DEF Numbers
<1>2. s = [n \in 1..Len(data) |->
              data[n] + 256 * (IF n = Len(data) THEN 0 ELSE s[n + 1])]
  BY <1>1 DEF Suffixes
<1> HIDE DEF s
<1>3. \A n \in 1..Len(data) :
         s[n] = data[n] + 256 * (IF n = Len(data) THEN 0 ELSE s[n + 1])
  BY <1>2
<1> QED BY <1>3 DEF s, Numbers

(* The function that Suffixes asks for exists. *)
LEMMA SuffixesExist ==
    ASSUME NEW n \in Nat, NEW data, \A j \in 1..n : data[j] \in Nat
    PROVE  \E f \in [1..n -> Nat] : Numbers(f, data, n)
<1> DEFINE d == [j \in 1..n |-> data[n - j + 1]]
<1>1. \A j \in 1..n : n - j + 1 \in 1..n
  OBVIOUS
<1>2. \A j \in 1..n : d[j] \in Nat /\ d[j] = data[n - j + 1]
  BY <1>1
<1> HIDE DEF d
<1> DEFINE F == [j \in 1..n |-> [v \in Nat |-> 256 * v + d[j]]]
<1>3. F \in StepFunctions(n, Nat)
  BY <1>2 DEF StepFunctions
<1>4. PICK f \in [1..n -> Nat] : Iterates(f, F, 0, n)
  <2>1. 0 \in Nat
    OBVIOUS
  <2> HIDE DEF F
  <2> QED BY <1>3, <2>1, Recursion
<1>5. ASSUME NEW j \in 1..n
      PROVE  f[j] = 256 * (IF j = 1 THEN 0 ELSE f[j - 1]) + d[j]
  <2> DEFINE u == IF j = 1 THEN 0 ELSE f[j - 1]
  <2>1. u \in Nat
    <3>1. j = 1 \/ j - 1 \in 1..n
      OBVIOUS
    <3>2. \A i \in 1..n : f[i] \in Nat
      OBVIOUS
    <3> QED BY <3>1, <3>2
  <2>2. f[j] = F[j][u]
    BY <1>4 DEF Iterates
  <2> HIDE DEF u
  <2>3. f[j] = 256 * u + d[j]
    BY <2>1, <2>2
  <2> QED BY <2>3 DEF u
<1> HIDE DEF F
<1> DEFINE g == [b \in 1..n |-> f[n - b + 1]]
<1>6. g \in [1..n -> Nat] /\ \A b \in 1..n : g[b] = f[n - b + 1]
  BY <1>1
<1> HIDE DEF g
<1>7. ASSUME NEW b \in 1..n
      PROVE  g[b] = data[b] + 256 * (IF b = n THEN 0 ELSE g[b + 1])
  <2>1. PICK j \in 1..n : j = n - b + 1 /\ n - j + 1 = b
    BY <1>1
  <2>2. g[b] = 256 * (IF j = 1 THEN 0 ELSE f[j - 1]) + data[b]
    BY <1>2, <1>5, <1>6, <2>1
  <2>3. data[b] \in Nat
    OBVIOUS
  <2>4. CASE b = n
    <3>1. j = 1
      BY <2>1, <2>4
    <3> QED BY <2>2, <2>3, <2>4, <3>1
  <2>5. CASE b # n
    <3>1. j # 1 /\ b + 1 \in 1..n /\ n - (b + 1) + 1 = j - 1
      BY <2>1, <2>5
    <3>2. g[b + 1] = f[j - 1] /\ g[b + 1] \in Nat
      BY <1>6, <3>1
    <3> QED BY <2>2, <2>3, <2>5, <3>1, <3>2
  <2> QED BY <2>4, <2>5
<1> QED BY <1>6, <1>7 DEF Numbers

LEMMA NumberOfBytes ==
    ASSUME NEW data \in Seq(0..255)
    PROVE  \E rest \in [Nat \ {0} -> Nat] : RestOf(rest, data) /\ rest[1] = AsNumber(data)
<1>1. PICK m \in Nat : m = Len(data)
  BY OfSequence
<1>2. \A j \in 1..m : data[j] \in Nat
  BY <1>1, OfSequence, ByteIsNumber
<1>3. PICK f \in [1..m -> Nat] : Numbers(f, data, m)
  BY <1>2, SuffixesExist
<1>4. PICK s : s = Suffixes(data)
  OBVIOUS
<1>5. Numbers(s, data, m)
  BY <1>1, <1>3, <1>4, SuffixesUnfold
<1>6. data = << >> <=> m = 0
  BY <1>1, OfSequence
<1>7. \A b \in 1..m : s[b] = data[b] + 256 * (IF b = m THEN 0 ELSE s[b + 1])
  BY <1>5 DEF Numbers
<1>9. \A b \in 1..m : s[b] \in Nat
  <2> DEFINE S == {j \in Nat : s[m - j + 1] \in Nat}
  <2>1. CASE m = 0
    BY <2>1
  <2>2. CASE m # 0
    <3>1. 1 \in S
      <4>1. m \in 1..m /\ m - 1 + 1 = m
        BY <2>2
      <4>2. s[m] = data[m] + 256 * 0 /\ data[m] \in Nat
        BY <1>2, <1>7, <4>1
      <4> QED BY <4>1, <4>2
    <3>2. ASSUME NEW j \in 1..m - 1, j \in S PROVE j + 1 \in S
      <4>1. PICK b \in 1..m : b = m - (j + 1) + 1 /\ b + 1 = m - j + 1 /\ b # m
        OBVIOUS
      <4>2. s[b] = data[b] + 256 * s[b + 1] /\ data[b] \in Nat
        BY <1>2, <1>7, <4>1
      <4>3. s[b + 1] \in Nat
        BY <3>2, <4>1
      <4>4. s[b] \in Nat
        BY <4>2, <4>3
      <4> QED BY <4>1, <4>4
    <3> HIDE DEF S
    <3>3. \A j \in 1..m : j \in S
      BY <3>1, <3>2, UpTo
    <3>4. \A b \in 1..m : m - b + 1 \in 1..m /\ m - (m - b + 1) + 1 = b
      OBVIOUS
    <3>5. ASSUME NEW b \in 1..m PROVE s[b] \in Nat
      <4>1. m - b + 1 \in S
        BY <3>3, <3>4
      <4> QED BY <3>4, <4>1 DEF S
    <3> QED BY <3>5
  <2> QED BY <2>1, <2>2
<1> DEFINE rest == [b \in Nat \ {0} |-> IF b <= m THEN s[b] ELSE 0]
<1>10. rest \in [Nat \ {0} -> Nat]
  BY <1>9
<1>11. ASSUME NEW b \in 1..m PROVE rest[b] = data[b] + 256 * rest[b + 1]
  <2>1. b + 1 \in Nat \ {0} /\ b \in Nat \ {0} /\ (b + 1 <= m <=> b # m)
    OBVIOUS
  <2>2. rest[b] = s[b] /\ rest[b + 1] = IF b = m THEN 0 ELSE s[b + 1]
    BY <2>1
  <2> HIDE DEF rest
  <2> QED BY <1>7, <2>2
<1>12. \A b \in Nat : b > m => rest[b] = 0
  OBVIOUS
<1>13. rest[1] = AsNumber(data)
  <2>1. CASE m = 0
    BY <1>6, <2>1 DEF AsNumber
  <2>2. CASE m # 0
    <3>1. rest[1] = s[1]
      BY <2>2
    <3>2. AsNumber(data) = s[1]
      BY <1>4, <1>6, <2>2 DEF AsNumber
    <3> QED BY <3>1, <3>2
  <2> QED BY <2>1, <2>2
<1>14. \A b \in Nat \ {0} : rest[b] \in Nat
  BY <1>10
<1> HIDE DEF rest
<1>15. RestOf(rest, data)
  BY <1>1, <1>11, <1>12, <1>14 DEF RestOf
<1> QED BY <1>10, <1>13, <1>15

(* Shifting the number by k shifts what the bytes from byte k / 8 on make  *)
(* up by k % 8.                                                            *)
LEMMA ShiftOfNumber ==
    ASSUME NEW data \in Seq(0..255), NEW rest \in [Nat \ {0} -> Nat], RestOf(rest, data),
           NEW k \in Nat
    PROVE  rest[1] \div TwoTo[k] = rest[k \div 8 + 1] \div TwoTo[k % 8]
<1> DEFINE S == {j \in Nat : rest[1] \div TwoTo[j] = rest[j \div 8 + 1] \div TwoTo[j % 8]}
<1>1. 0 \in S
  <2>1. 0 \div 8 + 1 = 1 /\ 0 % 8 = 0
    OBVIOUS
  <2> QED BY <2>1
<1>2. ASSUME NEW j \in Nat, j \in S PROVE j + 1 \in S
  <2>1. PICK b \in Nat \ {0}, t \in 0..7 : b = j \div 8 + 1 /\ t = j % 8 /\ j = 8 * (b - 1) + t
    <3>1. j \div 8 + 1 \in Nat \ {0} /\ j % 8 \in 0..7 /\ j = 8 * ((j \div 8 + 1) - 1) + (j % 8)
      OBVIOUS
    <3> QED BY <3>1
  <2>2. (rest[1] \div TwoTo[j]) \div 2 = rest[1] \div TwoTo[j + 1]
    <3>1. rest[1] \in Nat
      OBVIOUS
    <3> QED BY <3>1, HalfOfPower
  <2>3. rest[1] \div TwoTo[j] = rest[b] \div TwoTo[t]
    BY <1>2, <2>1
  <2>4. rest[b] \in Nat /\ rest[b + 1] \in Nat
    <3>1. b + 1 \in Nat \ {0}
      OBVIOUS
    <3> QED BY <3>1
  <2>5. CASE t < 7
    <3>1. (j + 1) \div 8 + 1 = b /\ (j + 1) % 8 = t + 1
      <4>1. PICK c \in Nat, u \in Nat : c = b - 1 /\ u = t + 1 /\ u < 8
        BY <2>5
      <4>2. PICK p \in Nat \ {0} : p = 8
        OBVIOUS
      <4>3. (p * c + u) \div p = c /\ (p * c + u) % p = u
        BY <4>1, <4>2, DivIs
      <4>4. j + 1 = p * c + u
        BY <2>1, <4>1, <4>2
      <4> QED BY <4>1, <4>2, <4>3, <4>4
    <3>2. (rest[b] \div TwoTo[t]) \div 2 = rest[b] \div TwoTo[t + 1]
      BY <2>4, HalfOfPower
    <3> QED BY <2>2, <2>3, <3>1, <3>2
  <2>6. CASE t = 7
    <3>1. (j + 1) \div 8 + 1 = b + 1 /\ (j + 1) % 8 = 0
      <4>1. (8 * b + 0) \div 8 = b /\ (8 * b + 0) % 8 = 0
        BY DivIs
      <4>2. j + 1 = 8 * b + 0
        BY <2>1, <2>6
      <4> QED BY <4>1, <4>2
    <3>2. (rest[b] \div 128) \div 2 = rest[b + 1]
      <4>1. CASE b \in 1..Len(data)
        <5>1. rest[b] = data[b] + 256 * rest[b + 1] /\ data[b] \in 0..255
          BY <4>1, OfSequence DEF RestOf
        <5>2. PICK x \in 0..255, r \in Nat : x = data[b] /\ r = rest[b + 1] /\ rest[b] = x + 256 * r
          BY <2>4, <5>1
        <5>3. ((x + 256 * r) \div 128) \div 2 = r
          BY ONLY x \in 0..255, r \in Nat
        <5> QED BY <5>2, <5>3
      <4>2. CASE b \notin 1..Len(data)
        <5>1. Len(data) \in Nat
          BY OfSequence
        <5>2. b > Len(data) /\ b + 1 > Len(data)
          BY <4>2, <5>1
        <5>3. rest[b] = 0 /\ rest[b + 1] = 0
          BY <5>2 DEF RestOf
        <5> QED BY <5>3
      <4> QED BY <4>1, <4>2
    <3>3. rest[b + 1] \div 1 = rest[b + 1]
      BY <2>4
    <3>4. (rest[b] \div TwoTo[t]) \div 2 = rest[b + 1] \div TwoTo[0]
      BY <2>6, <3>2, <3>3, SmallPowers
    <3> QED BY <2>2, <2>3, <3>1, <3>4
  <2> QED BY <2>1, <2>5, <2>6
<1> HIDE DEF S
<1>3. k \in S
  BY <1>1, <1>2, EveryNumber
<1> QED BY <1>3 DEF S

Above(a, x, r) == a = x + 256 * r

BitAt(a, p) == (a \div p) % 2

DividesByte(p, h) == p * (2 * h) = 256

LEMMA PowersDivideByte ==
    ASSUME NEW t \in 0..7
    PROVE  TwoTo[t] \in Nat \ {0} /\ \E h \in Nat : DividesByte(TwoTo[t], h)
<1>1. \E h \in {1, 2, 4, 8, 16, 32, 64, 128} : TwoTo[t] * (2 * h) = 256
  <2>1. t = 0 \/ t = 1 \/ t = 2 \/ t = 3 \/ t = 4 \/ t = 5 \/ t = 6 \/ t = 7
    OBVIOUS
  <2> QED BY <2>1, SmallPowers
<1>2. t \in Nat
  OBVIOUS
<1>3. \E h \in Nat : DividesByte(TwoTo[t], h)
  <2>1. PICK h \in {1, 2, 4, 8, 16, 32, 64, 128} : TwoTo[t] * (2 * h) = 256
    BY <1>1
  <2>2. h \in Nat /\ DividesByte(TwoTo[t], h)
    BY <2>1 DEF DividesByte
  <2> QED BY <2>2
<1> QED BY <1>2, <1>3, TwoToIs

(* What lies above a byte does not change the byte's bits. *)
LEMMA LowByte ==
    ASSUME NEW x \in Nat, NEW r \in Nat, NEW p \in Nat \ {0}, NEW h \in Nat,
           DividesByte(p, h), NEW a \in Nat, Above(a, x, r)
    PROVE  BitAt(a, p) = BitAt(x, p) /\ BitAt(x, p) \in 0..1
<1>1. PICK q \in Nat, s \in 0..p - 1 : q = x \div p /\ x = p * q + s
  <2>1. x \div p \in Nat /\ x % p \in 0..p - 1 /\ x = p * (x \div p) + (x % p)
    BY DivOf
  <2> QED BY <2>1
<1>2. PICK z \in Nat : z = h * r
  OBVIOUS
<1>3. 256 * r = p * (2 * z)
  <2>1. (p * (2 * h)) * r = p * (2 * (h * r))
    OBVIOUS
  <2>2. p * (2 * h) = 256
    BY DEF DividesByte
  <2> QED BY <1>2, <2>1, <2>2
<1>4. PICK e \in Nat : e = q + 2 * z
  OBVIOUS
<1>5. a = p * e + s
  <2>1. p * e = p * q + p * (2 * z)
    BY <1>4
  <2>2. p * q \in Nat /\ p * (2 * z) \in Nat
    OBVIOUS
  <2> QED BY <1>1, <1>3, <2>1, <2>2 DEF Above
<1>6. a \div p = e
  <2>1. s \in Nat /\ s < p
    OBVIOUS
  <2>2. (p * e + s) \div p = e
    BY <2>1, DivIs
  <2> QED BY <1>5, <2>2
<1>7. e % 2 = q % 2 /\ q % 2 \in 0..1
  BY <1>4
<1> QED BY <1>1, <1>6, <1>7 DEF BitAt

(* The bit the loop takes from a byte is the bit of the number, and there  *)
(* is none past the end.                                                   *)
LEMMA BitOfNumber ==
    ASSUME NEW data \in Seq(0..255), NEW k \in Nat
    PROVE  /\ AsNumber(data) \in Nat
           /\ (AsNumber(data) \div TwoTo[k]) % 2
                = IF k < 8 * Len(data) THEN Bit(data, k) ELSE 0
           /\ k < 8 * Len(data) => Bit(data, k) \in 0..1
<1>1. PICK rest \in [Nat \ {0} -> Nat] : RestOf(rest, data) /\ rest[1] = AsNumber(data)
  BY NumberOfBytes
<1>2. rest[1] \div TwoTo[k] = rest[k \div 8 + 1] \div TwoTo[k % 8]
  BY <1>1, ShiftOfNumber
<1>3. PICK b \in Nat \ {0}, t \in 0..7 : b = k \div 8 + 1 /\ t = k % 8 /\ k = 8 * (b - 1) + t
  <2>1. k \div 8 + 1 \in Nat \ {0} /\ k % 8 \in 0..7 /\ k = 8 * ((k \div 8 + 1) - 1) + (k % 8)
    OBVIOUS
  <2> QED BY <2>1
<1>4. Len(data) \in Nat
  BY OfSequence
<1>5. k < 8 * Len(data) <=> b \in 1..Len(data)
  BY <1>3, <1>4
<1>6. rest[1] \in Nat
  OBVIOUS
<1>7. CASE b \in 1..Len(data)
  <2>1. rest[b] = data[b] + 256 * rest[b + 1] /\ data[b] \in 0..255 /\ rest[b + 1] \in Nat
    <3>1. b + 1 \in Nat \ {0}
      OBVIOUS
    <3> QED BY <1>1, <1>7, <3>1, OfSequence DEF RestOf
  <2>2. PICK x \in 0..255, r \in Nat : x = data[b] /\ r = rest[b + 1] /\ rest[b] = x + 256 * r
    BY <2>1
  <2> PICK a \in Nat : a = x + 256 * r /\ Above(a, x, r)
    BY DEF Above
  <2>3. BitAt(a, TwoTo[t]) = BitAt(x, TwoTo[t]) /\ BitAt(x, TwoTo[t]) \in 0..1
    <3>1. TwoTo[t] \in Nat \ {0} /\ \E h \in Nat : DividesByte(TwoTo[t], h)
      BY PowersDivideByte
    <3>2. PICK p \in Nat \ {0}, h \in Nat : p = TwoTo[t] /\ DividesByte(p, h)
      BY <3>1
    <3>3. BitAt(a, p) = BitAt(x, p) /\ BitAt(x, p) \in 0..1
      BY <3>2, LowByte
    <3> QED BY <3>2, <3>3
  <2>4. Bit(data, k) = BitAt(x, TwoTo[t])
    BY <1>3, <2>2 DEF Bit, BitAt
  <2> QED BY <1>1, <1>2, <1>3, <1>5, <1>6, <1>7, <2>2, <2>3, <2>4 DEF BitAt
<1>8. CASE b \notin 1..Len(data)
  <2>1. rest[b] = 0
    <3>1. b > Len(data)
      BY <1>4, <1>8
    <3> QED BY <1>1, <3>1 DEF RestOf
  <2>2. 0 \div TwoTo[t] = 0
    <3>1. t \in Nat
      OBVIOUS
    <3>2. PICK p \in Nat \ {0} : p = TwoTo[t]
      BY <3>1, TwoToIs
    <3>3. p * 0 + 0 = 0
      OBVIOUS
    <3>4. 0 \div p = 0
      BY <3>3, DivIs
    <3> QED BY <3>2, <3>4
  <2> QED BY <1>1, <1>2, <1>3, <1>5, <1>6, <1>8, <2>1, <2>2
<1> QED BY <1>7, <1>8

-----------------------------------------------------------------------------
(* The loop of decode *)

(* What round i of the loop adds. *)
Share(data, offset, i) ==
    IF offset + i - 1 < 8 * Len(data) THEN Bit(data, offset + i - 1) * TwoTo[i - 1] ELSE 0

LEMMA ShareIs ==
    ASSUME NEW data \in Seq(0..255), NEW offset \in Nat, NEW j \in Nat
    PROVE  /\ Share(data, offset, j + 1) \in Nat
           /\ Share(data, offset, j + 1)
                = ((AsNumber(data) \div TwoTo[offset + j]) % 2) * TwoTo[j]
<1>1. PICK k \in Nat : k = offset + j /\ k = offset + (j + 1) - 1
  OBVIOUS
<1>2. PICK p \in Nat : p = TwoTo[j] /\ p = TwoTo[(j + 1) - 1]
  <2>1. (j + 1) - 1 = j
    OBVIOUS
  <2> QED BY <2>1, TwoToIs
<1>3. PICK b \in 0..1 : b = IF k < 8 * Len(data) THEN Bit(data, k) ELSE 0
  BY BitOfNumber
<1>4. (AsNumber(data) \div TwoTo[k]) % 2 = b
  BY <1>3, BitOfNumber
<1>5. Share(data, offset, j + 1) = IF k < 8 * Len(data) THEN Bit(data, k) * p ELSE 0
  BY <1>1, <1>2 DEF Share
<1>6. Share(data, offset, j + 1) = b * p
  <2>1. CASE k < 8 * Len(data)
    BY <1>3, <1>5, <2>1
  <2>2. CASE ~(k < 8 * Len(data))
    <3>1. b = 0 /\ Share(data, offset, j + 1) = 0
      BY <1>3, <1>5, <2>2
    <3>2. 0 * p = 0
      OBVIOUS
    <3> QED BY <3>1, <3>2
  <2> QED BY <2>1, <2>2
<1>7. b * p \in Nat
  OBVIOUS
<1> QED BY <1>1, <1>2, <1>4, <1>6, <1>7

(* v is the sum of the shares so far, round by round. *)
Sums(v, data, offset, n) ==
    \A i \in 1..n : v[i] = (IF i = 1 THEN 0 ELSE v[i - 1]) + Share(data, offset, i)

LEMMA SumsExist ==
    ASSUME NEW data \in Seq(0..255), NEW offset \in Nat, NEW n \in Nat
    PROVE  \E v \in [1..n -> Nat] : Sums(v, data, offset, n)
<1> DEFINE c == [i \in 1..n |-> Share(data, offset, i)]
<1>1. ASSUME NEW i \in 1..n PROVE Share(data, offset, i) \in Nat
  <2>1. i - 1 \in Nat /\ (i - 1) + 1 = i
    OBVIOUS
  <2>2. Share(data, offset, (i - 1) + 1) \in Nat
    BY <2>1, ShareIs
  <2> QED BY <2>1, <2>2
<1>2. \A i \in 1..n : c[i] \in Nat /\ c[i] = Share(data, offset, i)
  BY <1>1
<1> HIDE DEF c
<1> DEFINE F == [i \in 1..n |-> [v \in Nat |-> v + c[i]]]
<1>3. F \in StepFunctions(n, Nat)
  BY <1>2 DEF StepFunctions
<1>4. PICK f \in [1..n -> Nat] : Iterates(f, F, 0, n)
  <2>1. 0 \in Nat
    OBVIOUS
  <2> HIDE DEF F
  <2> QED BY <1>3, <2>1, Recursion
<1>5. ASSUME NEW i \in 1..n
      PROVE  f[i] = (IF i = 1 THEN 0 ELSE f[i - 1]) + c[i]
  <2> DEFINE u == IF i = 1 THEN 0 ELSE f[i - 1]
  <2>1. u \in Nat
    <3>1. i = 1 \/ i - 1 \in 1..n
      OBVIOUS
    <3>2. \A j \in 1..n : f[j] \in Nat
      OBVIOUS
    <3> QED BY <3>1, <3>2
  <2>2. f[i] = F[i][u]
    BY <1>4 DEF Iterates
  <2> HIDE DEF u
  <2>3. f[i] = u + c[i]
    BY <2>1, <2>2
  <2> QED BY <2>3 DEF u
<1> HIDE DEF F
<1>6. Sums(f, data, offset, n)
  BY <1>2, <1>5 DEF Sums
<1> QED BY <1>6

LEMMA RoundsUnfold ==
    ASSUME NEW data, NEW offset, NEW width, NEW f \in [1..width -> Nat],
           Sums(f, data, offset, width)
    PROVE  Sums(Rounds(data, offset, width), data, offset, width)
<1> DEFINE s == Rounds(data, offset, width)
<1>1. f = [i \in 1..width |->
              (IF i = 1 THEN 0 ELSE f[i - 1])
              + (IF offset + i - 1 < 8 * Len(data)
                 THEN Bit(data, offset + i - 1) * TwoTo[i - 1] ELSE 0)]
  BY DEF Sums, Share
<1>2. s = [i \in 1..width |->
              (IF i = 1 THEN 0 ELSE s[i - 1])
              + (IF offset + i - 1 < 8 * Len(data)
                 THEN Bit(data, offset + i - 1) * TwoTo[i - 1] ELSE 0)]
  BY <1>1 DEF Rounds
<1> HIDE DEF s
<1>3. \A i \in 1..width :
         s[i] = (IF i = 1 THEN 0 ELSE s[i - 1])
                + (IF offset + i - 1 < 8 * Len(data)
                   THEN Bit(data, offset + i - 1) * TwoTo[i - 1] ELSE 0)
  BY <1>2
<1> QED BY <1>3 DEF s, Sums, Share

(* The loop assembles the slice of the number. *)
LEMMA ExtractIsSlice ==
    ASSUME NEW data \in Seq(0..255), NEW offset \in Nat, NEW width \in Nat
    PROVE  Extract(data, offset, width)
             = (AsNumber(data) \div TwoTo[offset]) % TwoTo[width]
<1>1. PICK v : v = Rounds(data, offset, width) /\ Sums(v, data, offset, width)
  BY SumsExist, RoundsUnfold
<1>2. AsNumber(data) \in Nat
  <2>1. 0 \in Nat
    OBVIOUS
  <2> QED BY <2>1, BitOfNumber
<1>3. PICK m \in Nat : m = AsNumber(data) \div TwoTo[offset]
  <2>1. PICK p \in Nat \ {0} : p = TwoTo[offset]
    BY TwoToIs
  <2> QED BY <1>2, <2>1, DivOf
<1>4. m % TwoTo[0] = 0
  BY SmallPowers
<1>5. ASSUME NEW j \in Nat
      PROVE  m % TwoTo[j + 1] = (m % TwoTo[j]) + Share(data, offset, j + 1)
  <2>1. m % TwoTo[j + 1] = (m % TwoTo[j]) + ((m \div TwoTo[j]) % 2) * TwoTo[j]
    BY HalfOfPower
  <2>2. m \div TwoTo[j] = AsNumber(data) \div TwoTo[offset + j]
    BY <1>2, <1>3, ShiftByBoth
  <2>3. Share(data, offset, j + 1)
          = ((AsNumber(data) \div TwoTo[offset + j]) % 2) * TwoTo[j]
    BY ShareIs
  <2> QED BY <2>1, <2>2, <2>3
<1> DEFINE S == {i \in Nat : v[i] = m % TwoTo[i]}
<1>6. CASE width = 0
  BY <1>3, <1>4, <1>6 DEF Extract
<1>7. CASE width # 0
  <2>1. 1 \in S
    <3>1. v[1] = 0 + Share(data, offset, 1)
      BY <1>1, <1>7 DEF Sums
    <3>2. m % TwoTo[0 + 1] = (m % TwoTo[0]) + Share(data, offset, 0 + 1)
      BY <1>5
    <3> QED BY <1>4, <3>1, <3>2
  <2>2. ASSUME NEW i \in 1..width - 1, i \in S PROVE i + 1 \in S
    <3>1. i + 1 \in 1..width /\ i + 1 # 1 /\ (i + 1) - 1 = i /\ i \in Nat /\ i + 1 \in Nat
      OBVIOUS
    <3>2. v[i + 1] = v[i] + Share(data, offset, i + 1)
      BY <1>1, <3>1 DEF Sums
    <3>3. v[i] = m % TwoTo[i]
      BY <2>2
    <3>4. m % TwoTo[i + 1] = (m % TwoTo[i]) + Share(data, offset, i + 1)
      BY <1>5, <3>1
    <3>5. v[i + 1] = m % TwoTo[i + 1]
      BY <3>2, <3>3, <3>4
    <3> QED BY <3>1, <3>5
  <2> HIDE DEF S
  <2>3. width \in S
    <3>1. \A i \in 1..width : i \in S
      BY <2>1, <2>2, UpTo
    <3> QED BY <1>7, <3>1
  <2>4. v[width] = m % TwoTo[width]
    BY <2>3 DEF S
  <2> QED BY <1>1, <1>3, <1>7, <2>4 DEF Extract
<1> QED BY <1>6, <1>7

-----------------------------------------------------------------------------
(* The references of a well-formed file, which decode follows *)

(* The references a well-formed frame has: its signals, each once. *)
RefsUsable(refs) ==
    /\ refs \in Seq([name : SignalNames, offset : Offsets])
    /\ \A i, j \in DOMAIN refs : refs[i].name = refs[j].name => i = j

FrameUsable(frame) ==
    /\ frame = [name |-> frame.name, refs |-> frame.refs]
    /\ RefsUsable(frame.refs)

RInv == wf => \A id \in DOMAIN wanted.frames : FrameUsable(wanted.frames[id])

LEMMA NoRefsUsable == RefsUsable(<< >>)
BY DEF RefsUsable

LEMMA AppendUsable ==
    ASSUME NEW refs, RefsUsable(refs), NEW n \in SignalNames, NEW o \in Offsets,
           \A i \in DOMAIN refs : refs[i].name # n
    PROVE  RefsUsable(Append(refs, [name |-> n, offset |-> o]))
<1> DEFINE R == [name : SignalNames, offset : Offsets]
<1>1. PICK ref : ref = [name |-> n, offset |-> o] /\ ref.name = n /\ ref \in R
  <2>1. [name |-> n, offset |-> o] \in R /\ [name |-> n, offset |-> o].name = n
    OBVIOUS
  <2> HIDE DEF R
  <2> QED BY <2>1
<1>2. refs \in Seq(R)
  BY DEF RefsUsable
<1> HIDE DEF R
<1>3. PICK new : new = Append(refs, ref)
  OBVIOUS
<1>4. /\ new \in Seq(R)
      /\ DOMAIN new = 1..Len(refs) + 1 /\ DOMAIN refs = 1..Len(refs) /\ Len(refs) \in Nat
      /\ \A i \in 1..Len(refs) : new[i] = refs[i]
      /\ new[Len(refs) + 1] = ref
  BY <1>1, <1>2, <1>3
<1>5. PICK m \in Nat : m = Len(refs)
  BY <1>4
<1>6. ASSUME NEW i \in 1..m + 1, NEW j \in 1..m + 1, new[i].name = new[j].name
      PROVE  i = j
  <2>1. \A k \in 1..m : refs[k].name # n /\ new[k] = refs[k]
    BY <1>4, <1>5
  <2>2. i \in 1..m \/ i = m + 1
    OBVIOUS
  <2>3. j \in 1..m \/ j = m + 1
    OBVIOUS
  <2>4. new[m + 1].name = n
    BY <1>1, <1>4, <1>5
  <2>5. CASE i \in 1..m /\ j \in 1..m
    <3>1. refs[i].name = refs[j].name /\ i \in DOMAIN refs /\ j \in DOMAIN refs
      BY <1>4, <1>5, <1>6, <2>1, <2>5
    <3> QED BY <3>1 DEF RefsUsable
  <2> QED BY <1>6, <2>1, <2>2, <2>3, <2>4, <2>5
<1>7. RefsUsable(new)
  BY <1>4, <1>5, <1>6 DEF RefsUsable, R
<1> QED BY <1>1, <1>3, <1>7

LEMMA FramesStay ==
    ASSUME RInv, wf, UNCHANGED wf, wanted'.frames = wanted.frames
    PROVE  RInv'
BY DEF RInv

LEMMA RefsStepFrame ==
    ASSUME RInv, LInv, wf, NEW n \in FrameNames, NEW id \in Ids, WriteFrame(n, id)
    PROVE  RInv'
<1> DEFINE new == [name |-> n, refs |-> << >>]
           v == Put(wanted.frames, id, new)
<1>1. wanted' = [[wanted EXCEPT !.frames = v] EXCEPT !.last = id]
  BY DEF WriteFrame
<1>2. FrameUsable(new)
  <2>1. PICK refs : refs = << >> /\ RefsUsable(refs)
    BY NoRefsUsable
  <2>2. new = [name |-> n, refs |-> refs]
    BY <2>1
  <2> HIDE DEF new
  <2> QED BY <2>1, <2>2 DEF FrameUsable
<1> HIDE DEF new
<1>3. DOMAIN v = DOMAIN wanted.frames \cup {id}
  BY PutDomain
<1>4. \A k \in DOMAIN wanted.frames \cup {id} : v[k] = IF k = id THEN new ELSE wanted.frames[k]
  BY PutAt
<1> HIDE DEF v
<1>5. wanted'.frames = v
  <2>1. PICK u : u = [wanted EXCEPT !.frames = v]
    OBVIOUS
  <2>2. IsWanted(wanted)
    BY DEF LInv, Lockstep
  <2>3. IsWanted(u) /\ u.frames = v
    BY <2>1, <2>2, WithFrames
  <2>4. wanted' = [u EXCEPT !.last = id]
    BY <1>1, <2>1
  <2>5. wanted'.frames = u.frames
    BY ONLY <2>3, <2>4, WithLast
  <2> QED BY <2>3, <2>5
<1>6. \A k \in DOMAIN v : FrameUsable(v[k])
  BY <1>2, <1>3, <1>4 DEF RInv
<1> QED BY <1>5, <1>6 DEF RInv

LEMMA RefsStepRef ==
    ASSUME RInv, LInv, wf, NEW n \in SignalNames, NEW o \in Offsets, WriteRef(n, o)
    PROVE  RInv'
<1> DEFINE ref == [name |-> n, offset |-> o]
           v == [wanted.frames EXCEPT ![wanted.last].refs = Append(@, ref)]
<1>1. PICK f, id : f = wanted.frames /\ id = wanted.last
  OBVIOUS
<1>2. wanted' = [wanted EXCEPT !.frames = v]
  BY DEF WriteRef
<1>3. \A i \in DOMAIN f[id].refs : f[id].refs[i].name # n
  BY <1>1 DEF WriteRef
<1>4. wanted'.frames = v
  <2> HIDE DEF v
  <2> QED BY <1>2, WithFrames DEF LInv, Lockstep
<1>5. PICK now : now = [f[id] EXCEPT !.refs = Append(f[id].refs, ref)]
  OBVIOUS
<1>6. v = [f EXCEPT ![id] = now]
  BY <1>1, <1>5
<1> HIDE DEF v
<1>7. \A k \in DOMAIN f : FrameUsable(f[k])
  BY <1>1 DEF RInv
<1>8. id \in DOMAIN f => FrameUsable(now)
  <2>1. SUFFICES ASSUME id \in DOMAIN f PROVE FrameUsable(now)
    OBVIOUS
  <2>2. PICK name, refs : name = f[id].name /\ refs = f[id].refs
    OBVIOUS
  <2>3. f[id] = [name |-> name, refs |-> refs] /\ RefsUsable(refs)
    BY <1>7, <2>1, <2>2 DEF FrameUsable
  <2>4. RefsUsable(Append(refs, ref))
    BY <1>3, <2>2, <2>3, AppendUsable
  <2>5. PICK more : more = Append(refs, ref)
    OBVIOUS
  <2>6. now = [[name |-> name, refs |-> refs] EXCEPT !.refs = more]
    BY <1>5, <2>2, <2>3, <2>5
  <2>7. now = [name |-> name, refs |-> more]
    BY <2>6
  <2> QED BY <2>4, <2>5, <2>7 DEF FrameUsable
<1>9. \A k \in DOMAIN v : k \in DOMAIN f /\ v[k] = IF k = id THEN now ELSE f[k]
  BY <1>6
<1>10. \A k \in DOMAIN v : FrameUsable(v[k])
  BY <1>7, <1>8, <1>9
<1> QED BY <1>4, <1>10 DEF RInv

LEMMA RefsInit == DocInit => RInv
<1> SUFFICES ASSUME DocInit PROVE RInv
  OBVIOUS
<1>1. wanted.frames = << >>
  BY DEF DocInit, Nothing
<1>2. DOMAIN << >> = {}
  OBVIOUS
<1> QED BY <1>1, <1>2 DEF RInv

LEMMA RefsStep == LInv /\ RInv /\ [DocNext]_vars => RInv'
<1> SUFFICES ASSUME LInv, RInv, [DocNext]_vars, wf' PROVE RInv'
  BY DEF RInv
<1>1. CASE UNCHANGED <<wf, wanted>>
  BY <1>1 DEF RInv
<1>2. wf => IsWanted(wanted)
  BY DEF LInv, Lockstep
<1>3. CASE UNCHANGED vars
  BY <1>1, <1>3 DEF vars, writer
<1>4. CASE WriteHeader
  <2>1. PICK h : wanted' = [wanted EXCEPT !.header = h]
    BY <1>4 DEF WriteHeader
  <2> QED BY <1>2, <1>4, <2>1, WithHeader, FramesStay DEF WriteHeader, Ready, Stays
<1>5. CASE WriteBrace \/ WriteOther
  BY <1>1, <1>5 DEF WriteBrace, WriteOther, Stays
<1>6. CASE WriteClose
  BY <1>1, <1>6 DEF WriteClose, Goes
<1>7. CASE WriteNodes
  <2>1. PICK h : wanted' = [wanted EXCEPT !.nodes = h]
    <3>1. \/ wanted' = [wanted EXCEPT !.nodes = [wanted.nodes EXCEPT !.master = "M"]]
          \/ wanted' = [wanted EXCEPT !.nodes = [wanted.nodes EXCEPT
                                                    !.slaves = @ \o <<"S1", "S2">>]]
      BY <1>7 DEF WriteNodes
    <3> QED BY <3>1
  <2> QED BY <1>2, <1>7, <2>1, WithNodes, FramesStay DEF WriteNodes, Ready, Stays
<1>8. CASE WriteTable
  <2>1. PICK h : wanted' = [wanted EXCEPT !.schedules = h]
    BY <1>8 DEF WriteTable
  <2> QED BY <1>2, <1>8, <2>1, WithSchedules, FramesStay DEF WriteTable, Ready, Goes
<1>9. ASSUME NEW s \in Sections, NEW sameLine \in BOOLEAN, WriteSection(s, sameLine)
      PROVE  RInv'
  BY <1>1, <1>9 DEF WriteSection
<1>10. ASSUME NEW n \in SignalNames, NEW w \in Widths, WriteSignal(n, w)
       PROVE  RInv'
  <2>1. PICK h : wanted' = [wanted EXCEPT !.signals = h]
    BY <1>10 DEF WriteSignal
  <2> QED BY <1>2, <1>10, <2>1, WithSignals, FramesStay DEF WriteSignal, Ready, Stays
<1>11. ASSUME NEW n \in SignalNames, NEW o \in Offsets, WriteRef(n, o)
       PROVE  RInv'
  BY <1>11, RefsStepRef DEF WriteRef, Ready
<1>12. ASSUME NEW n \in FrameNames, NEW id \in Ids, WriteFrame(n, id)
       PROVE  RInv'
  BY <1>12, RefsStepFrame DEF WriteFrame, Ready
<1>13. ASSUME NEW id \in DOMAIN wanted.frames, NEW d \in Delays, WriteSlot(id, d)
       PROVE  RInv'
  <2>1. PICK h : wanted' = [wanted EXCEPT !.schedules = h]
    <3>1. wanted' = [wanted EXCEPT !.schedules =
                        [wanted.schedules EXCEPT !["T"] = Append(@, [id |-> id, delay |-> d])]]
      BY <1>13 DEF WriteSlot
    <3> QED BY <3>1
  <2> QED BY <1>2, <1>13, <2>1, WithSchedules, FramesStay DEF WriteSlot, Ready, Stays
<1>14. ASSUME NEW l \in Lines, WriteAnything(l)
       PROVE  RInv'
  BY <1>14 DEF WriteAnything
<1>15. CASE EndOfFile /\ UNCHANGED writer
  BY <1>1, <1>15 DEF writer
<1> QED BY <1>3, <1>4, <1>5, <1>6, <1>7, <1>8, <1>9, <1>10, <1>11, <1>12, <1>13, <1>14,
           <1>15 DEF DocNext

(* The last of the references to one name. *)
LastRef(refs, name) == Max({i \in DOMAIN refs : refs[i].name = name})

Decoded(refs) == {refs[i].name : i \in DOMAIN refs} \cap DOMAIN signals

LEMMA DecodeIs ==
    ASSUME NEW id \in DOMAIN frames, NEW data, NEW refs, refs = frames[id].refs
    PROVE  /\ DOMAIN Decode(id, data) = Decoded(refs)
           /\ \A name \in Decoded(refs) :
                 Decode(id, data)[name]
                   = Extract(data, refs[LastRef(refs, name)].offset, signals[name])
<1>1. Decode(id, data) = [name \in Decoded(refs) |->
                             Extract(data, refs[LastRef(refs, name)].offset, signals[name])]
  BY DEF Decode, Decoded, LastRef
<1> QED BY <1>1

LEMMA OnlyRef ==
    ASSUME NEW refs, RefsUsable(refs), NEW i \in DOMAIN refs
    PROVE  LastRef(refs, refs[i].name) = i
<1>1. {j \in DOMAIN refs : refs[j].name = refs[i].name} = {i}
  BY DEF RefsUsable
<1>2. i \in Nat
  BY DEF RefsUsable
<1>3. Max({i}) = i
  BY <1>2 DEF Max
<1> QED BY <1>1, <1>3 DEF LastRef

LEMMA DecodeOfWanted ==
    ASSUME PInv, LInv, RInv, wf, mode = "done"
    PROVE  \A id \in DOMAIN wanted.frames, data \in Payloads :
        LET refs == wanted.frames[id].refs
            known == {i \in DOMAIN refs : refs[i].name \in DOMAIN wanted.signals}
        IN  /\ DOMAIN Decode(id, data) = {refs[i].name : i \in known}
            /\ \A i \in known :
                  Decode(id, data)[refs[i].name]
                    = (AsNumber(data) \div TwoTo[refs[i].offset])
                        % TwoTo[wanted.signals[refs[i].name]]
<1> TAKE id \in DOMAIN wanted.frames, data \in Payloads
<1> DEFINE refs == wanted.frames[id].refs
           known == {i \in DOMAIN refs : refs[i].name \in DOMAIN wanted.signals}
<1>1. frames = wanted.frames /\ signals = wanted.signals
  BY DEF LInv, Lockstep, SameSoFar
<1>2. RefsUsable(refs)
  BY DEF RInv, FrameUsable
<1>3. data \in Seq(0..255)
  BY DocumentAssumption
<1> HIDE DEF refs
<1>4. PICK D : D = Decoded(refs)
  OBVIOUS
<1>5. /\ DOMAIN Decode(id, data) = D
      /\ \A name \in D : Decode(id, data)[name]
                           = Extract(data, refs[LastRef(refs, name)].offset, signals[name])
  BY <1>1, <1>4, DecodeIs DEF refs
<1>6. D = {refs[i].name : i \in known}
  BY <1>1, <1>4 DEF Decoded
<1>7. ASSUME NEW i \in known
      PROVE  Decode(id, data)[refs[i].name]
               = (AsNumber(data) \div TwoTo[refs[i].offset])
                   % TwoTo[wanted.signals[refs[i].name]]
  <2>1. PICK name : name = refs[i].name /\ name \in D /\ name \in DOMAIN signals
    BY <1>1, <1>6
  <2>2. i \in DOMAIN refs
    OBVIOUS
  <2>3. LastRef(refs, name) = i
    BY <1>2, <2>1, <2>2, OnlyRef
  <2>4. PICK offset : offset = refs[i].offset
    OBVIOUS
  <2>5. offset \in Nat
    <3>1. refs[i] \in [name : SignalNames, offset : Offsets]
      <4>1. PICK R : R = [name : SignalNames, offset : Offsets]
        OBVIOUS
      <4>2. refs \in Seq(R)
        BY <1>2, <4>1 DEF RefsUsable
      <4>3. refs[i] \in R
        BY <2>2, <4>2
      <4> QED BY <4>1, <4>3
    <3>2. offset \in 0..63
      BY <2>4, <3>1, DocumentAssumption
    <3> QED BY <3>2
  <2>6. PICK width : width = signals[name]
    OBVIOUS
  <2>7. width \in Nat
    <3>1. width \in 0..64
      BY <2>1, <2>6 DEF PInv, TypeOK
    <3> QED BY <3>1
  <2>8. Decode(id, data)[name] = Extract(data, offset, width)
    BY <1>5, <2>1, <2>3, <2>4, <2>6
  <2>9. Extract(data, offset, width) = (AsNumber(data) \div TwoTo[offset]) % TwoTo[width]
    BY <1>3, <2>5, <2>7, ExtractIsSlice
  <2> QED BY <1>1, <2>1, <2>4, <2>6, <2>8, <2>9
<1> HIDE DEF known
<1>8. DOMAIN Decode(id, data) = {refs[i].name : i \in known}
  BY <1>5, <1>6
<1> QED BY <1>7, <1>8 DEF refs, known

(* DB::decode: every signal that a well-formed file declares is read as    *)
(* the slice of the payload which the file gives it, whatever the payload: *)
(* the loop over single bits, the bytes they come from and the end of a    *)
(* short payload come to a shift and a mask of one little-endian number.   *)
THEOREM DecodedIsSlice == Spec => []DecodeIsSlice
<1>1. PInv /\ LInv /\ RInv => DecodeIsSlice
  BY DecodeOfWanted DEF DecodeIsSlice
<1>2. Spec => []LInv
  BY InitParser, ParserStep, LockstepInit, LockstepStep, PTL DEF Spec
<1>3. Spec => [](PInv /\ LInv /\ RInv)
  BY <1>2, ParserInvariant, RefsInit, RefsStep, PTL DEF Spec
<1> QED BY <1>1, <1>3, PTL

=============================================================================
