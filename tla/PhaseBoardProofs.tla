-------------------------- MODULE PhaseBoardProofs --------------------------
(***************************************************************************)
(* What holds of PhaseBoard for any number of phases, requests, agents,    *)
(* updates and restarts.                                                   *)
(***************************************************************************)
EXTENDS PhaseBoard, WellFoundedInduction, TLAPS

-----------------------------------------------------------------------------
(* The invariant                                                           *)

Under(c, p) == call[c].at # "idle" /\ call[c].phase = p
Sets(c, p, column) == Under(c, p) /\ call[c].kw[column] # Absent

\* A creation is alone with its phase, which is not in the cache yet.
CreatesAlone ==
  \A c \in Callers : call[c].at # "idle" /\ call[c].op = "create" =>
    /\ call[c].at \in {"create", "return"} /\ call[c].kw = Nothing
    /\ cache[call[c].phase] = NoPhase
    /\ call[c].at = "create" => row[call[c].phase] = NoPhase
    /\ call[c].at = "return" => row[call[c].phase] = NewPhase
    /\ \A d \in Callers : Under(d, call[c].phase) => d = c

\* An update is of a phase that is there.
UpdatesKnown ==
  \A c \in Callers : call[c].at # "idle" /\ call[c].op # "create" =>
    call[c].at # "create" /\ cache[call[c].phase] # NoPhase

\* The cache has a phase when its row is there, unless its creation returns.
RowsKnown ==
  \A p \in Phases :
    /\ cache[p] # NoPhase => row[p] # NoPhase
    /\ row[p] # NoPhase => cache[p] # NoPhase \/ \E c \in Callers : Under(c, p)

\* A commit leaves the columns alone that its update does not set.
WritesOwn ==
  \A c \in Callers, column \in Columns :
    call[c].at = "commit" /\ call[c].kw[column] = Absent => call[c].write[column] = Absent

\* How far the one update of a column has come.
Progress(c, p, column) ==
  /\ call[c].at = "load" => cache[p][column] = row[p][column]
  /\ call[c].at = "commit" =>
       /\ cache[p][column] = row[p][column]
       /\ call[c].write[column] = Difference(row[p][column], call[c].kw[column])
  /\ call[c].at = "return" => row[p][column] = call[c].kw[column]
  /\ column = "status" => call[c].kw[column] \in VALID_PHASE_TRANSITIONS[cache[p].status]

\* A column whose updates never overlapped: one update at the most, and none means
\* that the cache agrees with the row.
Orderly(p, column) ==
  /\ \A c, d \in Callers : Sets(c, p, column) /\ Sets(d, p, column) => c = d
  /\ \A c \in Callers : Sets(c, p, column) => Progress(c, p, column)
  /\ cache[p] # NoPhase /\ (\A c \in Callers : ~Sets(c, p, column)) =>
       cache[p][column] = row[p][column]

Base == TypeOK /\ CreatesAlone /\ UpdatesKnown /\ RowsKnown /\ WritesOwn

Inv ==
  /\ Base
  /\ \A p \in Phases, column \in Columns : <<p, column>> \notin raced => Orderly(p, column)

-----------------------------------------------------------------------------
(* Columns                                                                 *)

\* What is written to a column depends on that column only.
LEMMA ColumnByColumn ==
  ASSUME NEW column \in Columns, NEW old \in Phase, NEW kw \in Keywords
  PROVE  /\ Changed(old, kw)[column] = Difference(old[column], kw[column])
         /\ Apply(old, kw)[column] = Assign(old[column], kw[column])
<1>1. CASE column = "status"
  BY <1>1 DEF Changed, Apply
<1>2. CASE column = "doc"
  BY <1>2 DEF Changed, Apply
<1> QED
  BY <1>1, <1>2 DEF Columns

\* The UPDATE is a set of keywords, and what it leaves is a phase.
LEMMA WriteTypes ==
  ASSUME NEW old \in Phase, NEW kw \in Keywords
  PROVE  Changed(old, kw) \in Keywords /\ Apply(old, kw) \in Phase
BY PhaseBoardAssumption DEF Changed, Apply, Difference, Assign, Phase, Keywords

\* Only a keyword that is not passed is Absent: no phase has it in a column.
LEMMA NeverAbsent ==
  ASSUME NEW column \in Columns, NEW old \in Phase
  PROVE  old[column] # Absent
<1>1. CASE column = "status"
  BY <1>1, PhaseBoardAssumption DEF Phase
<1>2. CASE column = "doc"
  BY <1>2, PhaseBoardAssumption DEF Phase
<1> QED
  BY <1>1, <1>2 DEF Columns

\* Writing the difference sets the column to the keyword.
LEMMA DifferenceSets ==
  ASSUME NEW old, NEW new, new # Absent
  PROVE  Assign(old, Difference(old, new)) = new
BY DEF Assign, Difference

-----------------------------------------------------------------------------
(* Types                                                                   *)

Calls ==
  {NoCall} \cup [at: {"create", "load", "commit", "return"}, op: Ops, phase: Phases,
                 kw: Keywords, write: Keywords]

\* The parts of a call under way.
LEMMA CallParts ==
  ASSUME TypeOK, NEW c \in Callers, call[c].at # "idle"
  PROVE  /\ call[c].at \in {"create", "load", "commit", "return"} /\ call[c].op \in Ops
         /\ call[c].phase \in Phases
         /\ call[c].kw \in Keywords /\ call[c].write \in Keywords
BY DEF TypeOK, NoCall

LEMMA NothingIsKeywords == Nothing \in Keywords
BY DEF Nothing, Keywords

LEMMA NewPhaseIsPhase == NewPhase \in Phase /\ NewPhase # NoPhase
BY PhaseBoardAssumption DEF NewPhase, Phase, Status

\* A call that goes on stays a call.
LEMMA GoType ==
  ASSUME TypeOK, NEW c \in Callers, call[c].at # "idle",
         NEW stage \in {"commit", "return"}, NEW write \in Keywords, Go(c, stage, write)
  PROVE  /\ call' \in [Callers -> Calls]
         /\ call'[c].at = stage /\ call'[c].op = call[c].op /\ call'[c].kw = call[c].kw
         /\ call'[c].phase = call[c].phase /\ call'[c].write = write
         /\ \A d \in Callers \ {c} : call'[d] = call[d]
<1>1. /\ call[c] \in [at: {"create", "load", "commit", "return"}, op: Ops, phase: Phases,
                      kw: Keywords, write: Keywords]
      /\ call \in [Callers -> Calls]
  BY DEF TypeOK, NoCall, Calls
<1>2. call' = [call EXCEPT ![c] = [call[c] EXCEPT !.at = stage, !.write = write]]
  BY <1>1 DEF Go
<1>3. [call[c] EXCEPT !.at = stage, !.write = write] \in
        [at: {"create", "load", "commit", "return"}, op: Ops, phase: Phases,
         kw: Keywords, write: Keywords]
  BY <1>1
<1> QED
  BY <1>1, <1>2, <1>3 DEF Calls

\* A message of a decision names a phase, or none at the end of the project.
LEMMA MessagesType ==
  ASSUME NEW op \in Ops, NEW p \in Phases, NEW board, NEW m \in Messages(op, p, board)
  PROVE  m \in (Decisions \cup {"next_phase"}) \X Phases \cup {<<"project_complete", None>>}
<1>1. CASE op = "approve_review"
  <2>1. Messages(op, p, board) =
          IF Current(board) = {} THEN {<<"project_complete", None>>}
                                 ELSE {<<"next_phase", q>> : q \in Current(board)}
    BY <1>1 DEF Messages
  <2>2. Current(board) \subseteq Phases
    BY DEF Current
  <2>3. CASE Current(board) = {}
    BY <2>1, <2>3
  <2>4. CASE Current(board) # {}
    <3>1. PICK q \in Current(board) : m = <<"next_phase", q>>
      BY <2>1, <2>4
    <3> QED
      BY <2>2, <3>1
  <2> QED
    BY <2>3, <2>4
<1>2. CASE op \in Decisions \ {"approve_review"}
  <2>1. m = <<op, p>>
    BY <1>2 DEF Messages
  <2> QED
    BY <1>2, <2>1
<1>3. CASE op \notin Decisions
  <2>1. op # "approve_review"
    BY <1>3 DEF Decisions
  <2> QED
    BY <1>3, <2>1 DEF Messages
<1> QED
  BY <1>1, <1>2, <1>3

\* Every step keeps the types.
LEMMA TypeStep == Base /\ [Next]_vars => TypeOK'
<1> SUFFICES ASSUME Base, [Next]_vars
             PROVE  TypeOK'
  OBVIOUS
<1> USE DEF Base
<1>1. ASSUME NEW c \in Callers, NEW p \in Phases, CreatePhase(c, p)
      PROVE  TypeOK'
  BY <1>1, NothingIsKeywords DEF CreatePhase, TypeOK, Ops
<1>2. ASSUME NEW c \in Callers, NEW op \in Decisions \cup {"update"}, NEW p \in Phases,
             NEW kw \in Keywords, UpdatePhase(c, op, p, kw)
      PROVE  /\ UNCHANGED <<cache, row, told, restarts>>
             /\ call' \in [Callers -> Calls] /\ updates' \in 0..MaxUpdates
             /\ raced' \subseteq Phases \X Columns
  BY <1>2, NothingIsKeywords, PhaseBoardAssumption DEF UpdatePhase, TypeOK, Calls, Ops
<1>3. ASSUME NEW c \in Callers, NEW p \in Phases, NEW op \in Decisions, Decide(c, op, p)
      PROVE  TypeOK'
  <2>1. [status |-> To[op], doc |-> Absent] \in Keywords
    BY DEF To, Decisions, Keywords, Status
  <2> QED
    BY <1>2, <1>3, <2>1 DEF Decide, TypeOK, Calls
<1>4. ASSUME NEW c \in Callers, NEW p \in Phases, NEW kw \in Asks, AgentUpdate(c, p, kw)
      PROVE  TypeOK'
  <2>1. kw \in Keywords
    BY PhaseBoardAssumption
  <2>2. silent' \in BOOLEAN
    BY <1>4 DEF AgentUpdate
  <2>3. UpdatePhase(c, "update", p, kw)
    BY <1>4 DEF AgentUpdate
  <2> QED
    BY <1>2, <2>1, <2>2, <2>3 DEF TypeOK, Calls
<1>5. ASSUME NEW c \in Callers, CreateRow(c)
      PROVE  TypeOK'
  <2>1. call' \in [Callers -> Calls]
    BY <1>5, GoType, NothingIsKeywords DEF CreateRow, At
  <2> QED
    BY <1>5, <2>1, NewPhaseIsPhase DEF CreateRow, TypeOK, Calls
<1>6. ASSUME NEW c \in Callers, LoadRow(c)
      PROVE  TypeOK'
  <2>1. call[c].at # "idle" /\ call[c].op # "create"
    BY <1>6 DEF LoadRow, At, CreatesAlone
  <2>2. row[call[c].phase] \in Phase
    BY <2>1, CallParts DEF UpdatesKnown, RowsKnown, TypeOK
  <2>3. Changed(row[call[c].phase], call[c].kw) \in Keywords
    BY <2>1, <2>2, CallParts, WriteTypes
  <2>4. call' \in [Callers -> Calls]
    BY <1>6, <2>1, <2>3, GoType DEF LoadRow
  <2> QED
    BY <1>6, <2>4 DEF LoadRow, TypeOK, Calls
<1>7. ASSUME NEW c \in Callers, CommitRow(c)
      PROVE  TypeOK'
  <2>1. call[c].at # "idle" /\ call[c].op # "create"
    BY <1>7 DEF CommitRow, At, CreatesAlone
  <2>2. row[call[c].phase] \in Phase
    BY <2>1, CallParts DEF UpdatesKnown, RowsKnown, TypeOK
  <2>3. Apply(row[call[c].phase], call[c].write) \in Phase
    BY <2>1, <2>2, CallParts, WriteTypes
  <2>4. call' \in [Callers -> Calls]
    BY <1>7, <2>1, GoType, NothingIsKeywords DEF CommitRow
  <2> QED
    BY <1>7, <2>3, <2>4 DEF CommitRow, TypeOK, Calls
<1>8. ASSUME NEW c \in Callers, UpdateCache(c)
      PROVE  TypeOK'
  <2> DEFINE p == call[c].phase
  <2>1. call[c].at # "idle"
    BY <1>8 DEF UpdateCache, At
  <2>2. call[c].op # "create" => Apply(cache[p], call[c].kw) \in Phase
    BY <2>1, CallParts, WriteTypes DEF UpdatesKnown, TypeOK
  <2>3. cache' \in [Phases -> Phase \cup {NoPhase}]
    BY <1>8, <2>1, <2>2, NewPhaseIsPhase DEF UpdateCache, TypeOK
  <2>4. \/ told' = told
        \/ \E m \in Messages(call[c].op, p, BoardToTell(cache, cache')) : told' = told \cup {m}
    BY <1>8 DEF UpdateCache
  <2>5. told' \subseteq (Decisions \cup {"next_phase"}) \X Phases
                         \cup {<<"project_complete", None>>}
    BY <2>1, <2>4, CallParts, MessagesType DEF TypeOK
  <2>6. call' \in [Callers -> Calls] /\ UNCHANGED <<row, updates, restarts, raced, silent>>
    BY <1>8 DEF UpdateCache, TypeOK, Calls
  <2> QED
    BY <2>3, <2>5, <2>6 DEF TypeOK, Calls
<1>9. ASSUME Restart
      PROVE  TypeOK'
  BY <1>9, PhaseBoardAssumption DEF Restart, TypeOK
<1>10. CASE UNCHANGED vars
  BY <1>10 DEF vars, TypeOK
<1> QED
  BY <1>1, <1>3, <1>4, <1>5, <1>6, <1>7, <1>8, <1>9, <1>10 DEF Next

-----------------------------------------------------------------------------
(* The invariant is kept                                                   *)

LEMMA NothingIsSet ==
  ASSUME NEW column \in Columns
  PROVE  Nothing[column] = Absent
BY DEF Nothing, Columns

\* The invariant without the types.
Rest ==
  /\ CreatesAlone /\ UpdatesKnown /\ RowsKnown /\ WritesOwn
  /\ \A p \in Phases, column \in Columns : <<p, column>> \notin raced => Orderly(p, column)

\* A creation begins: its phase is nobody's, and no column is set by it.
LEMMA CreateKeeps ==
  ASSUME Inv, NEW c \in Callers, NEW p \in Phases, CreatePhase(c, p)
  PROVE  Rest'
<1> USE DEF Inv, Base
<1>1. /\ UNCHANGED <<cache, row, raced>> /\ row[p] = NoPhase
      /\ call'[c] = [at |-> "create", op |-> "create", phase |-> p,
                     kw |-> Nothing, write |-> Nothing]
      /\ \A d \in Callers \ {c} : call'[d] = call[d]
  BY DEF CreatePhase, TypeOK
<1>2. cache[p] = NoPhase /\ call[c].at = "idle" /\ \A d \in Callers : ~Under(d, p)
  BY DEF CreatePhase, Busy, Under, At, RowsKnown
<1>3. CreatesAlone' /\ UpdatesKnown'
  BY <1>1, <1>2 DEF CreatesAlone, UpdatesKnown, Under
<1>4. RowsKnown'
  BY <1>1, <1>2 DEF RowsKnown, Under
<1>5. WritesOwn'
  BY <1>1 DEF WritesOwn
<1>6. ASSUME NEW q \in Phases, NEW column \in Columns, <<q, column>> \notin raced'
      PROVE  Orderly(q, column)'
  <2>1. Orderly(q, column)
    BY <1>1, <1>6
  <2>2. ~Sets(c, q, column) /\ ~Sets(c, q, column)'
    BY <1>1, <1>2, NothingIsSet DEF Sets, Under
  <2>3. \A d \in Callers \ {c} : Sets(d, q, column)' <=> Sets(d, q, column)
    BY <1>1 DEF Sets, Under
  <2>4. \A d \in Callers \ {c} : Progress(d, q, column)' <=> Progress(d, q, column)
    BY <1>1 DEF Progress
  <2> QED
    BY <1>1, <2>1, <2>2, <2>3, <2>4 DEF Orderly
<1> QED
  BY <1>3, <1>4, <1>5, <1>6 DEF Rest

\* The row of a creation is inserted: the creation is the only call for it.
LEMMA CreateRowKeeps ==
  ASSUME Inv, NEW c \in Callers, CreateRow(c)
  PROVE  Rest'
<1> USE DEF Inv, Base
<1> DEFINE p == call[c].phase
<1>1. call[c].at = "create" /\ call[c].op = "create" /\ p \in Phases /\ call[c].kw = Nothing
  <2>1. call[c].at = "create"
    BY DEF CreateRow, At
  <2> QED
    BY <2>1, CallParts DEF UpdatesKnown, CreatesAlone
<1>2. /\ UNCHANGED <<cache, raced>> /\ row' = [row EXCEPT ![p] = NewPhase]
      /\ call'[c].at = "return" /\ call'[c].op = "create" /\ call'[c].phase = p
      /\ call'[c].kw = Nothing
      /\ \A d \in Callers \ {c} : call'[d] = call[d]
  BY <1>1, GoType, NothingIsKeywords DEF CreateRow
<1>3. /\ cache[p] = NoPhase /\ row[p] = NoPhase /\ row'[p] = NewPhase
      /\ \A q \in Phases \ {p} : row'[q] = row[q]
      /\ \A d \in Callers \ {c} : ~Under(d, p)
  BY <1>1, <1>2 DEF CreatesAlone, TypeOK
<1>4. CreatesAlone'
  <2>1. ASSUME NEW d \in Callers, call'[d].at # "idle", call'[d].op = "create"
        PROVE  /\ call'[d].at \in {"create", "return"} /\ call'[d].kw = Nothing
               /\ cache'[call'[d].phase] = NoPhase
               /\ call'[d].at = "create" => row'[call'[d].phase] = NoPhase
               /\ call'[d].at = "return" => row'[call'[d].phase] = NewPhase
               /\ \A e \in Callers : Under(e, call[d].phase)' => e = d
    <3>1. CASE d = c
      BY <1>1, <1>2, <1>3, <3>1 DEF Under
    <3>2. CASE d # c
      <4>1. call'[d] = call[d] /\ call[d].phase \in Phases
        BY <1>2, <2>1, <3>2, CallParts
      <4>2. call[d].phase # p
        BY <1>3, <2>1, <3>2, <4>1 DEF Under
      <4> QED
        BY <1>2, <1>3, <2>1, <3>2, <4>1, <4>2 DEF CreatesAlone, Under
    <3> QED
      BY <3>1, <3>2
  <2> QED
    BY <2>1 DEF CreatesAlone
<1>5. UpdatesKnown' /\ WritesOwn'
  BY <1>2 DEF UpdatesKnown, WritesOwn
<1>6. RowsKnown'
  <2>1. Under(c, p)' /\ \A d \in Callers, q \in Phases : Under(d, q) => Under(d, q)'
    BY <1>1, <1>2 DEF Under
  <2> QED
    BY <1>2, <1>3, <2>1 DEF RowsKnown
<1>7. ASSUME NEW q \in Phases, NEW column \in Columns, <<q, column>> \notin raced'
      PROVE  Orderly(q, column)'
  <2>1. Orderly(q, column)
    BY <1>2, <1>7
  <2>2. ~Sets(c, q, column) /\ ~Sets(c, q, column)'
    BY <1>1, <1>2, NothingIsSet DEF Sets
  <2>3. \A d \in Callers \ {c} : Sets(d, q, column)' <=> Sets(d, q, column)
    BY <1>2 DEF Sets, Under
  <2>4. CASE q = p
    BY <1>2, <1>3, <2>2, <2>3, <2>4 DEF Orderly, Sets
  <2>5. CASE q # p
    <3>1. \A d \in Callers \ {c} : Progress(d, q, column)' <=> Progress(d, q, column)
      BY <1>2, <1>3, <2>5 DEF Progress
    <3> QED
      BY <1>2, <1>3, <2>1, <2>2, <2>3, <2>5, <3>1 DEF Orderly
  <2> QED
    BY <2>4, <2>5
<1> QED
  BY <1>4, <1>5, <1>6, <1>7 DEF Rest

\* An update passes the check. Of a column it sets and that stays out of `raced`
\* it is the only update, so that the row agrees with the cache that was checked.
LEMMA UpdateKeeps ==
  ASSUME Inv, NEW c \in Callers, NEW op \in Decisions \cup {"update"}, NEW p \in Phases,
         NEW kw \in Keywords, UpdatePhase(c, op, p, kw)
  PROVE  Rest'
<1> USE DEF Inv, Base
<1>1. /\ UNCHANGED <<cache, row>> /\ cache[p] # NoPhase /\ call[c].at = "idle"
      /\ Allowed(cache[p].status, kw.status)
      /\ call'[c] = [at |-> "load", op |-> op, phase |-> p, kw |-> kw, write |-> Nothing]
      /\ \A d \in Callers \ {c} : call'[d] = call[d]
  BY DEF UpdatePhase, TypeOK, At, Cached
<1>2. op # "create"
  BY DEF Decisions
<1>3. \A d \in Callers : Under(d, p) => call[d].op # "create"
  BY <1>1 DEF CreatesAlone, Under
<1>4. CreatesAlone'
  <2>1. ASSUME NEW d \in Callers, call'[d].at # "idle", call'[d].op = "create"
        PROVE  d # c /\ call'[d] = call[d] /\ call[d].phase # p
    BY <1>1, <1>2, <1>3, <2>1 DEF Under
  <2>2. ASSUME NEW d \in Callers, call'[d].at # "idle", call'[d].op = "create",
               NEW e \in Callers, Under(e, call[d].phase)'
        PROVE  e = d
    BY <1>1, <2>1, <2>2 DEF Under, CreatesAlone
  <2> QED
    BY <1>1, <2>1, <2>2 DEF CreatesAlone
<1>5. UpdatesKnown' /\ WritesOwn'
  BY <1>1 DEF UpdatesKnown, WritesOwn
<1>6. RowsKnown'
  BY <1>1 DEF RowsKnown, Under
<1>7. ASSUME NEW q \in Phases, NEW column \in Columns, <<q, column>> \notin raced'
      PROVE  Orderly(q, column)'
  <2>1. Orderly(q, column)
    BY <1>7 DEF UpdatePhase
  <2>2. \A d \in Callers \ {c} :
          /\ Sets(d, q, column)' <=> Sets(d, q, column)
          /\ Progress(d, q, column)' <=> Progress(d, q, column)
    BY <1>1 DEF Sets, Under, Progress
  <2>3. ~Sets(c, q, column)
    BY <1>1 DEF Sets, Under
  <2>4. CASE ~Sets(c, q, column)'
    BY <1>1, <2>1, <2>2, <2>3, <2>4 DEF Orderly
  <2>5. CASE Sets(c, q, column)'
    <3>1. q = p /\ kw[column] # Absent
      BY <1>1, <2>5 DEF Sets, Under
    <3>2. Setting(q, column) = {}
      BY <1>7, <3>1 DEF UpdatePhase
    <3>3. \A d \in Callers : ~Sets(d, q, column)
      BY <3>2 DEF Setting, Busy, Sets, Under, At
    <3>4. cache[q][column] = row[q][column]
      BY <1>1, <2>1, <3>1, <3>3 DEF Orderly
    <3>5. column = "status" => kw[column] \in VALID_PHASE_TRANSITIONS[cache[q].status]
      BY <1>1, <3>1 DEF Allowed
    <3>6. Progress(c, q, column)'
      BY <1>1, <3>1, <3>4, <3>5 DEF Progress
    <3> QED
      BY <1>1, <2>2, <2>5, <3>1, <3>3, <3>6 DEF Orderly
  <2> QED
    BY <2>4, <2>5
<1> QED
  BY <1>4, <1>5, <1>6, <1>7 DEF Rest

\* A call that goes on is still the call for its phase and sets the same columns.
LEMMA StillUnder ==
  ASSUME TypeOK, NEW c \in Callers, call[c].at # "idle",
         NEW stage \in {"commit", "return"}, NEW write \in Keywords, Go(c, stage, write)
  PROVE  \A d \in Callers, q \in Phases :
           /\ Under(d, q)' <=> Under(d, q)
           /\ \A column \in Columns : Sets(d, q, column)' <=> Sets(d, q, column)
<1>1. /\ call'[c].at = stage /\ call'[c].kw = call[c].kw /\ call'[c].phase = call[c].phase
      /\ \A d \in Callers \ {c} : call'[d] = call[d]
  BY GoType
<1> QED
  BY <1>1 DEF Under, Sets

\* The row is loaded, and the difference is what will be written.
LEMMA LoadKeeps ==
  ASSUME Inv, NEW c \in Callers, LoadRow(c)
  PROVE  Rest'
<1> USE DEF Inv, Base
<1> DEFINE p == call[c].phase
           changed == Changed(row[p], call[c].kw)
<1>1. call[c].at = "load" /\ call[c].op # "create" /\ p \in Phases /\ call[c].kw \in Keywords
  <2>1. call[c].at = "load"
    BY DEF LoadRow, At
  <2> QED
    BY <2>1, CallParts DEF CreatesAlone
<1>2. row[p] \in Phase
  BY <1>1 DEF UpdatesKnown, RowsKnown, TypeOK
<1>3. changed \in Keywords /\ Go(c, "commit", changed) /\ UNCHANGED <<cache, row, raced>>
  BY <1>1, <1>2, WriteTypes DEF LoadRow
<1>4. /\ call'[c].at = "commit" /\ call'[c].op = call[c].op /\ call'[c].kw = call[c].kw
      /\ call'[c].phase = p /\ call'[c].write = changed
      /\ \A d \in Callers \ {c} : call'[d] = call[d]
  BY <1>1, <1>3, GoType
<1>5. \A d \in Callers, q \in Phases :
        /\ Under(d, q)' <=> Under(d, q)
        /\ \A column \in Columns : Sets(d, q, column)' <=> Sets(d, q, column)
  BY <1>1, <1>3, StillUnder
<1>6. CreatesAlone'
  <2>1. \A d \in Callers : call'[d].at # "idle" /\ call'[d].op = "create" =>
          call'[d] = call[d] /\ call[d].phase \in Phases
    BY <1>1, <1>4, CallParts
  <2> QED
    BY <1>3, <1>5, <2>1 DEF CreatesAlone
<1>7. UpdatesKnown' /\ RowsKnown'
  BY <1>1, <1>3, <1>4, <1>5 DEF UpdatesKnown, RowsKnown
<1>8. \A column \in Columns : changed[column] = Difference(row[p][column], call[c].kw[column])
  BY <1>1, <1>2, ColumnByColumn
<1>9. WritesOwn'
  BY <1>2, <1>4, <1>8, NeverAbsent DEF WritesOwn, Difference
<1>10. ASSUME NEW q \in Phases, NEW column \in Columns, <<q, column>> \notin raced'
       PROVE  Orderly(q, column)'
  <2>1. Orderly(q, column)
    BY <1>3, <1>10
  <2>2. \A d \in Callers \ {c} : Progress(d, q, column)' <=> Progress(d, q, column)
    BY <1>3, <1>4 DEF Progress
  <2>3. ASSUME Sets(c, q, column)
        PROVE  Progress(c, q, column)'
    <3>1. q = p /\ Progress(c, p, column)
      BY <2>1, <2>3 DEF Orderly, Sets, Under
    <3> QED
      BY <1>1, <1>3, <1>4, <1>8, <3>1 DEF Progress
  <2> QED
    BY <1>3, <1>5, <2>1, <2>2, <2>3 DEF Orderly
<1> QED
  BY <1>6, <1>7, <1>9, <1>10 DEF Rest

\* The columns that differ are written: those the update sets and no other.
LEMMA CommitKeeps ==
  ASSUME Inv, NEW c \in Callers, CommitRow(c)
  PROVE  /\ Rest'
         /\ \A p \in Phases : <<p, "status">> \notin raced /\ row[p] # NoPhase =>
              /\ row'[p] # NoPhase
              /\ row'[p].status # row[p].status =>
                   row'[p].status \in VALID_PHASE_TRANSITIONS[row[p].status]
<1> USE DEF Inv, Base
<1> DEFINE p == call[c].phase
           write == call[c].write
<1>1. /\ call[c].at = "commit" /\ call[c].op # "create" /\ p \in Phases
      /\ call[c].kw \in Keywords /\ write \in Keywords
  <2>1. call[c].at = "commit"
    BY DEF CommitRow, At
  <2> QED
    BY <2>1, CallParts DEF CreatesAlone
<1>2. row[p] \in Phase /\ cache[p] # NoPhase
  BY <1>1 DEF UpdatesKnown, RowsKnown, TypeOK
<1>3. Go(c, "return", Nothing) /\ UNCHANGED <<cache, raced>>
  BY DEF CommitRow
<1>4. /\ call'[c].at = "return" /\ call'[c].op = call[c].op /\ call'[c].kw = call[c].kw
      /\ call'[c].phase = p
      /\ \A d \in Callers \ {c} : call'[d] = call[d]
  BY <1>1, <1>3, GoType, NothingIsKeywords
<1>5. \A d \in Callers, q \in Phases :
        /\ Under(d, q)' <=> Under(d, q)
        /\ \A column \in Columns : Sets(d, q, column)' <=> Sets(d, q, column)
  BY <1>1, <1>3, StillUnder, NothingIsKeywords
<1>6. /\ row'[p] = Apply(row[p], write) /\ row'[p] \in Phase /\ row'[p] # NoPhase
      /\ \A q \in Phases \ {p} : row'[q] = row[q]
  BY <1>1, <1>2, WriteTypes, PhaseBoardAssumption DEF CommitRow, TypeOK
<1>7. \A column \in Columns : row'[p][column] = Assign(row[p][column], write[column])
  BY <1>1, <1>2, <1>6, ColumnByColumn
<1>8. ASSUME NEW column \in Columns, call[c].kw[column] = Absent
      PROVE  row'[p][column] = row[p][column]
  BY <1>1, <1>7, <1>8 DEF WritesOwn, Assign
<1>9. ASSUME NEW column \in Columns, call[c].kw[column] # Absent, <<p, column>> \notin raced
      PROVE  /\ row'[p][column] = call[c].kw[column]
             /\ cache[p][column] = row[p][column] /\ Progress(c, p, column)
  <2>1. Progress(c, p, column)
    BY <1>1, <1>9 DEF Orderly, Sets, Under
  <2> QED
    BY <1>1, <1>7, <1>9, <2>1, DifferenceSets DEF Progress
<1>10. CreatesAlone'
  <2>1. ASSUME NEW d \in Callers, call'[d].at # "idle", call'[d].op = "create"
        PROVE  d # c /\ call'[d] = call[d] /\ call[d].phase \in Phases /\ call[d].phase # p
    <3>1. d # c /\ call'[d] = call[d]
      BY <1>1, <1>4, <2>1
    <3> QED
      BY <1>2, <2>1, <3>1, CallParts DEF CreatesAlone
  <2> QED
    BY <1>3, <1>5, <1>6, <2>1 DEF CreatesAlone
<1>11. UpdatesKnown' /\ WritesOwn'
  BY <1>1, <1>3, <1>4 DEF UpdatesKnown, WritesOwn
<1>12. RowsKnown'
  BY <1>2, <1>3, <1>5, <1>6 DEF RowsKnown
<1>13. ASSUME NEW q \in Phases, NEW column \in Columns, <<q, column>> \notin raced'
       PROVE  Orderly(q, column)'
  <2>1. Orderly(q, column)
    BY <1>3, <1>13
  <2>2. CASE q # p
    <3>1. \A d \in Callers : Sets(d, q, column) => (Progress(d, q, column)' <=> Progress(d, q, column))
      BY <1>3, <1>4, <1>6, <2>2 DEF Progress, Sets, Under
    <3> QED
      BY <1>3, <1>5, <1>6, <2>1, <2>2, <3>1 DEF Orderly
  <2>3. CASE q = p /\ call[c].kw[column] = Absent
    <3>1. row'[q][column] = row[q][column]
      BY <1>8, <2>3
    <3>2. \A d \in Callers \ {c} : Progress(d, q, column)' <=> Progress(d, q, column)
      BY <1>3, <1>4, <3>1 DEF Progress
    <3>3. ~Sets(c, q, column)
      BY <2>3 DEF Sets
    <3> QED
      BY <1>3, <1>5, <2>1, <3>1, <3>2, <3>3 DEF Orderly
  <2>4. CASE q = p /\ call[c].kw[column] # Absent
    <3>1. /\ row'[q][column] = call[c].kw[column] /\ Progress(c, q, column)
      BY <1>3, <1>9, <1>13, <2>4
    <3>2. Progress(c, q, column)'
      BY <1>3, <1>4, <3>1 DEF Progress
    <3>3. Sets(c, q, column)
      BY <1>1, <2>4 DEF Sets, Under
    <3> QED
      BY <1>3, <1>5, <2>1, <3>2, <3>3 DEF Orderly
  <2> QED
    BY <2>2, <2>3, <2>4
<1>14. ASSUME NEW q \in Phases, <<q, "status">> \notin raced, row[q] # NoPhase
       PROVE  /\ row'[q] # NoPhase
              /\ row'[q].status # row[q].status =>
                   row'[q].status \in VALID_PHASE_TRANSITIONS[row[q].status]
  <2>1. "status" \in Columns
    BY DEF Columns
  <2>2. CASE q # p
    BY <1>6, <1>14, <2>2
  <2>3. CASE q = p /\ call[c].kw["status"] = Absent
    BY <1>6, <1>8, <2>1, <2>3
  <2>4. CASE q = p /\ call[c].kw["status"] # Absent
    BY <1>6, <1>9, <1>14, <2>1, <2>4 DEF Progress
  <2> QED
    BY <2>2, <2>3, <2>4
<1> QED
  BY <1>10, <1>11, <1>12, <1>13, <1>14 DEF Rest

\* A call returns and changes the cache: to the new phase of the row, or in the
\* columns its update has set.
LEMMA CacheKeeps ==
  ASSUME Inv, NEW c \in Callers, UpdateCache(c)
  PROVE  /\ Rest'
         /\ \A q \in Phases : <<q, "status">> \notin raced /\ cache[q] # NoPhase =>
              /\ cache'[q] # NoPhase
              /\ cache'[q].status # cache[q].status =>
                   cache'[q].status \in VALID_PHASE_TRANSITIONS[cache[q].status]
<1> USE DEF Inv, Base
<1>1. PICK p \in Phases : p = call[c].phase
  BY CallParts DEF UpdateCache, At
<1>2. /\ call[c].at = "return" /\ call[c].kw \in Keywords /\ Under(c, p)
      /\ UNCHANGED <<row, raced>>
      /\ call'[c] = NoCall /\ \A d \in Callers \ {c} : call'[d] = call[d]
  BY <1>1, CallParts DEF UpdateCache, At, TypeOK, Under
<1>3. /\ \A q \in Phases \ {p} : cache'[q] = cache[q]
      /\ cache'[p] = IF call[c].op = "create" THEN NewPhase ELSE Apply(cache[p], call[c].kw)
  BY <1>1 DEF UpdateCache, TypeOK
<1>4. ASSUME call[c].op # "create"
      PROVE  /\ cache[p] \in Phase /\ cache'[p] \in Phase
             /\ \A column \in Columns :
                  cache'[p][column] = Assign(cache[p][column], call[c].kw[column])
  <2>1. cache[p] \in Phase
    BY <1>1, <1>2, <1>4 DEF UpdatesKnown, TypeOK
  <2>2. cache'[p] = Apply(cache[p], call[c].kw)
    BY <1>3, <1>4
  <2>3. Apply(cache[p], call[c].kw) \in Phase
    BY <1>2, <2>1, WriteTypes
  <2>4. \A column \in Columns :
          Apply(cache[p], call[c].kw)[column] = Assign(cache[p][column], call[c].kw[column])
    BY <1>2, <2>1, ColumnByColumn
  <2> QED
    BY <2>1, <2>2, <2>3, <2>4
<1>5. ASSUME call[c].op = "create"
      PROVE  /\ cache[p] = NoPhase /\ row[p] = NewPhase /\ call[c].kw = Nothing
             /\ \A d \in Callers \ {c} : ~Under(d, p)
  BY <1>1, <1>2, <1>5 DEF CreatesAlone
<1>6. cache'[p] # NoPhase /\ row[p] # NoPhase
  BY <1>1, <1>3, <1>4, <1>5, NewPhaseIsPhase, PhaseBoardAssumption DEF RowsKnown
<1>7. ASSUME NEW d \in Callers
      PROVE  /\ call'[d].at # "idle" => d # c /\ call'[d] = call[d] /\ call[d].phase \in Phases
             /\ \A q \in Phases : Under(d, q)' <=> d # c /\ Under(d, q)
             /\ \A q \in Phases, column \in Columns :
                  Sets(d, q, column)' <=> d # c /\ Sets(d, q, column)
  BY <1>2, CallParts DEF NoCall, Under, Sets
<1>8. CreatesAlone'
  <2>1. ASSUME NEW d \in Callers, call'[d].at # "idle", call'[d].op = "create"
        PROVE  d # c /\ call'[d] = call[d] /\ call[d].phase \in Phases /\ call[d].phase # p
    <3>1. d # c /\ call'[d] = call[d] /\ call[d].phase \in Phases
      BY <1>7, <2>1
    <3>2. call[c].op = "create" => call[d].phase # p
      BY <1>5, <2>1, <3>1 DEF Under
    <3>3. call[c].op # "create" => call[d].phase # p
      BY <1>4, <2>1, <3>1, PhaseBoardAssumption DEF CreatesAlone
    <3> QED
      BY <3>1, <3>2, <3>3
  <2> QED
    BY <1>2, <1>3, <1>7, <2>1 DEF CreatesAlone
<1>9. UpdatesKnown'
  <2>1. ASSUME NEW d \in Callers, call'[d].at # "idle", call'[d].op # "create"
        PROVE  call'[d].at # "create" /\ cache'[call'[d].phase] # NoPhase
    <3>1. call'[d] = call[d] /\ call[d].phase \in Phases
      BY <1>7, <2>1
    <3> QED
      BY <1>3, <1>6, <2>1, <3>1 DEF UpdatesKnown
  <2> QED
    BY <2>1 DEF UpdatesKnown
<1>10. RowsKnown'
  <2>1. ASSUME NEW q \in Phases
        PROVE  /\ cache'[q] # NoPhase => row'[q] # NoPhase
               /\ row'[q] # NoPhase => cache'[q] # NoPhase \/ \E d \in Callers : Under(d, q)'
    <3>1. CASE q = p
      BY <1>2, <1>6, <3>1
    <3>2. CASE q # p
      <4>1. \A d \in Callers : Under(d, q) => Under(d, q)'
        BY <1>1, <1>7, <3>2 DEF Under
      <4> QED
        BY <1>2, <1>3, <3>2, <4>1 DEF RowsKnown
    <3> QED
      BY <3>1, <3>2
  <2> QED
    BY <2>1 DEF RowsKnown
<1>11. WritesOwn'
  BY <1>2 DEF WritesOwn, NoCall
<1>12. ASSUME NEW column \in Columns, call[c].op # "create", call[c].kw[column] = Absent
       PROVE  cache'[p][column] = cache[p][column]
  BY <1>4, <1>12 DEF Assign
<1>13. ASSUME NEW column \in Columns, call[c].op # "create", call[c].kw[column] # Absent,
              <<p, column>> \notin raced
       PROVE  /\ cache'[p][column] = row[p][column] /\ Progress(c, p, column)
              /\ cache'[p][column] = call[c].kw[column]
  <2>1. Progress(c, p, column)
    BY <1>2, <1>13 DEF Orderly, Sets
  <2> QED
    BY <1>2, <1>4, <1>13, <2>1 DEF Progress, Assign
<1>14. ASSUME NEW q \in Phases, NEW column \in Columns, <<q, column>> \notin raced'
       PROVE  Orderly(q, column)'
  <2>1. Orderly(q, column)
    BY <1>2, <1>14
  <2>2. CASE q # p
    <3>1. \A d \in Callers \ {c} : Progress(d, q, column)' <=> Progress(d, q, column)
      BY <1>2, <1>3, <2>2 DEF Progress
    <3>2. ~Sets(c, q, column)
      BY <1>1, <2>2 DEF Sets, Under
    <3> QED
      BY <1>2, <1>3, <1>7, <2>1, <2>2, <3>1, <3>2 DEF Orderly
  <2>3. CASE q = p /\ call[c].op = "create"
    <3>1. \A d \in Callers : ~Sets(d, q, column)'
      BY <1>5, <1>7, <2>3 DEF Sets
    <3>2. cache'[q] = NewPhase /\ row'[q] = NewPhase
      BY <1>2, <1>3, <1>5, <2>3
    <3> QED
      BY <3>1, <3>2 DEF Orderly
  <2>4. CASE q = p /\ call[c].op # "create" /\ call[c].kw[column] = Absent
    <3>1. cache'[q][column] = cache[q][column]
      BY <1>12, <2>4
    <3>2. \A d \in Callers \ {c} : Progress(d, q, column)' <=> Progress(d, q, column)
      <4>1. CASE column = "status"
        BY <1>2, <3>1, <4>1 DEF Progress
      <4>2. CASE column # "status"
        BY <1>2, <3>1, <4>2 DEF Progress
      <4> QED
        BY <4>1, <4>2
    <3>3. ~Sets(c, q, column) /\ cache[q] # NoPhase
      BY <1>4, <2>4, PhaseBoardAssumption DEF Sets
    <3> QED
      BY <1>2, <1>7, <2>1, <3>1, <3>2, <3>3 DEF Orderly
  <2>5. CASE q = p /\ call[c].op # "create" /\ call[c].kw[column] # Absent
    <3>1. cache'[q][column] = row'[q][column]
      BY <1>2, <1>13, <1>14, <2>5
    <3>2. Sets(c, q, column)
      BY <1>2, <2>5 DEF Sets
    <3>3. \A d \in Callers : ~Sets(d, q, column)'
      BY <1>7, <2>1, <3>2 DEF Orderly
    <3> QED
      BY <3>1, <3>3 DEF Orderly
  <2> QED
    BY <2>2, <2>3, <2>4, <2>5
<1>15. ASSUME NEW q \in Phases, <<q, "status">> \notin raced, cache[q] # NoPhase
       PROVE  /\ cache'[q] # NoPhase
              /\ cache'[q].status # cache[q].status =>
                   cache'[q].status \in VALID_PHASE_TRANSITIONS[cache[q].status]
  <2>1. "status" \in Columns
    BY DEF Columns
  <2>2. CASE q # p
    BY <1>3, <1>15, <2>2
  <2>3. CASE q = p /\ call[c].kw["status"] = Absent
    BY <1>5, <1>6, <1>12, <1>15, <2>1, <2>3
  <2>4. CASE q = p /\ call[c].kw["status"] # Absent
    BY <1>5, <1>6, <1>13, <1>15, <2>1, <2>4 DEF Progress
  <2> QED
    BY <2>2, <2>3, <2>4
<1> QED
  BY <1>8, <1>9, <1>10, <1>11, <1>14, <1>15 DEF Rest

\* A restart shows what the rows say: what the cache said, or where the one update
\* under way was taking it.
LEMMA RestartKeeps ==
  ASSUME Inv, Restart
  PROVE  /\ Rest'
         /\ \A p \in Phases : <<p, "status">> \notin raced /\ cache[p] # NoPhase =>
              /\ cache'[p] # NoPhase
              /\ cache'[p].status # cache[p].status =>
                   cache'[p].status \in VALID_PHASE_TRANSITIONS[cache[p].status]
<1> USE DEF Inv, Base
<1>1. /\ cache' = row /\ UNCHANGED <<row, raced>>
      /\ \A c \in Callers : call'[c] = NoCall
  BY DEF Restart
<1>2. Rest'
  BY <1>1 DEF Rest, CreatesAlone, UpdatesKnown, RowsKnown, WritesOwn, Orderly, Sets, Under, NoCall
<1>3. ASSUME NEW p \in Phases, <<p, "status">> \notin raced, cache[p] # NoPhase
      PROVE  /\ cache'[p] # NoPhase
             /\ cache'[p].status # cache[p].status =>
                  cache'[p].status \in VALID_PHASE_TRANSITIONS[cache[p].status]
  <2>1. Orderly(p, "status")
    BY <1>3 DEF Columns
  <2>2. row[p] # NoPhase
    BY <1>3 DEF RowsKnown
  <2>3. CASE \A c \in Callers : ~Sets(c, p, "status")
    BY <1>1, <1>3, <2>1, <2>2, <2>3 DEF Orderly
  <2>4. ASSUME NEW c \in Callers, Sets(c, p, "status")
        PROVE  \/ cache[p].status = row[p].status
               \/ row[p].status \in VALID_PHASE_TRANSITIONS[cache[p].status]
    <3>1. Progress(c, p, "status") /\ call[c].at # "idle" /\ call[c].phase = p
      BY <2>1, <2>4 DEF Orderly, Sets, Under
    <3>2. call[c].at # "create"
      BY <1>3, <3>1 DEF UpdatesKnown, CreatesAlone
    <3>3. call[c].at \in {"load", "commit", "return"}
      BY <3>1, <3>2, CallParts
    <3> QED
      BY <3>1, <3>3 DEF Progress
  <2> QED
    BY <1>1, <2>2, <2>3, <2>4
<1> QED
  BY <1>2, <1>3

-----------------------------------------------------------------------------
(* The theorems                                                            *)

\* The status of a phase moves by the table, in the cache and in the database.
Moves(p, before, after) ==
  before[p] # NoPhase =>
    /\ after[p] # NoPhase
    /\ after[p].status # before[p].status =>
         after[p].status \in VALID_PHASE_TRANSITIONS[before[p].status]

\* Every step keeps the invariant, and moves the unraced phases by the table.
LEMMA InvStep ==
  ASSUME Inv, [Next]_vars
  PROVE  /\ Inv'
         /\ \A p \in Phases : <<p, "status">> \notin raced' =>
              Moves(p, cache, cache') /\ Moves(p, row, row')
<1> DEFINE Follows == \A p \in Phases : <<p, "status">> \notin raced' =>
                        Moves(p, cache, cache') /\ Moves(p, row, row')
<1>1. TypeOK'
  BY TypeStep DEF Inv
<1>2. ASSUME NEW c \in Callers, NEW p \in Phases, CreatePhase(c, p)
      PROVE  Rest' /\ Follows
  BY <1>2, CreateKeeps DEF CreatePhase, Moves
<1>3. ASSUME NEW c \in Callers, NEW p \in Phases, NEW op \in Decisions, Decide(c, op, p)
      PROVE  Rest' /\ Follows
  <2> DEFINE kw == [status |-> To[op], doc |-> Absent]
  <2>1. kw \in Keywords
    BY DEF To, Decisions, Keywords, Status
  <2>2. UpdatePhase(c, op, p, kw)
    BY <1>3 DEF Decide
  <2> QED
    BY <2>1, <2>2, UpdateKeeps DEF UpdatePhase, Moves
<1>4. ASSUME NEW c \in Callers, NEW p \in Phases, NEW kw \in Asks, AgentUpdate(c, p, kw)
      PROVE  Rest' /\ Follows
  <2>1. kw \in Keywords
    BY PhaseBoardAssumption
  <2>2. UpdatePhase(c, "update", p, kw)
    BY <1>4 DEF AgentUpdate
  <2> QED
    BY <2>1, <2>2, UpdateKeeps DEF UpdatePhase, Moves
<1>5. ASSUME NEW c \in Callers, CreateRow(c)
      PROVE  Rest' /\ Follows
  <2>1. call[c].at = "create" /\ call[c].op = "create" /\ call[c].phase \in Phases
    <3>1. call[c].at = "create"
      BY <1>5 DEF CreateRow, At
    <3> QED
      BY <3>1, CallParts DEF Inv, Base, UpdatesKnown
  <2>2. row[call[c].phase] = NoPhase
    BY <2>1 DEF Inv, Base, CreatesAlone
  <2>3. cache' = cache /\ \A p \in Phases : row[p] # NoPhase => row'[p] = row[p]
    BY <1>5, <2>1, <2>2 DEF CreateRow, Inv, Base, TypeOK
  <2> QED
    BY <1>5, <2>3, CreateRowKeeps DEF Moves
<1>6. ASSUME NEW c \in Callers, LoadRow(c)
      PROVE  Rest' /\ Follows
  BY <1>6, LoadKeeps DEF LoadRow, Moves
<1>7. ASSUME NEW c \in Callers, CommitRow(c)
      PROVE  Rest' /\ Follows
  BY <1>7, CommitKeeps DEF CommitRow, Moves
<1>8. ASSUME NEW c \in Callers, UpdateCache(c)
      PROVE  Rest' /\ Follows
  BY <1>8, CacheKeeps DEF UpdateCache, Moves
<1>9. ASSUME Restart
      PROVE  Rest' /\ Follows
  BY <1>9, RestartKeeps DEF Restart, Moves
<1>10. ASSUME UNCHANGED vars
       PROVE  Rest' /\ Follows
  <2>1. UNCHANGED <<cache, row, call, raced>>
    BY <1>10 DEF vars
  <2>2. (CreatesAlone /\ UpdatesKnown /\ RowsKnown /\ WritesOwn)'
    BY <2>1 DEF Inv, Base, CreatesAlone, UpdatesKnown, RowsKnown, WritesOwn, Under
  <2>3. \A p \in Phases, column \in Columns : Orderly(p, column) => Orderly(p, column)'
    BY <2>1 DEF Orderly, Progress, Sets, Under
  <2> QED
    BY <2>1, <2>2, <2>3 DEF Rest, Inv, Moves
<1>11. Rest' /\ Follows
  BY <1>2, <1>3, <1>4, <1>5, <1>6, <1>7, <1>8, <1>9, <1>10 DEF Next
<1> QED
  BY <1>1, <1>11 DEF Rest, Inv, Base

\* At the start there is no phase, no row and no call.
LEMMA InvInit == Init => Inv
<1> SUFFICES ASSUME Init
             PROVE  Inv
  OBVIOUS
<1>1. 0 \in 0..MaxUpdates /\ 0 \in 0..MaxRestarts
  BY PhaseBoardAssumption
<1>2. TypeOK
  BY <1>1 DEF Init, TypeOK
<1> QED
  BY <1>2 DEF Init, Inv, Base, CreatesAlone, UpdatesKnown, RowsKnown, WritesOwn, Orderly, Sets,
              Under, NoCall

THEOREM InvHolds == Spec => []Inv
BY InvInit, InvStep, PTL DEF Spec

\* The types of the board's state hold for any number of phases, callers, updates
\* and restarts.
THEOREM TypeCorrect == Spec => []TypeOK
<1>1. Inv => TypeOK
  BY DEF Inv, Base
<1> QED
  BY <1>1, InvHolds, PTL

\* When its calls are through, a phase is the same in the cache and in the
\* database, in each column whose updates never overlapped.
THEOREM CacheAgrees == Spec => []CacheMatchesRow
<1>1. ASSUME Inv
      PROVE  CacheMatchesRow
  <2> USE DEF Inv, Base
  <2>1. ASSUME NEW p \in Phases, Busy(p) = {}
        PROVE  /\ Cached(p) <=> row[p] # NoPhase
               /\ Cached(p) => \A column \in Columns :
                    <<p, column>> \notin raced => cache[p][column] = row[p][column]
    <3>1. \A c \in Callers : ~Under(c, p) /\ \A column \in Columns : ~Sets(c, p, column)
      BY <2>1 DEF Busy, At, Under, Sets
    <3> QED
      BY <1>1, <3>1 DEF RowsKnown, Orderly, Cached
  <2> QED
    BY <2>1 DEF CacheMatchesRow
<1> QED
  BY <1>1, InvHolds, PTL

\* A phase whose updates of the status never overlapped moves by the table only, in
\* the cache, in the database and from the one to the other by a restart.
THEOREM TableIsFollowed == Spec => FollowsTable
<1> DEFINE Step == \A p \in Phases : <<p, "status">> \notin raced' =>
             \A board \in {<<cache[p], cache'[p]>>, <<row[p], row'[p]>>} :
               board[1] # NoPhase =>
                 /\ board[2] # NoPhase
                 /\ board[2].status # board[1].status =>
                      board[2].status \in VALID_PHASE_TRANSITIONS[board[1].status]
<1>1. ASSUME Inv, [Next]_vars
      PROVE  Step
  <2>1. \A p \in Phases : <<p, "status">> \notin raced' =>
          Moves(p, cache, cache') /\ Moves(p, row, row')
    BY <1>1, InvStep
  <2>2. ASSUME NEW p \in Phases, <<p, "status">> \notin raced',
               NEW board \in {<<cache[p], cache'[p]>>, <<row[p], row'[p]>>}, board[1] # NoPhase
        PROVE  /\ board[2] # NoPhase
               /\ board[2].status # board[1].status =>
                    board[2].status \in VALID_PHASE_TRANSITIONS[board[1].status]
    <3>1. CASE board = <<cache[p], cache'[p]>>
      BY <2>1, <2>2, <3>1 DEF Moves
    <3>2. CASE board = <<row[p], row'[p]>>
      BY <2>1, <2>2, <3>2 DEF Moves
    <3> QED
      BY <2>2, <3>1, <3>2
  <2> QED
    BY <2>2
<1>2. Inv /\ [Next]_vars => [Step]_vars
  BY <1>1
<1> QED
  BY <1>2, InvHolds, PTL DEF Spec, FollowsTable

-----------------------------------------------------------------------------
(* The last completion                                                     *)

LEMMA LeastNumber ==
  ASSUME NEW S \in SUBSET Nat, S # {}
  PROVE  \E n \in S : \A m \in S : n <= m
<1> DEFINE Less == {pair \in Nat \X Nat : pair[1] < pair[2]}
<1>1. OpToRel(<, Nat) = Less
  BY DEF OpToRel
<1>2. IsWellFoundedOn(Less, Nat)
  BY <1>1, NatLessThanWellFounded
<1> HIDE DEF Less
<1>3. PICK n \in S : \A m \in S : <<m, n>> \notin Less
  BY <1>2, WFMin
<1>4. \A m \in S : ~(m < n)
  BY <1>3 DEF Less
<1> QED
  BY <1>4

Open(board, p) == board[p] # NoPhase /\ board[p].status # "completed"

\* There is a current phase as long as there is one that is not completed.
LEMMA CurrentIs ==
  ASSUME NEW board
  PROVE  Current(board) = {} <=> \A p \in Phases : ~Open(board, p)
<1> DEFINE open == {p \in Phases : Open(board, p)}
<1>1. Current(board) = {p \in open : \A q \in open : Ordering[p] <= Ordering[q]}
  BY DEF Current, Open
<1>2. ASSUME open # {}
      PROVE  Current(board) # {}
  <2> DEFINE places == {Ordering[p] : p \in open}
  <2>1. places \in SUBSET Nat /\ places # {}
    BY <1>2, PhaseBoardAssumption
  <2> HIDE DEF places
  <2>2. PICK n \in places : \A m \in places : n <= m
    BY <2>1, LeastNumber
  <2>3. PICK p \in open : n = Ordering[p]
    BY DEF places
  <2>4. \A q \in open : Ordering[p] <= Ordering[q]
    BY <2>2, <2>3 DEF places
  <2> QED
    BY <1>1, <2>4
<1> QED
  BY <1>1, <1>2

\* While no completion was silent, each is on its way from the user's approval.
ByUser ==
  ~silent => \A c \in Callers :
    call[c].at # "idle" /\ call[c].kw.status = "completed" => call[c].op = "approve_review"

Unraced == \A p \in Phases : <<p, "status">> \notin raced

\* The calls of a step that begins none are those of before.
LEMMA StillByUser ==
  ASSUME ByUser, silent => silent',
         \A c \in Callers : call'[c].at # "idle" =>
           call[c].at # "idle" /\ call'[c].op = call[c].op /\ call'[c].kw = call[c].kw
  PROVE  ByUser'
BY DEF ByUser

LEMMA ByUserStep ==
  ASSUME Inv, ByUser, [Next]_vars
  PROVE  ByUser'
<1> USE DEF Inv, Base
<1>1. ASSUME NEW c \in Callers, NEW p \in Phases, CreatePhase(c, p)
      PROVE  ByUser'
  <2>1. /\ call'[c].kw = Nothing /\ \A d \in Callers \ {c} : call'[d] = call[d]
        /\ silent' = silent
    BY <1>1 DEF CreatePhase, TypeOK
  <2>2. Nothing.status # "completed"
    BY PhaseBoardAssumption DEF Nothing, Status
  <2> QED
    BY <2>1, <2>2 DEF ByUser
<1>2. ASSUME NEW c \in Callers, NEW op, NEW p \in Phases, NEW kw, UpdatePhase(c, op, p, kw),
             silent => silent', ~silent' /\ kw.status = "completed" => op = "approve_review"
      PROVE  ByUser'
  <2>1. /\ call'[c].kw = kw /\ call'[c].op = op
        /\ \A d \in Callers \ {c} : call'[d] = call[d]
    BY <1>2 DEF UpdatePhase, TypeOK
  <2> QED
    BY <1>2, <2>1 DEF ByUser
<1>3. ASSUME NEW c \in Callers, NEW p \in Phases, NEW op \in Decisions, Decide(c, op, p)
      PROVE  ByUser'
  <2>1. To[op] = "completed" => op = "approve_review"
    BY DEF To, Decisions
  <2> QED
    BY <1>2, <1>3, <2>1 DEF Decide
<1>4. ASSUME NEW c \in Callers, NEW p \in Phases, NEW kw \in Asks, AgentUpdate(c, p, kw)
      PROVE  ByUser'
  BY <1>2, <1>4 DEF AgentUpdate
<1>5. ASSUME NEW c \in Callers, CreateRow(c) \/ LoadRow(c) \/ CommitRow(c)
      PROVE  ByUser'
  <2>1. call[c].at # "idle" /\ silent' = silent
    BY <1>5 DEF CreateRow, LoadRow, CommitRow, At
  <2>2. PICK stage, write : Go(c, stage, write)
    BY <1>5 DEF CreateRow, LoadRow, CommitRow
  <2>3. /\ call'[c].op = call[c].op /\ call'[c].kw = call[c].kw
        /\ \A d \in Callers \ {c} : call'[d] = call[d]
    BY <2>1, <2>2 DEF Go, TypeOK, NoCall
  <2> QED
    BY <2>1, <2>3, StillByUser
<1>6. ASSUME NEW c \in Callers, UpdateCache(c)
      PROVE  ByUser'
  <2>1. /\ call'[c].at = "idle" /\ silent' = silent
        /\ \A d \in Callers \ {c} : call'[d] = call[d]
    BY <1>6 DEF UpdateCache, NoCall, TypeOK
  <2> QED
    BY <2>1, StillByUser
<1>7. ASSUME Restart
      PROVE  ByUser'
  BY <1>7, StillByUser DEF Restart, NoCall
<1>8. ASSUME UNCHANGED vars
      PROVE  ByUser'
  BY <1>8, StillByUser DEF vars
<1> QED
  BY <1>1, <1>3, <1>4, <1>5, <1>6, <1>7, <1>8 DEF Next

\* The phase that leaves no other open was completed by the decision that returns.
LEMMA CompletionTold ==
  ASSUME Inv, ByUser, LastCompletionIsTold, NEW c \in Callers, UpdateCache(c)
  PROVE  LastCompletionIsTold'
<1> USE DEF Inv, Base
<1> SUFFICES ASSUME ~silent, Unraced, Current(cache') = {},
                    <<"project_complete", None>> \notin told'
             PROVE  FALSE
  BY DEF UpdateCache, LastCompletionIsTold, Unraced
<1>1. PICK p \in Phases : p = call[c].phase
  BY CallParts DEF UpdateCache, At
<1>2. call[c].at = "return" /\ call[c].kw \in Keywords
  BY CallParts DEF UpdateCache, At
<1>3. /\ \A q \in Phases \ {p} : cache'[q] = cache[q]
      /\ cache'[p] = IF call[c].op = "create" THEN NewPhase ELSE Apply(cache[p], call[c].kw)
  BY <1>1 DEF UpdateCache, TypeOK
<1>4. \A q \in Phases : ~Open(cache', q)
  BY CurrentIs
<1>5. call[c].op # "create"
  BY <1>3, <1>4, NewPhaseIsPhase DEF Open, NewPhase
<1>6. cache[p] # NoPhase /\ cache[p] \in Phase
  BY <1>1, <1>2, <1>5 DEF UpdatesKnown, TypeOK
<1>7. \/ Messages(call[c].op, p, cache') = {} /\ told' = told
      \/ \E m \in Messages(call[c].op, p, cache') : told' = told \cup {m}
  BY <1>1 DEF UpdateCache, BoardToTell
<1>8. call[c].op # "approve_review"
  BY <1>7 DEF Messages
<1>9. call[c].kw.status # "completed"
  BY <1>2, <1>8 DEF ByUser
<1>10. cache'[p].status = Assign(cache[p].status, call[c].kw.status)
  BY <1>3, <1>5 DEF Apply
<1>11. Apply(cache[p], call[c].kw) \in Phase
  BY <1>2, <1>6, WriteTypes
<1>12. cache'[p].status = "completed"
  BY <1>3, <1>4, <1>5, <1>11, PhaseBoardAssumption DEF Open
<1>13. cache[p].status = "completed"
  BY <1>9, <1>10, <1>12 DEF Assign
<1>14. Current(cache) = {}
  BY <1>3, <1>4, <1>13, CurrentIs DEF Open
<1>15. <<"project_complete", None>> \in told
  BY <1>6, <1>14 DEF LastCompletionIsTold, Unraced, Cached
<1> QED
  BY <1>7, <1>15

\* A restart shows no completion that was not told: its decision would be cut off.
LEMMA RestartTold ==
  ASSUME Inv, ByUser, LastCompletionIsTold, Restart
  PROVE  LastCompletionIsTold'
<1> USE DEF Inv, Base
<1> SUFFICES ASSUME ~silent', Unraced, NEW r \in Phases, row[r] # NoPhase, Current(row) = {}
             PROVE  <<"project_complete", None>> \in told
  BY DEF Restart, LastCompletionIsTold, Unraced, Cached
<1>1. ~silent /\ \A c \in Callers : call[c].at # "idle" => call[c].op # "approve_review"
  BY DEF Restart, At
<1>2. \A p \in Phases : ~Open(row, p)
  BY CurrentIs
<1>3. ASSUME NEW p \in Phases, row[p] # NoPhase
      PROVE  cache[p] # NoPhase
  <2> SUFFICES ASSUME cache[p] = NoPhase
               PROVE  FALSE
    OBVIOUS
  <2>1. PICK c \in Callers : Under(c, p)
    BY <1>3 DEF RowsKnown
  <2>2. call[c].at # "idle" /\ call[c].phase = p /\ call[c].op = "create"
    BY <2>1 DEF UpdatesKnown, Under
  <2>3. row[p] = NewPhase
    BY <1>3, <2>2 DEF CreatesAlone
  <2> QED
    BY <1>2, <1>3, <2>3 DEF Open, NewPhase
<1>4. ASSUME NEW p \in Phases, cache[p] # NoPhase
      PROVE  cache[p].status = "completed"
  <2>1. row[p].status = "completed"
    BY <1>2, <1>4 DEF RowsKnown, Open
  <2>2. Orderly(p, "status")
    BY DEF Unraced, Columns
  <2>3. CASE \A c \in Callers : ~Sets(c, p, "status")
    BY <1>4, <2>1, <2>2, <2>3 DEF Orderly
  <2>4. ASSUME NEW c \in Callers, Sets(c, p, "status")
        PROVE  cache[p].status = row[p].status
    <3>1. Progress(c, p, "status") /\ call[c].at # "idle" /\ call[c].phase = p
      BY <2>2, <2>4 DEF Orderly, Sets, Under
    <3>2. call[c].at # "create"
      BY <1>4, <3>1 DEF UpdatesKnown, CreatesAlone
    <3>3. call[c].at \in {"load", "commit", "return"}
      BY <3>1, <3>2, CallParts
    <3>4. call[c].kw.status # "completed"
      BY <1>1, <3>1 DEF ByUser
    <3> QED
      BY <2>1, <3>1, <3>3, <3>4 DEF Progress
  <2> QED
    BY <2>1, <2>3, <2>4
<1>5. Current(cache) = {}
  BY <1>4, CurrentIs DEF Open
<1>6. Cached(r)
  BY <1>3 DEF Cached
<1> QED
  BY <1>1, <1>5, <1>6 DEF LastCompletionIsTold, Unraced

\* When the user has completed the last phase, it is told, whatever was under way
\* together: unless an agent completed a phase itself, a restart cut a completion
\* off, or updates of a status overlapped.
THEOREM CompletionIsTold == Spec => []LastCompletionIsTold
<1> DEFINE Told == Inv /\ ByUser /\ LastCompletionIsTold
<1>1. ASSUME Init
      PROVE  Told
  <2>1. Inv
    BY <1>1, InvInit
  <2> QED
    BY <1>1, <2>1 DEF Init, ByUser, NoCall, LastCompletionIsTold, Cached
<1>2. ASSUME Told, [Next]_vars
      PROVE  Told'
  <2>1. Inv' /\ ByUser'
    BY <1>2, InvStep, ByUserStep
  <2>2. CASE \E c \in Callers : UpdateCache(c)
    BY <1>2, <2>1, <2>2, CompletionTold
  <2>3. CASE Restart
    BY <1>2, <2>1, <2>3, RestartTold
  <2>4. CASE UNCHANGED <<cache, told>> /\ (silent => silent') /\ raced \subseteq raced'
    BY <1>2, <2>1, <2>4 DEF LastCompletionIsTold, Cached, Current
  <2>5. \/ \E c \in Callers : UpdateCache(c)
        \/ Restart
        \/ UNCHANGED <<cache, told>> /\ (silent => silent') /\ raced \subseteq raced'
    BY <1>2
    DEF Next, CreatePhase, Decide, AgentUpdate, UpdatePhase, CreateRow, LoadRow, CommitRow, vars
  <2> QED
    BY <2>1, <2>2, <2>3, <2>4, <2>5
<1>3. Told => LastCompletionIsTold
  OBVIOUS
<1> QED
  BY <1>1, <1>2, <1>3, PTL DEF Spec

=============================================================================
