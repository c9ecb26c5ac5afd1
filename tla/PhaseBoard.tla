----------------------------- MODULE PhaseBoard -----------------------------
(***************************************************************************)
(* core/phase_board.py over db/repositories/phase_repo.py, with the user's *)
(* approval gates (web/routes/phases.py) and the agents' actions           *)
(* (core/actions/create_phase.py, update_phase.py).                        *)
(*                                                                         *)
(* update_phase checks the transition against the cache, awaits the        *)
(* repository, which loads the row and commits the columns that differ,    *)
(* and only then changes the cache; the route goes on in the same step to  *)
(* write its message. call[c] is the request of c and the stage it reached.*)
(***************************************************************************)
EXTENDS Naturals

CONSTANTS
  Phases,     \* phase ids
  Ordering,   \* Ordering[p]: the sequence number p is created with
  Routes,     \* requests of the user that may run at once
  Agents,     \* agents with phase actions
  Docs,       \* ids of planning and review documents
  Asks,       \* the keywords that agents pass to update_phase
  MaxUpdates, \* bound on the updates
  MaxRestarts, \* bound on the restarts of the process
  None,       \* no document
  Absent,     \* a keyword that a call does not pass
  NoPhase     \* no such phase in the cache, no such row

Status == {"planning", "awaiting_approval", "in_progress", "review", "completed"}

Phase == [status: Status, doc: Docs \cup {None}]
Keywords == [status: Status \cup {Absent}, doc: Docs \cup {Absent}]

ASSUME PhaseBoardAssumption ==
  /\ Ordering \in [Phases -> Nat]
  /\ Routes \cap Agents = {}
  /\ Asks \subseteq Keywords
  /\ Absent \notin Status \cup Docs \cup {None}
  /\ NoPhase \notin Phase
  /\ MaxUpdates \in Nat /\ MaxRestarts \in Nat

VALID_PHASE_TRANSITIONS ==
  [ planning          |-> {"awaiting_approval"},
    awaiting_approval |-> {"in_progress", "planning"},
    in_progress       |-> {"review"},
    review            |-> {"completed", "in_progress"},
    completed         |-> {} ]

Callers == Routes \cup Agents
Columns == {"status", "doc"}
Decisions == {"approve", "reject", "approve_review", "reject_review"}
Ops == Decisions \cup {"create", "update"}

\* What a decision of the user asks of a phase, and of which ones.
From == [ approve |-> "awaiting_approval", reject |-> "awaiting_approval",
          approve_review |-> "review", reject_review |-> "review" ]
To   == [ approve |-> "in_progress", reject |-> "planning",
          approve_review |-> "completed", reject_review |-> "in_progress" ]

Nothing == [status |-> Absent, doc |-> Absent]
NoCall == [at |-> "idle"]

VARIABLES
  cache,   \* PhaseBoard._phases
  row,     \* the rows of the phases table
  call,    \* call[c]: op, stage, phase, keywords, and the columns to be written
  told,    \* <<command, phase>>: the messages to the planner and to the user's agent
  updates, restarts, \* so far, for the bounds
  raced,   \* history: <<p, column>> that two updates were under way for at once
  silent   \* history: a phase was completed with nobody to tell it

vars == <<cache, row, call, told, updates, restarts, raced, silent>>

TypeOK ==
  /\ cache \in [Phases -> Phase \cup {NoPhase}]
  /\ row \in [Phases -> Phase \cup {NoPhase}]
  /\ call \in [Callers -> {NoCall} \cup
       [at: {"create", "load", "commit", "return"}, op: Ops, phase: Phases,
        kw: Keywords, write: Keywords]]
  /\ told \subseteq (Decisions \cup {"next_phase"}) \X Phases \cup {<<"project_complete", None>>}
  /\ updates \in 0..MaxUpdates /\ restarts \in 0..MaxRestarts
  /\ raced \subseteq Phases \X Columns
  /\ silent \in BOOLEAN

Init ==
  /\ cache = [p \in Phases |-> NoPhase] /\ row = [p \in Phases |-> NoPhase]
  /\ call = [c \in Callers |-> NoCall]
  /\ told = {}
  /\ updates = 0 /\ restarts = 0
  /\ raced = {} /\ silent = FALSE

At(c, stage) == call[c].at = stage
Go(c, stage, write) == call' = [call EXCEPT ![c].at = stage, ![c].write = write]
Cached(p) == cache[p] # NoPhase

\* The calls under way on p, and those of them that set a column.
Busy(p) == {c \in Callers : ~At(c, "idle") /\ call[c].phase = p}
Setting(p, column) == {c \in Busy(p) : call[c].kw[column] # Absent}

-----------------------------------------------------------------------------
(* create_phase: the row, then the cache.                                  *)

\* Mutant: the status a task begins with.
NewPhaseDraft == [status |-> "draft", doc |-> None]

NewPhase == [status |-> "planning", doc |-> None]

CreatePhase(c, p) ==
  /\ c \in Agents /\ At(c, "idle")
  /\ row[p] = NoPhase /\ Busy(p) = {}
  /\ call' = [call EXCEPT ![c] = [at |-> "create", op |-> "create", phase |-> p,
                                  kw |-> Nothing, write |-> Nothing]]
  /\ UNCHANGED <<cache, row, told, updates, restarts, raced, silent>>

CreateRow(c) ==
  /\ At(c, "create")
  /\ row' = [row EXCEPT ![call[c].phase] = NewPhase]
  /\ Go(c, "return", Nothing)
  /\ UNCHANGED <<cache, told, updates, restarts, raced, silent>>

-----------------------------------------------------------------------------
(* update_phase, up to its await.                                          *)

\* Mutant: any status that exists will do.
AllowedAll(from, to) == to = Absent \/ to \in Status

\* The check is made only if a status is given.
Allowed(from, to) == to = Absent \/ to \in VALID_PHASE_TRANSITIONS[from]

UpdatePhase(c, op, p, kw) ==
  /\ At(c, "idle") /\ updates < MaxUpdates
  /\ Cached(p) /\ Allowed(cache[p].status, kw.status)
  /\ call' = [call EXCEPT ![c] = [at |-> "load", op |-> op, phase |-> p,
                                  kw |-> kw, write |-> Nothing]]
  /\ updates' = updates + 1
  /\ raced' = raced \cup {<<p, column>> : column \in
                            {k \in Columns : kw[k] # Absent /\ Setting(p, k) # {}}}
  /\ UNCHANGED <<cache, row, told, restarts>>

\* The four routes of the approval gates.
Decide(c, op, p) ==
  /\ c \in Routes /\ Cached(p) /\ cache[p].status = From[op]
  /\ UpdatePhase(c, op, p, [status |-> To[op], doc |-> Absent])
  /\ UNCHANGED silent

\* The action: an agent may ask for any status the table allows.
AgentUpdate(c, p, kw) ==
  /\ c \in Agents /\ kw # Nothing
  /\ UpdatePhase(c, "update", p, kw)
  /\ silent' = (silent \/ kw.status = "completed")

-----------------------------------------------------------------------------
(* _update_by_id, and what follows it.                                     *)

Difference(old, new) == IF new = old THEN Absent ELSE new

\* The columns that the UPDATE sets: those whose value differs from the loaded.
Changed(old, kw) ==
  [status |-> Difference(old.status, kw.status), doc |-> Difference(old.doc, kw.doc)]

Assign(old, new) == IF new = Absent THEN old ELSE new

Apply(old, kw) ==
  [status |-> Assign(old.status, kw.status), doc |-> Assign(old.doc, kw.doc)]

LoadRow(c) ==
  /\ At(c, "load")
  /\ Go(c, "commit", Changed(row[call[c].phase], call[c].kw))
  /\ UNCHANGED <<cache, row, told, updates, restarts, raced, silent>>

CommitRow(c) ==
  /\ At(c, "commit")
  /\ row' = [row EXCEPT ![call[c].phase] = Apply(@, call[c].write)]
  /\ Go(c, "return", Nothing)
  /\ UNCHANGED <<cache, told, updates, restarts, raced, silent>>

\* get_current_phase in a board: the phases not completed that come first.
Current(board) ==
  LET open == {p \in Phases : board[p] # NoPhase /\ board[p].status # "completed"}
  IN {p \in open : \A q \in open : Ordering[p] <= Ordering[q]}

\* Mutant: the next phase is looked up before the update.
BoardToTellStale(before, after) == before

\* The board the messages of a decision are put together from.
BoardToTell(before, after) == after

\* What the route writes when update_phase has returned.
Messages(op, p, board) ==
  CASE op = "approve_review" ->
         IF Current(board) = {} THEN {<<"project_complete", None>>}
                                ELSE {<<"next_phase", q>> : q \in Current(board)}
    [] op \in Decisions \ {"approve_review"} -> {<<op, p>>}
    [] OTHER -> {}

\* The cache, and the message: writing it awaits nothing.
UpdateCache(c) ==
  /\ At(c, "return")
  /\ LET p == call[c].phase IN
       /\ cache' = [cache EXCEPT ![p] =
                      IF call[c].op = "create" THEN NewPhase ELSE Apply(@, call[c].kw)]
       /\ \/ Messages(call[c].op, p, BoardToTell(cache, cache')) = {} /\ told' = told
          \/ \E m \in Messages(call[c].op, p, BoardToTell(cache, cache')) :
               told' = told \cup {m}
  /\ call' = [call EXCEPT ![c] = NoCall]
  /\ UNCHANGED <<row, updates, restarts, raced, silent>>

-----------------------------------------------------------------------------
(* The process stops and starts again. A message is a file; a request that *)
(* had not come to its message is cut off.                                 *)

Restart ==
  /\ restarts < MaxRestarts /\ restarts' = restarts + 1
  /\ cache' = row
  /\ call' = [c \in Callers |-> NoCall]
  /\ silent' = (silent \/ \E c \in Callers : ~At(c, "idle") /\ call[c].op = "approve_review")
  /\ UNCHANGED <<row, told, updates, raced>>

Next ==
  \/ \E c \in Callers, p \in Phases : CreatePhase(c, p)
  \/ \E c \in Callers, p \in Phases, op \in Decisions : Decide(c, op, p)
  \/ \E c \in Callers, p \in Phases, kw \in Asks : AgentUpdate(c, p, kw)
  \/ \E c \in Callers : CreateRow(c) \/ LoadRow(c) \/ CommitRow(c) \/ UpdateCache(c)
  \/ Restart

Spec == Init /\ [][Next]_vars

-----------------------------------------------------------------------------
(* Properties *)

\* Once its calls are through, a phase is the same in the cache and in the
\* database, in each column whose updates never overlapped: an update of one
\* column under way does not disturb an update of the other.
CacheMatchesRow ==
  \A p \in Phases : Busy(p) = {} =>
    /\ Cached(p) <=> row[p] # NoPhase
    /\ Cached(p) => \A column \in Columns :
         <<p, column>> \notin raced => cache[p][column] = row[p][column]

\* "Validate status transition": in the database as in the cache a phase moves
\* by the table only, so that a completed one stays completed, also when a
\* restart reads what the cache had not seen yet. Two updates of the status at
\* once are the exception: both pass the check.
FollowsTable ==
  [][\A p \in Phases : <<p, "status">> \notin raced' =>
       \A board \in {<<cache[p], cache'[p]>>, <<row[p], row'[p]>>} :
         board[1] # NoPhase =>
           /\ board[2] # NoPhase
           /\ board[2].status # board[1].status =>
                board[2].status \in VALID_PHASE_TRANSITIONS[board[1].status]]_vars

\* The same without the exception, which "Validate status transition" does not make.
\* False of the code: the check is made before the await.
TransitionsAreValid ==
  [][\A p \in Phases :
       cache[p] # NoPhase /\ cache'[p].status # cache[p].status =>
         cache'[p].status \in VALID_PHASE_TRANSITIONS[cache[p].status]]_vars

\* When the user has completed the last phase, it is told, however many
\* completions were under way together: unless an agent completed a phase itself,
\* a restart cut a completion off, or updates of a status overlapped.
LastCompletionIsTold ==
  /\ ~silent /\ \A p \in Phases : <<p, "status">> \notin raced
  /\ \E p \in Phases : Cached(p)
  /\ Current(cache) = {}
  => <<"project_complete", None>> \in told

\* "All phases done": who talks to the user is told, though the process was restarted.
\* False of the code: the row is committed before the message is written.
DoneIsTold ==
  (\E p \in Phases : Cached(p)) /\ Current(cache) = {} => <<"project_complete", None>> \in told

=============================================================================
