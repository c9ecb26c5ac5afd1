--------------------------- MODULE Conversations ---------------------------
(***************************************************************************)
(* core/conversation_manager.py over db/repositories/conversation_repo.py: *)
(* direct conversations of agents with the user. They are started by either*)
(* side, recorded message by message, and closed by either side; the user's*)
(* close asks the agent for a summary, which it gives with an              *)
(* end_conversation of its own.                                            *)
(*                                                                         *)
(* call[c] is the method that caller c is in, and what it awaits: routes   *)
(* call for any agent, an agent's loop for itself and one call at a time.  *)
(* Delivering a message to an agent writes a file and awaits nothing. The  *)
(* database does not fail here.                                            *)
(***************************************************************************)
EXTENDS Naturals, FiniteSets

CONSTANTS
  Agents,      \* agent ids
  Routes,      \* requests to the web routes that may run at once
  Ids,         \* conversation ids
  Messages,    \* messages said in conversations
  MaxRestarts, \* bound on the restarts of the process
  None         \* no conversation

ASSUME ConversationsAssumption ==
  /\ Agents \cap Routes = {}
  /\ None \notin Ids \cup Agents \cup Messages
  /\ MaxRestarts \in Nat

VARIABLES
  partner, \* partner[v]: the agent of conversation v, None while v is unused
  row,     \* row[v]: the state in the database
  stored,  \* stored[v]: the messages in the database
  cache,   \* cache[v]: the state in _conversations, "none" if it has no entry
  log,     \* log[v]: the messages of the entry
  call,    \* call[c]: the method c is in
  asked,   \* asked[a]: conversations a is to summarize, by CONVERSATION_END
  restarts, \* so far, for the bound
  said,    \* history: the messages recorded so far, none twice
  raced    \* history: agents with a start that overlapped a start or a close

database == <<partner, row, stored>>
vars == <<database, cache, log, call, asked, restarts, said, raced>>

Callers == Agents \cup Routes
State == {"none", "active", "closed"}
Stages == {"find", "insert", "return", "commit", "drop", "store"}
NoCall == [at |-> "idle", agent |-> None, id |-> None, message |-> None]

TypeOK ==
  /\ partner \in [Ids -> Agents \cup {None}]
  /\ row \in [Ids -> State] /\ cache \in [Ids -> State]
  /\ stored \in [Ids -> SUBSET Messages] /\ log \in [Ids -> SUBSET Messages]
  /\ call \in [Callers -> [at: Stages, agent: Agents, id: Ids \cup {None},
                           message: Messages \cup {None}] \cup {NoCall}]
  /\ asked \in [Agents -> SUBSET Ids]
  /\ restarts \in 0..MaxRestarts
  /\ said \subseteq Messages /\ raced \subseteq Agents

Init ==
  /\ partner = [v \in Ids |-> None]
  /\ row = [v \in Ids |-> "none"] /\ cache = [v \in Ids |-> "none"]
  /\ stored = [v \in Ids |-> {}] /\ log = [v \in Ids |-> {}]
  /\ call = [c \in Callers |-> NoCall]
  /\ asked = [a \in Agents |-> {}]
  /\ restarts = 0
  /\ said = {} /\ raced = {}

Idle(c) == call[c] = NoCall
At(c, stage) == call[c].at = stage

Await(c, stage, a, v, m) ==
  call' = [call EXCEPT ![c] = [at |-> stage, agent |-> a, id |-> v, message |-> m]]
Return(c) == call' = [call EXCEPT ![c] = NoCall]

\* An agent calls for itself.
MayCall(c, a) == Idle(c) /\ c \in {a} \cup Routes

Starting(a) == {c \in Callers : call[c].at \in {"find", "insert", "return"} /\ call[c].agent = a}
Closing(a)  == {c \in Callers : call[c].at \in {"commit", "drop"} /\ call[c].agent = a}

\* get_by_agent: the active conversations it may find.
Active(a) == {v \in Ids : cache[v] = "active" /\ partner[v] = a}

-----------------------------------------------------------------------------
(* start: unless the cache has an active conversation, the repository looks*)
(* for one, makes one if there is none, and either gets a new entry.       *)

StartCall(c, a) ==
  /\ MayCall(c, a) /\ Active(a) = {}
  /\ Await(c, "find", a, None, None)
  /\ raced' = IF Starting(a) \cup Closing(a) # {} THEN raced \cup {a} ELSE raced
  /\ UNCHANGED <<database, cache, log, asked, restarts, said>>

Found(a) == {v \in Ids : row[v] = "active" /\ partner[v] = a}

\* scalar_one_or_none: with two of them it raises.
FindRow(c) ==
  /\ At(c, "find")
  /\ LET a == call[c].agent IN
       \/ Cardinality(Found(a)) > 1 /\ Return(c)
       \/ Found(a) = {} /\ Await(c, "insert", a, None, None)
       \/ \E v \in Ids : Found(a) = {v} /\ Await(c, "return", a, v, None)
  /\ UNCHANGED <<database, cache, log, asked, restarts, said, raced>>

InsertRow(c) ==
  /\ At(c, "insert")
  /\ \E v \in Ids :
       /\ row[v] = "none"
       /\ row' = [row EXCEPT ![v] = "active"]
       /\ partner' = [partner EXCEPT ![v] = call[c].agent]
       /\ Await(c, "return", call[c].agent, v, None)
  /\ UNCHANGED <<stored, cache, log, asked, restarts, said, raced>>

Enter(c) ==
  /\ At(c, "return")
  /\ cache' = [cache EXCEPT ![call[c].id] = "active"]
  /\ log' = [log EXCEPT ![call[c].id] = {}]
  /\ Return(c)
  /\ UNCHANGED <<database, asked, restarts, said, raced>>

-----------------------------------------------------------------------------
(* close: the entry is marked at once and dropped after the row is closed. *)

Mark(c, v) ==
  /\ cache' = [cache EXCEPT ![v] = "closed"]
  /\ Await(c, "commit", partner[v], v, None)
  /\ raced' = IF Starting(partner[v]) # {} THEN raced \cup {partner[v]} ELSE raced

\* close_conversation: the agent is asked for its summary first.
CloseByUser(c, v) ==
  /\ c \in Routes /\ Idle(c) /\ cache[v] = "active"
  /\ asked' = [asked EXCEPT ![partner[v]] = @ \cup {v}]
  /\ Mark(c, v)
  /\ UNCHANGED <<database, log, restarts, said>>

\* end_conversation, as the agent likes or because it was asked to: it closes
\* what the agent has open now, or comes to nothing.
CloseByAgent(a) ==
  /\ Idle(a)
  /\ \/ asked' = asked
     \/ \E v \in asked[a] : asked' = [asked EXCEPT ![a] = @ \ {v}]
  /\ \/ \E v \in Active(a) : Mark(a, v)
     \/ Active(a) = {} /\ asked' # asked /\ UNCHANGED <<cache, call, raced>>
  /\ UNCHANGED <<database, log, restarts, said>>

\* Mutant: the row is left as it is.
CloseRowUnwritten(v) == row' = row

\* Mutant: the row gets the name of the event instead.
CloseRowMisnamed(v) == row' = [row EXCEPT ![v] = "conversation_ended"]

CloseRow(v) == row' = [row EXCEPT ![v] = "closed"]

CommitClose(c) ==
  /\ At(c, "commit")
  /\ CloseRow(call[c].id)
  /\ Await(c, "drop", call[c].agent, call[c].id, None)
  /\ UNCHANGED <<partner, stored, cache, log, asked, restarts, said, raced>>

\* Mutant: the entry stays, marked.
DropEntryKept(v) == UNCHANGED <<cache, log>>

\* `del`, or a KeyError when another close was faster.
DropEntry(v) ==
  /\ cache' = [cache EXCEPT ![v] = "none"]
  /\ log' = [log EXCEPT ![v] = {}]

Drop(c) ==
  /\ At(c, "drop")
  /\ DropEntry(call[c].id)
  /\ Return(c)
  /\ UNCHANGED <<database, asked, restarts, said, raced>>

-----------------------------------------------------------------------------
(* record_message, from the chat route or from the broker when an agent    *)
(* speaks to the user.                                                     *)

Record(c, v, m) ==
  /\ MayCall(c, partner[v]) /\ cache[v] = "active" /\ m \notin said
  /\ log' = [log EXCEPT ![v] = @ \cup {m}]
  /\ said' = said \cup {m}
  /\ Await(c, "store", partner[v], v, m)
  /\ UNCHANGED <<database, cache, asked, restarts, raced>>

Store(c) ==
  /\ At(c, "store")
  /\ stored' = [stored EXCEPT ![call[c].id] = @ \cup {call[c].message}]
  /\ Return(c)
  /\ UNCHANGED <<partner, row, cache, log, asked, restarts, said, raced>>

-----------------------------------------------------------------------------
(* The process stops and starts again: load reads the active rows with     *)
(* their messages. A request for a summary survives as a file only.        *)

Restart ==
  /\ restarts < MaxRestarts /\ restarts' = restarts + 1
  /\ cache' = [v \in Ids |-> IF row[v] = "active" THEN "active" ELSE "none"]
  /\ log' = [v \in Ids |-> IF row[v] = "active" THEN stored[v] ELSE {}]
  /\ call' = [c \in Callers |-> NoCall]
  /\ asked' \in [Agents -> SUBSET Ids]
  /\ \A a \in Agents : asked'[a] \subseteq asked[a]
  /\ UNCHANGED <<database, said, raced>>

Proceed(c) == FindRow(c) \/ InsertRow(c) \/ Enter(c) \/ CommitClose(c) \/ Drop(c) \/ Store(c)

Next ==
  \/ \E c \in Callers, a \in Agents : StartCall(c, a)
  \/ \E c \in Callers, v \in Ids : CloseByUser(c, v)
  \/ \E a \in Agents : CloseByAgent(a)
  \/ \E c \in Callers, v \in Ids, m \in Messages : Record(c, v, m)
  \/ \E c \in Callers : Proceed(c)
  \/ Restart

Spec == Init /\ [][Next]_vars

\* The database answers: a call that waits for it goes on. Nobody has to start,
\* to speak or to close.
Fairness == \A c \in Callers : WF_vars(Proceed(c))

FairSpec == Spec /\ Fairness

-----------------------------------------------------------------------------
(* Properties *)

Quiet(a) == \A c \in Callers : call[c].agent # a

\* Whatever overlapped, an agent's active rows are active in the cache once its
\* calls are over: no conversation that the user could see after a restart is
\* hidden before it, and every message of it is stored.
StoredIsOpen ==
  \A v \in Ids :
    row[v] = "active" /\ Quiet(partner[v]) => cache[v] = "active" /\ log[v] \subseteq stored[v]

\* "DB-backed with in-memory cache for sync reads": once an agent's calls are over, a
\* conversation that is shown as open has an open row. False of the code: a start that
\* found the row before a close committed enters it again.
OpenHasRow == \A v \in Ids : cache[v] = "active" /\ Quiet(partner[v]) => row[v] = "active"

\* If no start overlapped a start or a close of the same agent, the agent has one
\* conversation at the most, and cache and database agree about it, to the
\* messages, although closes, messages and restarts overlap.
OpenIsStored ==
  \A a \in Agents \ raced :
    /\ Cardinality(Active(a)) <= 1 /\ Cardinality(Found(a)) <= 1
    /\ Quiet(a) => \A v \in Active(a) : row[v] = "active" /\ log[v] = stored[v]

\* An entry that close marked does not stay: it is dropped, unless a start that
\* still found the row open, or a restart, makes it active again.
ClosedLeaves == \A v \in Ids : cache[v] = "closed" ~> cache[v] # "closed"

=============================================================================
