------------------------------ MODULE Documents ------------------------------
(***************************************************************************)
(* The knowledge base: core/knowledge_base.py (the index in memory) over   *)
(* db/repositories/knowledge_repo.py, used by web/routes/knowledge.py and, *)
(* through core/actions/registry.py, by the actions of agents.             *)
(*                                                                         *)
(* A job is a request of the user, or an agent carrying out the actions of *)
(* one response. `job[j].at` is the stage its operation has reached; each  *)
(* stage ends in an await, where the others run. An operation writes the   *)
(* table, reads the record again and puts that in the index. Comments are  *)
(* in the table only. The content of a document is its version: how often  *)
(* it was updated.                                                         *)
(***************************************************************************)
EXTENDS Naturals, Sequences, FiniteSets

CONSTANTS
  Agents,
  Requests,   \* requests of the user that may be under way at once
  Docs,       \* ids that creations may hand out
  Kept,       \* the documents that exist at first
  Comments,   \* ids for comments
  Replies,    \* the lists of actions that a response may have
  MaxTasks, MaxRequests, MaxReplies, MaxStops \* bounds

None == "none"

\* An update or a resolution names a document; a new one has no id yet.
Action == [kind: {"write", "update", "resolve"}, doc: Docs \cup {None},
           comments: SUBSET Comments]

ASSUME DocumentsAssumption ==
  /\ Agents \cap Requests = {} /\ Kept \subseteq Docs /\ None \notin Docs
  /\ Replies \subseteq Seq(Action)
  /\ {MaxTasks, MaxRequests, MaxReplies, MaxStops} \subseteq Nat

VARIABLES
  rows,      \* table documents: the version of each document there is
  used,      \* the ids handed out
  cache,     \* _docs_cache: the version that each entry shows
  comment,   \* table document_comments
  task,      \* the review tasks dispatched
  current,   \* current[a]: current_task_id
  reply,     \* reply[a]: the actions of its response that are left
  job,       \* the operation under way
  up,        \* whether the project runs
  calls,     \* so far, for the bounds
  overlap,   \* history: documents with two updates under way at once
  crossed    \* history: a request was under way when the index was loaded anew

table == <<rows, used>>
board == <<task, current>>
history == <<overlap, crossed>>
vars == <<table, cache, comment, board, reply, job, up, calls, history>>

NoTask == 0
Jobs == Agents \cup Requests

NoReply == [given |-> FALSE, todo |-> <<>>]

\* comments: those the agent resolves, or the user has still to dispatch.
\* reopened: history, since the agent looked whether any was left open.
\* old: the operation is on the knowledge base of before a restart.
NoJob == [at |-> "none", doc |-> None, version |-> 0, comments |-> {},
          reopened |-> {}, old |-> FALSE]

Stages == {"none", "insert", "append", "commit", "refresh", "enlist", "delete",
           "unlist", "resolve", "settle", "review", "close", "gather", "dispatch"}

TypeOK ==
  /\ used \subseteq Docs
  /\ DOMAIN rows \subseteq used /\ \A d \in DOMAIN rows : rows[d] \in Nat
  /\ DOMAIN cache \subseteq used /\ \A d \in DOMAIN cache : cache[d] \in Nat
  /\ comment \in [Comments -> [status: {"none", "open", "resolved", "deleted"},
                               doc: used \cup {None}, agent: Agents \cup {None}]]
  /\ task \in Seq([agent: Agents, doc: used, comments: SUBSET Comments, done: BOOLEAN])
  /\ \A t \in DOMAIN task : \A c \in task[t].comments :
       comment[c].agent = task[t].agent /\ comment[c].doc = task[t].doc
  /\ current \in [Agents -> 0..Len(task)]
  /\ \A a \in Agents : current[a] # NoTask => task[current[a]].agent = a
  /\ reply \in [Agents -> [given: BOOLEAN, todo: Seq(Action)]]
  /\ job \in [Jobs -> [at: Stages, doc: Docs \cup {None}, version: Nat,
                       comments: SUBSET Comments, reopened: SUBSET Comments, old: BOOLEAN]]
  /\ up \in BOOLEAN
  /\ calls \in [requests: 0..MaxRequests, replies: 0..MaxReplies, stops: 0..MaxStops]
  /\ overlap \subseteq Docs /\ crossed \in BOOLEAN

Init ==
  /\ rows = [d \in Kept |-> 0] /\ used = Kept /\ cache = rows
  /\ comment = [c \in Comments |-> [status |-> "none", doc |-> None, agent |-> None]]
  /\ task = <<>> /\ current = [a \in Agents |-> NoTask]
  /\ reply = [a \in Agents |-> NoReply] /\ job = [j \in Jobs |-> NoJob]
  /\ up = TRUE /\ calls = [requests |-> 0, replies |-> 0, stops |-> 0]
  /\ overlap = {} /\ crossed = FALSE

-----------------------------------------------------------------------------
(* The operations of the knowledge base *)

At(j, stage) == job[j].at = stage
Goes(j, stage) == job' = [job EXCEPT ![j].at = stage]
Ends(j) == job' = [job EXCEPT ![j] = NoJob]

\* A new document; one that is listed twice is found where it was.
With(f, d) == [x \in DOMAIN f \cup {d} |-> IF x \in DOMAIN f THEN f[x] ELSE 0]

Without(f, d) == [x \in DOMAIN f \ {d} |-> f[x]]

\* add_document: the row, then the index.
Insert(j) ==
  /\ At(j, "insert")
  /\ \E d \in Docs \ used :
       /\ rows' = With(rows, d) /\ used' = used \cup {d}
       /\ job' = [job EXCEPT ![j].at = "append", ![j].doc = d]
  /\ UNCHANGED <<cache, comment, board, reply, up, calls, history>>

Enter(j) ==
  /\ At(j, "append")
  /\ cache' = IF job[j].old THEN cache ELSE With(cache, job[j].doc)
  /\ Ends(j)
  /\ UNCHANGED <<table, comment, board, reply, up, calls, history>>

\* update_document: whatever was written since the author read the document.
\* An unknown document is left at that.
Commit(j) ==
  /\ At(j, "commit")
  /\ LET d == job[j].doc
     IN  IF d \in DOMAIN rows
         THEN /\ rows' = [rows EXCEPT ![d] = @ + 1]
              /\ Goes(j, "refresh")
              /\ overlap' = IF \E k \in Jobs \ {j} : job[k].doc = d
                                     /\ job[k].at \in {"refresh", "enlist"}
                            THEN overlap \cup {d} ELSE overlap
         ELSE Ends(j) /\ UNCHANGED <<rows, overlap>>
  /\ UNCHANGED <<used, cache, comment, board, reply, up, calls, crossed>>

\* session.refresh raises when the row is gone.
Refresh(j) ==
  /\ At(j, "refresh")
  /\ LET d == job[j].doc
     IN  IF d \in DOMAIN rows
         THEN job' = [job EXCEPT ![j].at = "enlist", ![j].version = rows[d]]
         ELSE Ends(j)
  /\ UNCHANGED <<table, cache, comment, board, reply, up, calls, history>>

\* The entry is replaced if it is still there.
Enlist(j) ==
  /\ At(j, "enlist")
  /\ cache' = IF job[j].doc \in DOMAIN cache /\ ~job[j].old
              THEN [cache EXCEPT ![job[j].doc] = job[j].version] ELSE cache
  /\ Ends(j)
  /\ UNCHANGED <<table, comment, board, reply, up, calls, history>>

\* delete_document: the comments stay, or keep the row where the database
\* enforces foreign keys (then the request fails). A row that is gone already
\* changes nothing.
DeleteRow(j) ==
  /\ At(j, "delete")
  /\ LET d == job[j].doc
     IN  \/ /\ d \in DOMAIN rows
            /\ rows' = Without(rows, d)
            /\ Goes(j, "unlist")
         \/ /\ \/ d \notin DOMAIN rows
               \/ \E c \in Comments : comment[c].doc = d /\ comment[c].status # "deleted"
            /\ Ends(j) /\ UNCHANGED rows
  /\ UNCHANGED <<used, cache, comment, board, reply, up, calls, history>>

Unlist(j) ==
  /\ At(j, "unlist")
  /\ cache' = IF job[j].old THEN cache ELSE Without(cache, job[j].doc)
  /\ Ends(j)
  /\ UNCHANGED <<table, comment, board, reply, up, calls, history>>

-----------------------------------------------------------------------------
(* web/routes/knowledge.py *)

Arrives ==
  /\ up /\ calls.requests < MaxRequests
  /\ calls' = [calls EXCEPT !.requests = @ + 1]

\* POST and PUT /knowledge, for documents that the user sees in the index.
Write(r, stage, d) ==
  /\ Arrives /\ At(r, "none")
  /\ \/ stage = "insert" /\ d = None /\ used # Docs
     \/ stage = "commit" /\ d \in DOMAIN cache
  /\ job' = [job EXCEPT ![r].at = stage, ![r].doc = d]
  /\ UNCHANGED <<table, cache, comment, board, reply, up, history>>

\* Mutant: the index is told before the database has agreed.
RemoveFromIndexFirst(r, d) ==
  /\ Arrives /\ At(r, "none")
  /\ d \in DOMAIN cache
  /\ job' = [job EXCEPT ![r].at = "delete", ![r].doc = d]
  /\ cache' = Without(cache, d)
  /\ UNCHANGED <<table, comment, board, reply, up, history>>

Remove(r, d) ==
  /\ Arrives /\ At(r, "none")
  /\ d \in DOMAIN cache
  /\ job' = [job EXCEPT ![r].at = "delete", ![r].doc = d]
  /\ UNCHANGED <<table, cache, comment, board, reply, up, history>>

AddComment(c, d, a) ==
  /\ Arrives /\ comment[c].status = "none"
  /\ d \in DOMAIN rows
  /\ comment' = [comment EXCEPT ![c].status = "open", ![c].doc = d, ![c].agent = a]
  /\ UNCHANGED <<table, cache, board, reply, job, up, history>>

\* PATCH: the status is the user's to set.
UpdateComment(c, status) ==
  /\ Arrives /\ comment[c].status \in {"open", "resolved"} \ {status}
  /\ comment' = [comment EXCEPT ![c].status = status]
  /\ job' = [j \in Jobs |-> IF status = "open"
                            THEN [job[j] EXCEPT !.reopened = @ \cup {c}] ELSE job[j]]
  /\ UNCHANGED <<table, cache, board, reply, up, history>>

DeleteComment(c) ==
  /\ Arrives /\ comment[c].status \in {"open", "resolved"}
  /\ comment' = [comment EXCEPT ![c].status = "deleted"]
  /\ UNCHANGED <<table, cache, board, reply, job, up, history>>

\* POST .../dispatch: the document is looked up, then its comments.
Dispatch(r, d) ==
  /\ Arrives /\ At(r, "none")
  /\ d \in DOMAIN cache \cup DOMAIN rows
  /\ job' = [job EXCEPT ![r].at = "gather", ![r].doc = d]
  /\ UNCHANGED <<table, cache, comment, board, reply, up, history>>

Open(d) == {c \in Comments : comment[c].doc = d /\ comment[c].status = "open"}

Gather(r) ==
  /\ At(r, "gather")
  /\ IF Open(job[r].doc) = {} THEN Ends(r)
     ELSE job' = [job EXCEPT ![r].at = "dispatch", ![r].comments = Open(job[r].doc)]
  /\ UNCHANGED <<table, cache, comment, board, reply, up, calls, history>>

\* Mutant: each task lists the comments of every agent.
DispatchAll(r, a) ==
  /\ At(r, "dispatch") /\ Len(task) < MaxTasks
  /\ LET mine == {c \in job[r].comments : comment[c].agent = a}
         left == job[r].comments \ mine
     IN  /\ mine # {}
         /\ task' = Append(task, [agent |-> a, doc |-> job[r].doc, comments |-> job[r].comments,
                                  done |-> FALSE])
         /\ IF left = {} THEN Ends(r) ELSE job' = [job EXCEPT ![r].comments = left]
  /\ UNCHANGED <<table, cache, comment, current, reply, up, calls, history>>

\* One task for each agent that has comments, with the comments read before.
DispatchTask(r, a) ==
  /\ At(r, "dispatch") /\ Len(task) < MaxTasks
  /\ LET mine == {c \in job[r].comments : comment[c].agent = a}
         left == job[r].comments \ mine
     IN  /\ mine # {}
         /\ task' = Append(task, [agent |-> a, doc |-> job[r].doc, comments |-> mine,
                                  done |-> FALSE])
         /\ IF left = {} THEN Ends(r) ELSE job' = [job EXCEPT ![r].comments = left]
  /\ UNCHANGED <<table, cache, comment, current, reply, up, calls, history>>

-----------------------------------------------------------------------------
(* The agents' side: ActionRegistry.execute_all *)

TakeUp(a, t) ==
  /\ up /\ current[a] = NoTask /\ reply[a] = NoReply /\ At(a, "none")
  /\ task[t].agent = a /\ ~task[t].done
  /\ current' = [current EXCEPT ![a] = t]
  /\ UNCHANGED <<table, cache, comment, task, reply, job, up, calls, history>>

\* Ids are random: an agent knows those the index has listed. A document that
\* is about to be entered is not among them.
Heard == (used \ {job[j].doc : j \in {k \in Jobs : At(k, "append")}}) \cup DOMAIN cache

Respond(a, actions) ==
  /\ \A i \in DOMAIN actions : actions[i].doc \in Heard \cup {None}
  /\ up /\ reply[a] = NoReply /\ At(a, "none") /\ calls.replies < MaxReplies
  /\ reply' = [reply EXCEPT ![a] = [given |-> TRUE, todo |-> actions]]
  /\ calls' = [calls EXCEPT !.replies = @ + 1]
  /\ UNCHANGED <<table, cache, comment, board, job, up, history>>

Begins(a, stage) ==
  /\ reply' = [reply EXCEPT ![a].todo = Tail(@)]
  /\ LET action == Head(reply[a].todo)
     IN  job' = [job EXCEPT ![a].at = stage, ![a].doc = action.doc,
                            ![a].comments = action.comments]

Execute(a) ==
  /\ At(a, "none") /\ reply[a].todo # <<>>
  /\ LET kind == Head(reply[a].todo).kind
     IN  \/ kind = "write" /\ used # Docs /\ Begins(a, "insert")
         \/ kind = "update" /\ Begins(a, "commit")
         \/ kind = "resolve" /\ Begins(a, "resolve")
  /\ UNCHANGED <<table, cache, comment, board, up, calls, history>>

\* A forbidden action, one that fails validation, or one that raises.
Refuse(a) ==
  /\ At(a, "none") /\ reply[a].todo # <<>>
  /\ reply' = [reply EXCEPT ![a].todo = Tail(@)]
  /\ UNCHANGED <<table, cache, comment, board, job, up, calls, history>>

\* The response is dealt with; the agent's task, if it had one, is not its
\* current one any more.
Answered(a) ==
  /\ At(a, "none") /\ reply[a] # NoReply /\ reply[a].todo = <<>>
  /\ reply' = [reply EXCEPT ![a] = NoReply]
  /\ current' = [current EXCEPT ![a] = NoTask]
  /\ UNCHANGED <<table, cache, comment, task, job, up, calls, history>>

\* resolve_comments: the comments of the document that are not resolved yet are
\* read, whoever they are assigned to,
ResolveComments(a) ==
  /\ At(a, "resolve")
  /\ job' = [job EXCEPT ![a].at = "settle", ![a].comments = @ \cap Open(job[a].doc)]
  /\ UNCHANGED <<table, cache, comment, board, reply, up, calls, history>>

\* and committed together, over what was written to them in between. Where one
\* was deleted, the commit fails or, several at once, may go by without it.
Settle(a) ==
  /\ At(a, "settle")
  /\ LET gone == {c \in job[a].comments : comment[c].status = "deleted"}
     IN  \/ /\ gone = {} \/ Cardinality(job[a].comments) > 1
            /\ comment' = [c \in Comments |->
                             IF c \in job[a].comments \ gone
                             THEN [comment[c] EXCEPT !.status = "resolved"] ELSE comment[c]]
            /\ IF job[a].comments # {} /\ current[a] # NoTask
               THEN Goes(a, "review") ELSE Ends(a)
         \/ gone # {} /\ Ends(a) /\ UNCHANGED comment
  /\ UNCHANGED <<table, cache, board, reply, up, calls, history>>

\* Mutant: done as soon as these comments are resolved.
ReviewNothing(a) ==
  /\ At(a, "review")
  /\ job' = [job EXCEPT ![a].at = "close", ![a].reopened = {}]
  /\ UNCHANGED <<table, cache, comment, board, reply, up, calls, history>>

\* "Auto-complete the current task if all assigned comments resolved"
Review(a) ==
  /\ At(a, "review")
  /\ IF \E c \in Open(job[a].doc) : comment[c].agent = a THEN Ends(a)
     ELSE job' = [job EXCEPT ![a].at = "close", ![a].reopened = {}]
  /\ UNCHANGED <<table, cache, comment, board, reply, up, calls, history>>

Close(a) ==
  /\ At(a, "close")
  /\ task' = [task EXCEPT ![current[a]].done = TRUE]
  /\ Ends(a)
  /\ UNCHANGED <<table, cache, comment, current, reply, up, calls, history>>

-----------------------------------------------------------------------------
(* The project or the process stops and starts. *)

\* A stop cancels the agents where they are and leaves requests to end on the
\* knowledge base they have; a crash ends them too.
Stop(crash) ==
  /\ up /\ calls.stops < MaxStops
  /\ calls' = [calls EXCEPT !.stops = @ + 1]
  /\ up' = FALSE
  /\ reply' = [a \in Agents |-> NoReply] /\ current' = [a \in Agents |-> NoTask]
  /\ job' = [j \in Jobs |-> IF crash \/ j \in Agents \/ At(j, "none") THEN NoJob
                            ELSE [job[j] EXCEPT !.old = TRUE]]
  /\ UNCHANGED <<table, cache, comment, task, history>>

\* load()
Start ==
  /\ ~up
  /\ up' = TRUE /\ cache' = rows
  /\ crossed' = (crossed \/ \E r \in Requests : job[r].old)
  /\ UNCHANGED <<table, comment, board, reply, job, calls, overlap>>

-----------------------------------------------------------------------------

Operation(j) ==
  \/ Insert(j) \/ Enter(j) \/ Commit(j) \/ Refresh(j) \/ Enlist(j)
  \/ DeleteRow(j) \/ Unlist(j)

User(r) ==
  \/ \E d \in Docs : Write(r, "commit", d) \/ Remove(r, d) \/ Dispatch(r, d)
  \/ Write(r, "insert", None)
  \/ Gather(r) \/ \E a \in Agents : DispatchTask(r, a)

Agent(a) ==
  \/ \E t \in DOMAIN task : TakeUp(a, t)
  \/ \E actions \in Replies : Respond(a, actions)
  \/ Execute(a) \/ Refuse(a) \/ Answered(a)
  \/ ResolveComments(a) \/ Settle(a) \/ Review(a) \/ Close(a)

Next ==
  \/ \E j \in Jobs : Operation(j)
  \/ \E r \in Requests : User(r)
  \/ \E a \in Agents : Agent(a)
  \/ \E c \in Comments :
       \/ \E d \in Docs, a \in Agents : AddComment(c, d, a)
       \/ \E status \in {"open", "resolved"} : UpdateComment(c, status)
       \/ DeleteComment(c)
  \/ \E crash \in BOOLEAN : Stop(crash)
  \/ Start

Spec == Init /\ [][Next]_vars

-----------------------------------------------------------------------------
(* Properties *)

\* When the resolution of a document's comments completes the review task of
\* that document, none of the comments the task was dispatched with is left
\* open, were there another response, another dispatch or another agent at the
\* same comments: unless the user has reopened it since the agent looked.
ClosedIsAddressed ==
  [][ \A a \in Agents :
        LET t == current[a] IN
          At(a, "close") /\ task' # task /\ job'[a].at = "none" /\ task[t].doc = job[a].doc
            => task[t].comments \cap Open(task[t].doc) \subseteq job[a].reopened ]_vars

\* "Auto-complete the current task if all assigned comments resolved", with no exception
\* for a comment reopened meanwhile. False of the code: the board is asked after an await.
ClosedIsResolved ==
  [][ \A a \in Agents :
        LET t == current[a] IN
          At(a, "close") /\ task' # task /\ job'[a].at = "none" /\ task[t].doc = job[a].doc
            => task[t].comments \cap Open(task[t].doc) = {} ]_vars

\* With no operation under way, the index lists the documents that exist, each
\* as it is in the table, whichever operations failed, were cut short or crossed
\* on the way. Two updates of one document that overlap may leave the older one
\* in the index; a request that goes on over a restart may miss the new index.
IndexIsTable ==
  up /\ ~crossed /\ (\A j \in Jobs : At(j, "none"))
    => /\ DOMAIN cache = DOMAIN rows
       /\ \A d \in DOMAIN rows \ overlap : cache[d] = rows[d]

=============================================================================
