--------------------------- MODULE DocumentsProofs ---------------------------
(***************************************************************************)
(* What holds of Documents for any number of agents, requests, documents   *)
(* and comments, and whatever actions the responses have.                  *)
(***************************************************************************)
EXTENDS Documents, TLAPS

-----------------------------------------------------------------------------
(* The invariant: what each variable holds *)

Tables ==
  /\ used \subseteq Docs /\ DOMAIN rows \subseteq used /\ overlap \subseteq Docs
  /\ \A d \in DOMAIN rows : rows[d] \in Nat

Entries == DOMAIN cache \subseteq used /\ \A d \in DOMAIN cache : cache[d] \in Nat

Remark == [status: {"none", "open", "resolved", "deleted"},
           doc: used \cup {None}, agent: Agents \cup {None}]

Remarks ==
  /\ comment \in [Comments -> Remark]
  /\ \A c \in Comments : comment[c].status # "none" => comment[c].doc \in used

ReviewTask == [agent: Agents, doc: used, comments: SUBSET Comments, done: BOOLEAN]

\* A task is about comments there are, its agent's, on its document.
Reviews ==
  /\ task \in Seq(ReviewTask)
  /\ \A t \in DOMAIN task : \A c \in task[t].comments :
       /\ comment[c].agent = task[t].agent /\ comment[c].doc = task[t].doc
       /\ comment[c].status # "none"

Holdings ==
  /\ current \in [Agents -> 0..Len(task)]
  /\ \A a \in Agents : current[a] # NoTask => task[current[a]].agent = a

\* Every document that an action or an operation names has been created.
Responses ==
  /\ reply \in [Agents -> [given: BOOLEAN, todo: Seq(Action)]]
  /\ \A a \in Agents : \A i \in DOMAIN reply[a].todo :
       reply[a].todo[i].doc \in used \cup {None}

Job == [at: Stages, doc: Docs \cup {None}, version: Nat,
        comments: SUBSET Comments, reopened: SUBSET Comments, old: BOOLEAN]

Operations ==
  /\ job \in [Jobs -> Job]
  /\ \A j \in Jobs : /\ job[j].doc \in used \cup {None}
                     /\ At(j, "append") => job[j].doc \in used

Flags ==
  /\ up \in BOOLEAN /\ crossed \in BOOLEAN
  /\ calls \in [requests: 0..MaxRequests, replies: 0..MaxReplies, stops: 0..MaxStops]

-----------------------------------------------------------------------------
(* The invariant: how they go together *)

\* Whole: the index is the one loaded last, and every operation is on it.
Whole == up /\ ~crossed

\* Only requests go on over a stop, and they are old from then on.
Parted ==
  /\ \A j \in Jobs : At(j, "none") => ~job[j].old
  /\ ~up => /\ \A j \in Jobs : At(j, "none") \/ (j \in Requests /\ job[j].old)
            /\ \A a \in Agents : reply[a] = NoReply
  /\ Whole => \A j \in Jobs : ~job[j].old

\* What is about to be dispatched or settled are comments there are on the document.
Gathered ==
  \A j \in Jobs : job[j].at \in {"dispatch", "settle"} =>
    \A c \in job[j].comments : comment[c].status # "none" /\ comment[c].doc = job[j].doc

\* An agent that is about to complete a task has one, and those of its comments
\* that are open have been reopened since the agent looked.
Closing ==
  \A a \in Agents :
    /\ At(a, "review") \/ At(a, "close") => current[a] # NoTask
    /\ At(a, "close") =>
         task[current[a]].comments \cap Open(job[a].doc) \subseteq job[a].reopened

\* The operation may change a row or an entry, or has done so.
Upon(j) == job[j].at \in {"append", "commit", "refresh", "enlist", "delete", "unlist"}

\* A document that is about to be entered is as it was created: no other
\* operation is upon it, and no action names it.
Entering ==
  Whole => \A j \in Jobs : At(j, "append") =>
             /\ job[j].doc \in DOMAIN rows \ DOMAIN cache /\ rows[job[j].doc] = 0
             /\ \A k \in Jobs \ {j} : Upon(k) => job[k].doc # job[j].doc
             /\ \A a \in Agents : \A i \in DOMAIN reply[a].todo :
                  reply[a].todo[i].doc # job[j].doc

\* What one of the two lists and the other does not is about to be entered in
\* the index, or struck out of it.
Entered == Whole => \A d \in DOMAIN rows \ DOMAIN cache :
                      \E j \in Jobs : At(j, "append") /\ job[j].doc = d
Struck == Whole => \A d \in DOMAIN cache \ DOMAIN rows :
                     \E j \in Jobs : At(j, "unlist") /\ job[j].doc = d
Gone == \A j \in Jobs : At(j, "unlist") => job[j].doc \in used \ DOMAIN rows

\* An entry that is behind its row is about to be replaced, by the row as it is.
Replaced == Whole => \A d \in (DOMAIN rows \cap DOMAIN cache) \ overlap :
              \/ cache[d] = rows[d]
              \/ \E j \in Jobs : job[j].at \in {"refresh", "enlist"} /\ job[j].doc = d
Fetched == \A j \in Jobs : At(j, "enlist") /\ job[j].doc \in DOMAIN rows \ overlap
                             => job[j].version = rows[job[j].doc]

Typed == Tables /\ Entries /\ Remarks /\ Reviews /\ Holdings /\ Responses /\ Operations /\ Flags
Index == Entering /\ Entered /\ Struck /\ Gone /\ Replaced /\ Fetched

Base == Typed /\ Parted /\ Gathered /\ Closing
Inv == Base /\ Index

LEMMA TypedIsTypeOK ==
  ASSUME Typed
  PROVE  TypeOK
  BY DEF Typed, Tables, Entries, Remarks, Remark, Reviews, ReviewTask, Holdings, Responses,
         Operations, Job, Flags, TypeOK

-----------------------------------------------------------------------------
(* Sequences *)

LEMMA TailIs ==
  ASSUME NEW S, NEW s \in Seq(S), s # <<>>
  PROVE  /\ Tail(s) \in Seq(S) /\ Head(s) \in S /\ 1 \in DOMAIN s /\ Head(s) = s[1]
         /\ \A i \in DOMAIN Tail(s) : i + 1 \in DOMAIN s /\ Tail(s)[i] = s[i + 1]
  OBVIOUS

LEMMA AppendIs ==
  ASSUME NEW S, NEW s \in Seq(S), NEW x \in S
  PROVE  /\ Append(s, x) \in Seq(S) /\ Len(Append(s, x)) = Len(s) + 1 /\ Len(s) \in Nat
         /\ \A i \in DOMAIN s : i \in 1..Len(s) /\ Append(s, x)[i] = s[i]
         /\ \A i \in DOMAIN Append(s, x) : i \in DOMAIN s \/ Append(s, x)[i] = x
  OBVIOUS

-----------------------------------------------------------------------------
(* A step of one operation *)

\* What a step of j does to it: n is where the operation is then.
Moves(j, n) ==
  /\ n \in Job /\ job' = [job EXCEPT ![j] = n]
  /\ n.doc \in used' \cup {None} /\ (n.at = "append" => n.doc \in used')
  /\ n.old <=> (job[j].old /\ n.at # "none")
  /\ At(j, "none") => up
  /\ n.at \in {"dispatch", "settle"} =>
       \A c \in n.comments : comment[c].status # "none" /\ comment[c].doc = n.doc
  /\ j \in Agents /\ n.at \in {"review", "close"} => current[j] # NoTask
  /\ j \in Agents /\ n.at = "close" => task[current[j]].comments \cap Open(n.doc) = {}

LEMMA EndsIs ==
  ASSUME Typed, NEW j \in Jobs, Ends(j), ~At(j, "none")
  PROVE  Moves(j, NoJob)
  <1>1. NoJob \in Job /\ NoJob.doc = None /\ NoJob.at = "none" /\ NoJob.old = FALSE
    BY DEF NoJob, Job, Stages, None
  <1> QED  BY <1>1 DEF Moves, Ends

LEMMA GoesIs ==
  ASSUME Typed, used \subseteq used', NEW j \in Jobs, ~At(j, "none"),
         NEW s \in Stages \ {"none", "append", "dispatch", "settle", "review", "close"},
         NEW n, n = [job[j] EXCEPT !.at = s], job' = [job EXCEPT ![j] = n]
  PROVE  Moves(j, n)
  <1>1. job[j] \in Job /\ job[j].doc \in used \cup {None}
    BY DEF Typed, Operations
  <1>2. n \in Job /\ n.at = s /\ n.old = job[j].old /\ n.doc = job[j].doc
    BY <1>1 DEF Job
  <1> QED  BY <1>1, <1>2 DEF Moves, At

\* The operations of the knowledge base.
LEMMA OperationMoves ==
  ASSUME Typed, Parted, NEW j \in Jobs, Operation(j)
  PROVE  \E n : Moves(j, n)
  <1> USE DEF table, board, history
  <1>0. job[j] \in Job /\ job[j].doc \in used \cup {None} /\ used \subseteq Docs
    BY DEF Typed, Operations, Tables
  <1>1. CASE Insert(j)
    <2>1. PICK d \in Docs \ used : /\ used' = used \cup {d}
                                   /\ job' = [job EXCEPT ![j].at = "append", ![j].doc = d]
      BY <1>1 DEF Insert
    <2> DEFINE n == [job[j] EXCEPT !.at = "append", !.doc = d]
    <2>2. n \in Job /\ n.at = "append" /\ n.doc = d /\ n.old = job[j].old
      BY <1>0 DEF Job, Stages
    <2>3. job' = [job EXCEPT ![j] = n]
      BY <2>1
    <2> HIDE DEF n
    <2>4. Moves(j, n)
      BY <1>1, <2>1, <2>2, <2>3 DEF Moves, At, Insert
    <2> QED  BY <2>4
  <1>2. CASE Enter(j)
    BY <1>2, EndsIs DEF Enter, At
  <1>3. CASE Commit(j)
    <2>1. CASE Ends(j)
      BY <1>3, <2>1, EndsIs DEF Commit, At
    <2>2. CASE Goes(j, "refresh")
      <3> DEFINE n == [job[j] EXCEPT !.at = "refresh"]
      <3>1. job' = [job EXCEPT ![j] = n] /\ used' = used /\ ~At(j, "none")
        BY <1>3, <2>2 DEF Goes, Commit, At
      <3>2. Moves(j, n)
        BY <3>1, GoesIs DEF Stages
      <3> QED  BY <3>2
    <2> QED  BY <1>3, <2>1, <2>2 DEF Commit
  <1>4. CASE Refresh(j)
    <2>1. CASE job[j].doc \in DOMAIN rows
      <3> DEFINE n == [job[j] EXCEPT !.at = "enlist", !.version = rows[job[j].doc]]
      <3>1. n \in Job /\ n.at = "enlist" /\ n.old = job[j].old /\ n.doc = job[j].doc
        BY <1>0, <2>1 DEF Job, Stages, Typed, Tables
      <3>2. job' = [job EXCEPT ![j] = n]
        BY <1>4, <2>1 DEF Refresh
      <3> HIDE DEF n
      <3>3. Moves(j, n)
        BY <1>0, <1>4, <3>1, <3>2 DEF Moves, At, Refresh
      <3> QED  BY <3>3
    <2> QED  BY <1>4, <2>1, EndsIs DEF Refresh, At
  <1>5. CASE Enlist(j)
    BY <1>5, EndsIs DEF Enlist, At
  <1>6. CASE DeleteRow(j)
    <2>1. CASE Ends(j)
      BY <1>6, <2>1, EndsIs DEF DeleteRow, At
    <2>2. CASE Goes(j, "unlist")
      <3> DEFINE n == [job[j] EXCEPT !.at = "unlist"]
      <3>1. job' = [job EXCEPT ![j] = n] /\ used' = used /\ ~At(j, "none")
        BY <1>6, <2>2 DEF Goes, DeleteRow, At
      <3>2. Moves(j, n)
        BY <3>1, GoesIs DEF Stages
      <3> QED  BY <3>2
    <2> QED  BY <1>6, <2>1, <2>2 DEF DeleteRow
  <1>7. CASE Unlist(j)
    BY <1>7, EndsIs DEF Unlist, At
  <1> QED  BY <1>1, <1>2, <1>3, <1>4, <1>5, <1>6, <1>7 DEF Operation

\* The requests of the user.
LEMMA UserMoves ==
  ASSUME Typed, Parted, Gathered, NEW r \in Requests, User(r)
  PROVE  \E n : Moves(r, n)
  <1> USE DEF table, board, history
  <1>0. /\ r \in Jobs /\ r \notin Agents
        /\ job[r] \in Job /\ job[r].doc \in used \cup {None} /\ used \subseteq Docs
        /\ (DOMAIN cache \cup DOMAIN rows) \subseteq used
        /\ At(r, "none") => ~job[r].old
    BY DocumentsAssumption DEF Typed, Operations, Tables, Entries, Jobs, Parted
  \* What a request that begins looks like.
  <1>1. ASSUME NEW s \in {"insert", "commit", "delete", "gather"}, NEW d \in used \cup {None},
               job' = [job EXCEPT ![r].at = s, ![r].doc = d], used' = used, up, At(r, "none")
        PROVE  \E n : Moves(r, n)
    <2> DEFINE n == [job[r] EXCEPT !.at = s, !.doc = d]
    <2>1. n \in Job /\ n.at = s /\ n.doc = d /\ n.old = job[r].old
      BY <1>0 DEF Job, Stages
    <2>2. job' = [job EXCEPT ![r] = n]
      BY <1>1
    <2> HIDE DEF n
    <2>3. Moves(r, n)
      BY <1>0, <1>1, <2>1, <2>2 DEF Moves
    <2> QED  BY <2>3
  <1>2. ASSUME NEW d \in Docs, Write(r, "commit", d)  PROVE \E n : Moves(r, n)
    <2>1. /\ job' = [job EXCEPT ![r].at = "commit", ![r].doc = d]
          /\ used' = used /\ up /\ At(r, "none") /\ d \in used
      BY <1>0, <1>2 DEF Write, Arrives
    <2> QED  BY <1>1, <2>1
  <1>3. ASSUME NEW d \in Docs, Remove(r, d)  PROVE \E n : Moves(r, n)
    <2>1. /\ job' = [job EXCEPT ![r].at = "delete", ![r].doc = d]
          /\ used' = used /\ up /\ At(r, "none") /\ d \in used
      BY <1>0, <1>3 DEF Remove, Arrives
    <2> QED  BY <1>1, <2>1
  <1>4. ASSUME NEW d \in Docs, Dispatch(r, d)  PROVE \E n : Moves(r, n)
    <2>1. /\ job' = [job EXCEPT ![r].at = "gather", ![r].doc = d]
          /\ used' = used /\ up /\ At(r, "none") /\ d \in used
      BY <1>0, <1>4 DEF Dispatch, Arrives
    <2> QED  BY <1>1, <2>1
  <1>5. ASSUME Write(r, "insert", None)  PROVE \E n : Moves(r, n)
    BY <1>0, <1>1, <1>5 DEF Write, Arrives
  <1>6. ASSUME Gather(r)  PROVE \E n : Moves(r, n)
    <2>1. CASE Open(job[r].doc) = {}
      BY <1>0, <1>6, <2>1, EndsIs DEF Gather, At
    <2>2. CASE Open(job[r].doc) # {}
      <3> DEFINE n == [job[r] EXCEPT !.at = "dispatch", !.comments = Open(job[r].doc)]
      <3>1. /\ n \in Job /\ n.at = "dispatch" /\ n.doc = job[r].doc /\ n.old = job[r].old
            /\ n.comments = Open(job[r].doc)
        BY <1>0 DEF Job, Stages, Open
      <3>2. job' = [job EXCEPT ![r] = n] /\ used' = used /\ ~At(r, "none")
        BY <1>6, <2>2 DEF Gather, At
      <3>3. \A c \in n.comments : comment[c].status # "none" /\ comment[c].doc = n.doc
        BY <3>1 DEF Open
      <3> HIDE DEF n
      <3>4. Moves(r, n)
        BY <1>0, <3>1, <3>2, <3>3 DEF Moves, At
      <3> QED  BY <3>4
    <2> QED  BY <2>1, <2>2
  <1>7. ASSUME NEW a \in Agents, DispatchTask(r, a)  PROVE \E n : Moves(r, n)
    <2> DEFINE mine == {c \in job[r].comments : comment[c].agent = a}
               left == job[r].comments \ mine
    <2>1. CASE left = {}
      BY <1>0, <1>7, <2>1, EndsIs DEF DispatchTask, At
    <2>2. CASE left # {}
      <3> DEFINE n == [job[r] EXCEPT !.comments = left]
      <3>1. /\ n \in Job /\ n.at = job[r].at /\ n.doc = job[r].doc /\ n.old = job[r].old
            /\ n.comments \subseteq job[r].comments
        BY <1>0 DEF Job
      <3>2. job' = [job EXCEPT ![r] = n] /\ used' = used /\ At(r, "dispatch")
        BY <1>7, <2>2 DEF DispatchTask
      <3>3. \A c \in n.comments : comment[c].status # "none" /\ comment[c].doc = n.doc
        BY <1>0, <1>7, <3>1, <3>2 DEF Gathered, At
      <3> HIDE DEF n
      <3>4. Moves(r, n)
        BY <1>0, <3>1, <3>2, <3>3 DEF Moves, At
      <3> QED  BY <3>4
    <2> QED  BY <2>1, <2>2
  <1> QED  BY <1>2, <1>3, <1>4, <1>5, <1>6, <1>7 DEF User

\* The actions of an agent: those that carry out an action, and those that do not.
Carries(a) == Execute(a) \/ ResolveComments(a) \/ Settle(a) \/ Review(a) \/ Close(a)
Talks(a) ==
  \/ \E t \in DOMAIN task : TakeUp(a, t)
  \/ \E actions \in Replies : Respond(a, actions)
  \/ Refuse(a) \/ Answered(a)

LEMMA AgentMoves ==
  ASSUME Typed, Parted, Closing, NEW a \in Agents, Carries(a)
  PROVE  \E n : Moves(a, n)
  <1> USE DEF table, board, history
  <1>0. /\ a \in Jobs /\ job[a] \in Job /\ job[a].doc \in used \cup {None}
        /\ reply[a] \in [given: BOOLEAN, todo: Seq(Action)]
        /\ current[a] \in 0..Len(task) /\ task \in Seq(ReviewTask)
        /\ At(a, "none") => ~job[a].old
    BY DEF Typed, Operations, Responses, Holdings, Reviews, Jobs, Parted
  <1>1. CASE Execute(a)
    <2> DEFINE action == Head(reply[a].todo)
    <2>1. reply[a].todo # <<>> /\ At(a, "none") /\ used' = used
      BY <1>1 DEF Execute
    <2>2. action \in Action /\ action.doc \in used \cup {None}
      BY <1>0, <2>1, TailIs DEF Typed, Responses
    <2>3. up
      BY <2>1 DEF Parted, NoReply
    <2>4. PICK s \in {"insert", "commit", "resolve"} : Begins(a, s)
      BY <1>1 DEF Execute
    <2> DEFINE n == [job[a] EXCEPT !.at = s, !.doc = action.doc, !.comments = action.comments]
    <2>5. n \in Job /\ n.at = s /\ n.doc = action.doc /\ n.old = job[a].old
      BY <1>0, <2>2 DEF Job, Stages, Action
    <2>6. job' = [job EXCEPT ![a] = n]
      BY <2>4 DEF Begins
    <2> HIDE DEF n, action
    <2>7. Moves(a, n)
      BY <1>0, <2>1, <2>2, <2>3, <2>5, <2>6 DEF Moves
    <2> QED  BY <2>7
  <1>2. CASE ResolveComments(a)
    <2> DEFINE n == [job[a] EXCEPT !.at = "settle", !.comments = @ \cap Open(job[a].doc)]
    <2>1. /\ n \in Job /\ n.at = "settle" /\ n.doc = job[a].doc /\ n.old = job[a].old
          /\ n.comments \subseteq Open(job[a].doc)
      BY <1>0 DEF Job, Stages
    <2>4. \A c \in n.comments : comment[c].status # "none" /\ comment[c].doc = n.doc
      BY <2>1 DEF Open
    <2>2. job' = [job EXCEPT ![a] = n] /\ used' = used /\ ~At(a, "none")
      BY <1>2 DEF ResolveComments, At
    <2> HIDE DEF n
    <2>3. Moves(a, n)
      BY <1>0, <2>1, <2>2, <2>4 DEF Moves, At
    <2> QED  BY <2>3
  <1>3. CASE Settle(a)
    <2>1. CASE Ends(a)
      BY <1>0, <1>3, <2>1, EndsIs DEF Settle, At
    <2>2. CASE Goes(a, "review") /\ current[a] # NoTask
      <3> DEFINE n == [job[a] EXCEPT !.at = "review"]
      <3>1. n \in Job /\ n.at = "review" /\ n.doc = job[a].doc /\ n.old = job[a].old
        BY <1>0 DEF Job, Stages
      <3>2. job' = [job EXCEPT ![a] = n] /\ used' = used /\ ~At(a, "none")
        BY <1>3, <2>2 DEF Settle, At, Goes
      <3> HIDE DEF n
      <3>3. Moves(a, n)
        BY <1>0, <2>2, <3>1, <3>2 DEF Moves, At
      <3> QED  BY <3>3
    <2> QED  BY <1>3, <2>1, <2>2 DEF Settle
  <1>4. CASE Review(a)
    <2>1. CASE Ends(a)
      BY <1>0, <1>4, <2>1, EndsIs DEF Review, At
    <2>2. CASE ~\E c \in Open(job[a].doc) : comment[c].agent = a
      <3> DEFINE n == [job[a] EXCEPT !.at = "close", !.reopened = {}]
      <3>1. n \in Job /\ n.at = "close" /\ n.doc = job[a].doc /\ n.old = job[a].old
        BY <1>0 DEF Job, Stages
      <3>2. job' = [job EXCEPT ![a] = n] /\ used' = used /\ At(a, "review")
        BY <1>4, <2>2 DEF Review
      <3>3. current[a] # NoTask
        BY <3>2 DEF Closing
      <3>4. current[a] \in DOMAIN task /\ task[current[a]].agent = a
        BY <1>0, <3>3 DEF Typed, Holdings, NoTask
      <3>5. \A c \in task[current[a]].comments : comment[c].agent = a
        BY <3>4 DEF Typed, Reviews
      <3>6. task[current[a]].comments \cap Open(n.doc) = {}
        BY <2>2, <3>1, <3>5
      <3> HIDE DEF n
      <3>7. Moves(a, n)
        BY <1>0, <3>1, <3>2, <3>3, <3>6 DEF Moves, At
      <3> QED  BY <3>7
    <2> QED  BY <1>4, <2>1, <2>2 DEF Review
  <1>5. CASE Close(a)
    BY <1>0, <1>5, EndsIs DEF Close, At
  <1> QED  BY <1>1, <1>2, <1>3, <1>4, <1>5 DEF Carries

\* What such a step leaves to the others: tasks stay about the same comments, and
\* no comment is made, or opened, or about something else than before.
Steady ==
  /\ used \subseteq used' /\ up' = up /\ crossed' = crossed /\ current' = current
  /\ \A c \in Comments : comment[c].status # "none" =>
       comment'[c].status # "none" /\ comment'[c].doc = comment[c].doc
  /\ \A c \in Comments : comment'[c].status = "open" => comment'[c] = comment[c]
  /\ \A t \in DOMAIN task : task'[t].comments = task[t].comments
  /\ \A a \in Agents : reply[a] = NoReply => reply'[a] = NoReply

LEMMA MovesKeep ==
  ASSUME Typed, Parted, Gathered, Closing, Steady, NEW j \in Jobs, NEW n, Moves(j, n)
  PROVE  Operations' /\ Parted' /\ Gathered' /\ Closing'
  <1>0. /\ job \in [Jobs -> Job] /\ job' \in [Jobs -> Job] /\ job'[j] = n /\ n \in Job
        /\ \A k \in Jobs \ {j} : job'[k] = job[k]
        /\ \A k \in Jobs : job[k].old \in BOOLEAN /\ job'[k].old \in BOOLEAN
                           /\ job[k].comments \subseteq Comments
        /\ \A c \in n.comments : c \in Comments
    BY DEF Typed, Operations, Moves, Job
  <1>1. Operations'
    <2>1. ASSUME NEW k \in Jobs
          PROVE  /\ job'[k].doc \in used' \cup {None}
                 /\ job'[k].at = "append" => job'[k].doc \in used'
      <3>1. CASE k = j
        BY <1>0, <3>1 DEF Moves
      <3>2. CASE k # j
        BY <1>0, <3>2 DEF Typed, Operations, At, Steady
      <3> QED  BY <3>1, <3>2
    <2> QED  BY <1>0, <2>1 DEF Operations, At, Job
  <1>2. Parted'
    <2>1. \A k \in Jobs : At(k, "none")' => ~job'[k].old
      BY <1>0 DEF Parted, Moves, At
    <2>2. \A k \in Jobs : job'[k].old => job[k].old
      BY <1>0 DEF Moves
    <2>3. Whole' => \A k \in Jobs : ~job'[k].old
      BY <2>2 DEF Parted, Whole, Steady
    <2>4. ASSUME ~up', NEW k \in Jobs
          PROVE  At(k, "none")' \/ (k \in Requests /\ job'[k].old)
      BY <1>0, <2>4 DEF Parted, Moves, At, Steady
    <2>5. ~up' => \A a \in Agents : reply'[a] = NoReply
      BY DEF Parted, Steady
    <2> QED  BY <2>1, <2>3, <2>4, <2>5 DEF Parted, NoReply
  <1>3. Gathered'
    <2> SUFFICES ASSUME NEW k \in Jobs, job'[k].at \in {"dispatch", "settle"}, NEW c \in job'[k].comments
                 PROVE  comment'[c].status # "none" /\ comment'[c].doc = job'[k].doc
      BY DEF Gathered, At
    <2>1. c \in Comments /\ comment[c].status # "none" /\ comment[c].doc = job'[k].doc
      <3>1. CASE k = j
        BY <1>0, <3>1 DEF Moves
      <3>2. CASE k # j
        BY <1>0, <3>2 DEF Gathered, At
      <3> QED  BY <3>1, <3>2
    <2> QED  BY <2>1 DEF Steady
  <1>4. Closing'
    <2> SUFFICES ASSUME NEW a \in Agents
                 PROVE  /\ job'[a].at \in {"review", "close"} => current[a] # NoTask
                        /\ job'[a].at = "close" =>
                             task'[current[a]].comments \cap Open(job[a].doc)'
                               \subseteq job'[a].reopened
      BY DEF Closing, At, Steady
    <2>0. a \in Jobs
      BY DEF Jobs
    <2>1. job'[a].at \in {"review", "close"} => current[a] # NoTask
      BY <1>0, <2>0 DEF Closing, At, Moves
    <2>2. ASSUME job'[a].at = "close"
          PROVE  task'[current[a]].comments \cap Open(job[a].doc)' \subseteq job'[a].reopened
      <3>1. current[a] \in DOMAIN task
        BY <2>1, <2>2 DEF Typed, Holdings, Reviews, NoTask
      <3>2. task'[current[a]].comments = task[current[a]].comments
        BY <3>1 DEF Steady
      <3>3. Open(job[a].doc)' \subseteq Open(job'[a].doc)
        BY DEF Open, Steady
      <3>4. task[current[a]].comments \cap Open(job'[a].doc) \subseteq job'[a].reopened
        BY <1>0, <2>0, <2>2 DEF Closing, At, Moves
      <3> QED  BY <3>2, <3>3, <3>4
    <2> QED  BY <2>1, <2>2
  <1> QED  BY <1>1, <1>2, <1>3, <1>4

-----------------------------------------------------------------------------
(* Every step keeps Base. *)

\* The operations of the knowledge base.
LEMMA OperationKeepsBase ==
  ASSUME Base, NEW j \in Jobs, Operation(j)
  PROVE  Base'
  <1> USE DEF table, board, history
  <1>0. Typed /\ Parted /\ Gathered /\ Closing
    BY DEF Base
  <1>1. /\ UNCHANGED <<comment, task, current, reply, up, calls, crossed>>
        /\ used \subseteq used'
    BY DEF Operation, Insert, Enter, Commit, Refresh, Enlist, DeleteRow, Unlist
  <1>2. Tables'
    <2>0. job[j].doc \in used \cup {None}
      BY <1>0 DEF Typed, Operations
    <2>1. CASE Insert(j)
      BY <1>0, <2>1 DEF Insert, Typed, Tables, With
    <2>2. CASE Commit(j)
      BY <1>0, <2>0, <2>2 DEF Commit, Typed, Tables
    <2>3. CASE DeleteRow(j)
      BY <1>0, <2>3 DEF DeleteRow, Typed, Tables, Without
    <2>4. CASE UNCHANGED <<rows, used, overlap>>
      BY <1>0, <2>4 DEF Typed, Tables
    <2> QED  BY <2>1, <2>2, <2>3, <2>4 DEF Operation, Enter, Refresh, Enlist, Unlist
  <1>3. Entries'
    <2>1. CASE Enter(j)
      <3>1. job[j].doc \in used
        BY <1>0, <2>1 DEF Enter, Typed, Operations
      <3> QED  BY <1>0, <2>1, <3>1 DEF Enter, Typed, Entries, With
    <2>2. CASE Enlist(j)
      <3>1. job[j].version \in Nat
        BY <1>0 DEF Typed, Operations, Job
      <3> QED  BY <1>0, <2>2, <3>1 DEF Enlist, Typed, Entries
    <2>3. CASE Unlist(j)
      BY <1>0, <2>3 DEF Unlist, Typed, Entries, Without
    <2>4. CASE UNCHANGED cache
      BY <1>0, <1>1, <2>4 DEF Typed, Entries
    <2> QED  BY <2>1, <2>2, <2>3, <2>4 DEF Operation, Insert, Commit, Refresh, DeleteRow
  <1>4. Remarks'
    BY <1>0, <1>1 DEF Typed, Remarks, Remark
  <1>5. Reviews'
    <2>1. \A x : x \in ReviewTask => x \in ReviewTask'
      BY <1>1 DEF ReviewTask
    <2>2. task \in Seq(ReviewTask')
      BY <1>0, <2>1 DEF Typed, Reviews
    <2> QED  BY <1>0, <1>1, <2>2 DEF Typed, Reviews
  <1>6. Holdings' /\ Flags'
    BY <1>0, <1>1 DEF Typed, Holdings, Flags
  <1>7. Responses'
    BY <1>0, <1>1 DEF Typed, Responses
  <1>8. Steady
    BY <1>1 DEF Steady
  <1>9. Operations' /\ Parted' /\ Gathered' /\ Closing'
    BY <1>0, <1>8, OperationMoves, MovesKeep
  <1> QED  BY <1>2, <1>3, <1>4, <1>5, <1>6, <1>7, <1>9 DEF Base, Typed

\* The requests of the user.
LEMMA UserKeepsBase ==
  ASSUME Base, NEW r \in Requests, User(r)
  PROVE  Base'
  <1> USE DEF table, board, history
  <1>0. Typed /\ Parted /\ Gathered /\ Closing /\ r \in Jobs
    BY DEF Base, Jobs
  <1>1. UNCHANGED <<rows, used, cache, comment, current, reply, up, overlap, crossed>>
    BY DEF User, Write, Remove, Dispatch, Gather, DispatchTask
  <1>2. Flags'
    <2>1. \/ calls' = calls
          \/ calls.requests < MaxRequests /\ calls' = [calls EXCEPT !.requests = @ + 1]
      BY DEF User, Write, Remove, Dispatch, Gather, DispatchTask, Arrives
    <2> QED  BY <1>0, <1>1, <2>1, DocumentsAssumption DEF Typed, Flags
  <1>3. Tables' /\ Entries' /\ Remarks' /\ Responses'
    BY <1>0, <1>1 DEF Typed, Tables, Entries, Remarks, Remark, Responses
  <1>4. /\ Reviews' /\ Holdings'
        /\ \A t \in DOMAIN task : task'[t].comments = task[t].comments
    <2>0. task \in Seq(ReviewTask) /\ ReviewTask' = ReviewTask
      BY <1>0, <1>1 DEF Typed, Reviews, ReviewTask
    <2>1. CASE task' = task
      BY <1>0, <1>1, <2>0, <2>1 DEF Typed, Reviews, Holdings
    <2>2. ASSUME NEW a \in Agents, DispatchTask(r, a)
          PROVE  /\ Reviews' /\ Holdings'
                 /\ \A t \in DOMAIN task : task'[t].comments = task[t].comments
      <3> DEFINE mine == {c \in job[r].comments : comment[c].agent = a}
                 new == [agent |-> a, doc |-> job[r].doc, comments |-> mine, done |-> FALSE]
      <3>1. /\ At(r, "dispatch") /\ mine # {} /\ task' = Append(task, new)
        BY <2>2 DEF DispatchTask
      <3>2. \A c \in mine : comment[c].status # "none" /\ comment[c].doc = job[r].doc
        BY <1>0, <3>1 DEF Gathered, At
      <3>3. mine \subseteq Comments /\ job[r].doc \in used
        <4>1. job[r].comments \subseteq Comments /\ job[r].doc \in used \cup {None}
          BY <1>0 DEF Typed, Operations, Job
        <4>2. \A c \in mine : comment[c].doc \in used
          BY <1>0, <3>2, <4>1 DEF Typed, Remarks
        <4> QED  BY <3>1, <3>2, <4>1, <4>2
      <3>4. new \in ReviewTask /\ new.comments = mine /\ new.agent = a /\ new.doc = job[r].doc
        BY <3>3 DEF ReviewTask
      <3>5. \A c \in mine : comment[c].agent = a
        OBVIOUS
      <3> HIDE DEF new, mine
      <3>6. /\ task' \in Seq(ReviewTask) /\ Len(task') = Len(task) + 1 /\ Len(task) \in Nat
            /\ \A i \in DOMAIN task : i \in 1..Len(task) /\ task'[i] = task[i]
            /\ \A i \in DOMAIN task' : i \in DOMAIN task \/ task'[i] = new
        BY <2>0, <3>1, <3>4, AppendIs
      <3>7. Reviews'
        <4>1. ASSUME NEW t \in DOMAIN task', NEW c \in task'[t].comments
              PROVE  /\ comment[c].agent = task'[t].agent /\ comment[c].doc = task'[t].doc
                     /\ comment[c].status # "none"
          <5>1. CASE t \in DOMAIN task
            BY <1>0, <3>6, <4>1, <5>1 DEF Typed, Reviews
          <5>2. CASE task'[t] = new
            BY <3>2, <3>4, <3>5, <4>1, <5>2
          <5> QED  BY <3>6, <5>1, <5>2
        <4> QED  BY <1>1, <2>0, <3>6, <4>1 DEF Reviews
      <3>8. Holdings'
        <4>1. \A b \in Agents : current[b] \in 0..Len(task) /\ (current[b] # NoTask =>
                 current[b] \in DOMAIN task /\ task[current[b]].agent = b)
          BY <1>0, <2>0 DEF Typed, Holdings, NoTask
        <4>2. \A b \in Agents : current[b] \in 0..Len(task')
          BY <3>6, <4>1
        <4> QED  BY <1>0, <1>1, <3>6, <4>1, <4>2 DEF Typed, Holdings
      <3> QED  BY <3>6, <3>7, <3>8
    <2> QED  BY <2>1, <2>2 DEF User, Write, Remove, Dispatch, Gather
  <1>5. Steady
    BY <1>1, <1>4 DEF Steady
  <1>6. Operations' /\ Parted' /\ Gathered' /\ Closing'
    BY <1>0, <1>5, UserMoves, MovesKeep
  <1> QED  BY <1>2, <1>3, <1>4, <1>6 DEF Base, Typed

\* The agents.
LEMMA CarriesKeepsBase ==
  ASSUME Base, NEW a \in Agents, Carries(a)
  PROVE  Base'
  <1> USE DEF table, board, history
  <1>0. /\ Typed /\ Parted /\ Gathered /\ Closing /\ a \in Jobs
        /\ reply[a].todo \in Seq(Action) /\ job[a] \in Job
    BY DEF Base, Jobs, Typed, Responses, Operations
  <1>1. UNCHANGED <<rows, used, cache, current, up, overlap, crossed, calls>>
    BY DEF Carries, Execute, ResolveComments, Settle, Review, Close
  <1>2. Tables' /\ Entries' /\ Flags'
    BY <1>0, <1>1 DEF Typed, Tables, Entries, Flags
  <1>3. /\ Remarks'
        /\ \A c \in Comments : /\ comment[c].status # "none" => comment'[c].status # "none"
                               /\ comment'[c].doc = comment[c].doc
                               /\ comment'[c].agent = comment[c].agent
                               /\ comment'[c].status = "open" => comment'[c] = comment[c]
    <2>1. CASE comment' = comment
      BY <1>0, <1>1, <2>1 DEF Typed, Remarks, Remark
    <2>2. CASE Settle(a) /\ comment' # comment
      <3>1. PICK gone \in SUBSET Comments :
              comment' = [c \in Comments |->
                            IF c \in job[a].comments \ gone
                            THEN [comment[c] EXCEPT !.status = "resolved"] ELSE comment[c]]
        <4>1. {c \in job[a].comments : comment[c].status = "deleted"} \subseteq Comments
          BY <1>0 DEF Job
        <4> QED  BY <2>2, <4>1 DEF Settle
      <3>0. \A c \in job[a].comments : comment[c].status # "none"
        BY <1>0, <2>2 DEF Gathered, Settle, At
      <3>2. ASSUME NEW c \in Comments
            PROVE  /\ comment'[c] \in Remark
                   /\ comment[c].status # "none" => comment'[c].status # "none"
                   /\ comment'[c].doc = comment[c].doc /\ comment'[c].agent = comment[c].agent
                   /\ comment'[c].status = "open" => comment'[c] = comment[c]
                   /\ comment'[c].status # "none" => comment[c].status # "none"
        BY <1>0, <3>0, <3>1 DEF Typed, Remarks, Remark
      <3> QED  BY <1>0, <1>1, <3>1, <3>2 DEF Typed, Remarks, Remark
    <2> QED  BY <2>1, <2>2 DEF Carries, Execute, ResolveComments, Review, Close
  <1>4. /\ Reviews' /\ Holdings'
        /\ \A t \in DOMAIN task : task'[t].comments = task[t].comments
    <2>0. task \in Seq(ReviewTask) /\ ReviewTask' = ReviewTask
      BY <1>0, <1>1 DEF Typed, Reviews, ReviewTask
    <2>1. /\ task' \in Seq(ReviewTask) /\ Len(task') = Len(task) /\ DOMAIN task' = DOMAIN task
          /\ \A t \in DOMAIN task : /\ task'[t].comments = task[t].comments
                                   /\ task'[t].agent = task[t].agent /\ task'[t].doc = task[t].doc
      <3>1. CASE task' = task
        BY <2>0, <3>1
      <3>2. CASE Close(a)
        <4>1. current[a] \in DOMAIN task
          BY <1>0, <2>0, <3>2 DEF Close, At, Closing, Typed, Holdings, NoTask
        <4> DEFINE t0 == [task[current[a]] EXCEPT !.done = TRUE]
        <4>2. task' = [task EXCEPT ![current[a]] = t0]
          BY <3>2 DEF Close
        <4>3. /\ t0 \in ReviewTask /\ t0.comments = task[current[a]].comments
              /\ t0.agent = task[current[a]].agent /\ t0.doc = task[current[a]].doc
          <5>1. task[current[a]] \in ReviewTask
            BY <2>0, <4>1
          <5> QED  BY <5>1 DEF ReviewTask
        <4> HIDE DEF t0
        <4> QED  BY <2>0, <4>1, <4>2, <4>3
      <3> QED  BY <3>1, <3>2 DEF Carries, Execute, ResolveComments, Settle, Review
    <2>2. Holdings'
      <3>1. \A b \in Agents : current[b] \in 0..Len(task) /\ (current[b] # NoTask =>
               current[b] \in DOMAIN task /\ task[current[b]].agent = b)
        BY <1>0, <2>0 DEF Typed, Holdings, NoTask
      <3> QED  BY <1>0, <1>1, <2>1, <3>1 DEF Typed, Holdings
    <2>3. Reviews'
      <3>1. ASSUME NEW t \in DOMAIN task', NEW c \in task'[t].comments
            PROVE  /\ comment'[c].agent = task'[t].agent /\ comment'[c].doc = task'[t].doc
                   /\ comment'[c].status # "none"
        <4>1. task[t] \in ReviewTask /\ t \in DOMAIN task
          BY <2>0, <2>1, <3>1
        <4>2. c \in Comments /\ c \in task[t].comments
          BY <2>1, <3>1, <4>1 DEF ReviewTask
        <4> QED  BY <1>0, <1>3, <2>1, <3>1, <4>1, <4>2 DEF Typed, Reviews
      <3> QED  BY <2>0, <2>1, <3>1 DEF Reviews
    <2> QED  BY <2>1, <2>2, <2>3
  <1>5. Responses' /\ \A b \in Agents : reply[b] = NoReply => reply'[b] = NoReply
    <2>1. CASE reply' = reply
      BY <1>0, <1>1, <2>1 DEF Typed, Responses
    <2>2. ASSUME NEW s, Begins(a, s), reply[a].todo # <<>>
          PROVE  Responses' /\ \A b \in Agents : reply[b] = NoReply => reply'[b] = NoReply
      <3>1. reply' = [reply EXCEPT ![a].todo = Tail(@)]
        BY <2>2 DEF Begins
      <3>2. /\ Tail(reply[a].todo) \in Seq(Action)
            /\ \A i \in DOMAIN Tail(reply[a].todo) :
                 i + 1 \in DOMAIN reply[a].todo /\ Tail(reply[a].todo)[i] = reply[a].todo[i + 1]
        BY <1>0, <2>2, TailIs
      <3>3. \A b \in Agents : reply'[b].todo = IF b = a THEN Tail(reply[a].todo) ELSE reply[b].todo
        BY <1>0, <3>1 DEF Typed, Responses
      <3>4. \A b \in Agents : \A i \in DOMAIN reply'[b].todo : reply'[b].todo[i].doc \in used' \cup {None}
        <4>1. ASSUME NEW b \in Agents, NEW i \in DOMAIN reply'[b].todo
              PROVE  reply'[b].todo[i].doc \in used' \cup {None}
          <5>1. CASE b = a
            BY <1>0, <1>1, <3>2, <3>3, <4>1, <5>1 DEF Typed, Responses
          <5>2. CASE b # a
            BY <1>0, <1>1, <3>3, <4>1, <5>2 DEF Typed, Responses
          <5> QED  BY <5>1, <5>2
        <4> QED  BY <4>1
      <3>5. reply' \in [Agents -> [given: BOOLEAN, todo: Seq(Action)]]
        BY <1>0, <3>1, <3>2 DEF Typed, Responses
      <3>6. ASSUME NEW b \in Agents, reply[b] = NoReply  PROVE reply'[b] = NoReply
        <4>1. b # a
          BY <2>2, <3>6 DEF NoReply
        <4> QED  BY <1>0, <3>1, <3>6, <4>1 DEF Typed, Responses
      <3> QED  BY <3>4, <3>5, <3>6 DEF Responses
    <2> QED  BY <2>1, <2>2 DEF Carries, Execute, ResolveComments, Settle, Review, Close
  <1>6. Steady
    BY <1>1, <1>3, <1>4, <1>5 DEF Steady
  <1>7. Operations' /\ Parted' /\ Gathered' /\ Closing'
    BY <1>0, <1>6, AgentMoves, MovesKeep
  <1> QED  BY <1>2, <1>3, <1>4, <1>5, <1>7 DEF Base, Typed

LEMMA TalksKeepsBase ==
  ASSUME Base, NEW a \in Agents, Talks(a)
  PROVE  Base'
  <1> USE DEF table, board, history
  <1>0. /\ Typed /\ Parted /\ Gathered /\ Closing /\ a \in Jobs
        /\ reply \in [Agents -> [given: BOOLEAN, todo: Seq(Action)]]
        /\ task \in Seq(ReviewTask)
    BY DEF Base, Jobs, Typed, Responses, Reviews
  <1>1. UNCHANGED <<rows, used, cache, comment, task, job, up, overlap, crossed>>
    BY DEF Talks, TakeUp, Respond, Refuse, Answered
  <1>2. Tables' /\ Entries' /\ Remarks' /\ Reviews' /\ Operations' /\ Gathered'
    <2>1. ReviewTask' = ReviewTask
      BY <1>1 DEF ReviewTask
    <2> QED  BY <1>0, <1>1, <2>1 DEF Typed, Tables, Entries, Remarks, Remark, Reviews, Operations,
                                     Gathered, At
  <1>3. Flags'
    <2>1. \/ calls' = calls
          \/ calls.replies < MaxReplies /\ calls' = [calls EXCEPT !.replies = @ + 1]
      BY DEF Talks, TakeUp, Respond, Refuse, Answered
    <2> QED  BY <1>0, <1>1, <2>1, DocumentsAssumption DEF Typed, Flags
  <1>4. Holdings' /\ Closing'
    <2>1. At(a, "none") /\ (\/ current' = current
                            \/ current' = [current EXCEPT ![a] = NoTask]
                            \/ \E t \in DOMAIN task : task[t].agent = a
                                                      /\ current' = [current EXCEPT ![a] = t])
      BY DEF Talks, TakeUp, Respond, Refuse, Answered
    <2>2. Holdings'
      <3>1. 0 \in 0..Len(task) /\ \A t \in DOMAIN task : t \in 0..Len(task)
        BY <1>0
      <3>2. current' \in [Agents -> 0..Len(task)]
        BY <1>0, <2>1, <3>1 DEF Typed, Holdings, NoTask
      <3>3. ASSUME NEW b \in Agents, current'[b] # NoTask  PROVE task[current'[b]].agent = b
        <4>1. CASE b = a
          BY <1>0, <2>1, <3>3, <4>1 DEF Typed, Holdings
        <4>2. CASE b # a
          BY <1>0, <2>1, <3>3, <4>2 DEF Typed, Holdings
        <4> QED  BY <4>1, <4>2
      <3> QED  BY <1>1, <3>2, <3>3 DEF Holdings, NoTask
    <2>3. \A b \in Agents \ {a} : current'[b] = current[b]
      BY <1>0, <2>1 DEF Typed, Holdings
    <2> QED  BY <1>0, <1>1, <2>1, <2>2, <2>3 DEF Closing, At, Open
  <1>5. Responses' /\ Parted'
    <2>1. CASE reply' = reply
      BY <1>0, <1>1, <2>1 DEF Typed, Responses, Parted, Whole, At, NoReply
    <2>2. CASE reply' = [reply EXCEPT ![a] = NoReply]
      <3>1. NoReply \in [given: BOOLEAN, todo: Seq(Action)] /\ DOMAIN NoReply.todo = {}
        BY DEF NoReply
      <3>2. reply' \in [Agents -> [given: BOOLEAN, todo: Seq(Action)]]
        BY <1>0, <2>2, <3>1
      <3>3. \A b \in Agents : reply'[b] = IF b = a THEN NoReply ELSE reply[b]
        BY <1>0, <2>2
      <3>4. Responses'
        BY <1>0, <1>1, <3>1, <3>2, <3>3 DEF Typed, Responses
      <3>5. NoReply' = NoReply
        BY DEF NoReply
      <3> QED  BY <1>0, <1>1, <3>3, <3>4, <3>5 DEF Parted, Whole, At
    <2>3. ASSUME NEW actions \in Seq(Action), up,
                 \A i \in DOMAIN actions : actions[i].doc \in used \cup {None},
                 NEW given \in BOOLEAN,
                 reply' = [reply EXCEPT ![a] = [given |-> given, todo |-> actions]]
          PROVE  Responses' /\ Parted'
      <3>1. reply' \in [Agents -> [given: BOOLEAN, todo: Seq(Action)]]
        BY <1>0, <2>3
      <3>2. \A b \in Agents : reply'[b].todo = IF b = a THEN actions ELSE reply[b].todo
        BY <1>0, <2>3
      <3>3. \A b \in Agents : \A i \in DOMAIN reply'[b].todo : reply'[b].todo[i].doc \in used \cup {None}
        BY <1>0, <2>3, <3>2 DEF Typed, Responses
      <3> QED  BY <1>0, <1>1, <2>3, <3>1, <3>3 DEF Responses, Parted, Whole, At
    <2>4. ASSUME NEW actions \in Replies, Respond(a, actions)  PROVE Responses' /\ Parted'
      <3>1. /\ actions \in Seq(Action) /\ up
            /\ reply' = [reply EXCEPT ![a] = [given |-> TRUE, todo |-> actions]]
        BY <2>4, DocumentsAssumption DEF Respond
      <3>2. Heard \subseteq used
        BY <1>0 DEF Heard, Typed, Entries
      <3>3. \A i \in DOMAIN actions : actions[i].doc \in used \cup {None}
        BY <2>4, <3>2 DEF Respond
      <3> QED  BY <2>3, <3>1, <3>3
    <2>5. CASE Refuse(a)
      <3> DEFINE left == Tail(reply[a].todo)
      <3>1. /\ reply[a].todo # <<>> /\ reply[a].todo \in Seq(Action)
            /\ reply[a] = [given |-> reply[a].given, todo |-> reply[a].todo]
            /\ reply[a].given \in BOOLEAN
        BY <1>0, <2>5 DEF Refuse
      <3>2. /\ left \in Seq(Action)
            /\ \A i \in DOMAIN left : i + 1 \in DOMAIN reply[a].todo /\ left[i] = reply[a].todo[i + 1]
        BY <3>1, TailIs
      <3>3. \A i \in DOMAIN left : left[i].doc \in used \cup {None}
        BY <1>0, <3>2 DEF Typed, Responses
      <3>4. reply' = [reply EXCEPT ![a] = [given |-> reply[a].given, todo |-> left]]
        <4>1. reply' = [reply EXCEPT ![a] = [reply[a] EXCEPT !.todo = left]]
          BY <2>5 DEF Refuse
        <4>2. \A x : [reply[a] EXCEPT !.todo = x] = [given |-> reply[a].given, todo |-> x]
          <5>1. reply[a] \in [given: BOOLEAN, todo: Seq(Action)]
            BY <1>0
          <5> QED  BY <5>1
        <4> QED  BY <4>1, <4>2
      <3>5. up
        BY <1>0, <3>1 DEF Parted, NoReply
      <3> HIDE DEF left
      <3> QED  BY <2>3, <3>1, <3>2, <3>3, <3>4, <3>5
    <2> QED  BY <2>1, <2>2, <2>4, <2>5 DEF Talks, TakeUp, Answered
  <1> QED  BY <1>2, <1>3, <1>4, <1>5 DEF Base, Typed

\* The comments.
LEMMA RemarkKeepsBase ==
  ASSUME Base, NEW c \in Comments,
         \/ \E d \in Docs, a \in Agents : AddComment(c, d, a)
         \/ \E status \in {"open", "resolved"} : UpdateComment(c, status)
         \/ DeleteComment(c)
  PROVE  Base'
  <1> USE DEF table, board, history
  <1>0. /\ Typed /\ Parted /\ Gathered /\ Closing
        /\ comment \in [Comments -> Remark] /\ task \in Seq(ReviewTask) /\ job \in [Jobs -> Job]
    BY DEF Base, Typed, Remarks, Reviews, Operations
  <1>1. UNCHANGED <<rows, used, cache, task, current, reply, up, overlap, crossed>>
    BY DEF AddComment, UpdateComment, DeleteComment
  <1>2. Tables' /\ Entries' /\ Responses'
    BY <1>0, <1>1 DEF Typed, Tables, Entries, Responses
  <1>3. Flags'
    <2>1. calls.requests < MaxRequests /\ calls' = [calls EXCEPT !.requests = @ + 1]
      BY DEF AddComment, UpdateComment, DeleteComment, Arrives
    <2> QED  BY <1>0, <1>1, <2>1, DocumentsAssumption DEF Typed, Flags
  \* Whichever it is, another comment stays, and this one is made or stays about
  \* the same.
  <1>4. /\ comment' \in [Comments -> Remark]
        /\ \A x \in Comments \ {c} : comment'[x] = comment[x]
        /\ comment'[c].status # "none" /\ comment'[c].doc \in used
        /\ comment[c].status # "none" =>
             comment'[c].doc = comment[c].doc /\ comment'[c].agent = comment[c].agent
    <2>1. ASSUME NEW d \in Docs, NEW a \in Agents, AddComment(c, d, a)
          PROVE  <1>4!:
      <3> DEFINE new == [comment[c] EXCEPT !.status = "open", !.doc = d, !.agent = a]
      <3>1. d \in used
        BY <1>0, <2>1 DEF AddComment, Typed, Tables
      <3>2. new \in Remark /\ new.status = "open" /\ new.doc = d
        BY <1>0, <3>1 DEF Remark
      <3>3. comment' = [comment EXCEPT ![c] = new] /\ comment[c].status = "none"
        BY <2>1 DEF AddComment
      <3> HIDE DEF new
      <3> QED  BY <1>0, <3>1, <3>2, <3>3
    <2>2. ASSUME NEW status \in {"open", "resolved", "deleted"},
                 comment[c].status # "none", comment' = [comment EXCEPT ![c].status = status]
          PROVE  <1>4!:
      <3> DEFINE new == [comment[c] EXCEPT !.status = status]
      <3>1. comment[c] \in Remark /\ comment[c].doc \in used
        BY <1>0, <2>2 DEF Typed, Remarks
      <3>2. /\ new \in Remark /\ new.status = status /\ new.doc = comment[c].doc
            /\ new.agent = comment[c].agent
        BY <3>1 DEF Remark
      <3>3. comment' = [comment EXCEPT ![c] = new]
        BY <2>2
      <3> HIDE DEF new
      <3> QED  BY <1>0, <2>2, <3>1, <3>2, <3>3
    <2> QED  BY <2>1, <2>2 DEF UpdateComment, DeleteComment
  <1>5. Remarks'
    BY <1>0, <1>1, <1>4 DEF Typed, Remarks, Remark
  <1>6. Reviews' /\ Holdings'
    <2>1. ReviewTask' = ReviewTask /\ Remark' = Remark
      BY <1>1 DEF ReviewTask, Remark
    <2>2. ASSUME NEW t \in DOMAIN task, NEW x \in task[t].comments
          PROVE  /\ comment'[x].agent = task[t].agent /\ comment'[x].doc = task[t].doc
                 /\ comment'[x].status # "none"
      <3>1. task[t] \in ReviewTask
        BY <1>0
      <3>2. x \in Comments
        BY <2>2, <3>1 DEF ReviewTask
      <3> QED  BY <1>0, <1>4, <2>2, <3>2 DEF Typed, Reviews
    <2> QED  BY <1>0, <1>1, <2>1, <2>2 DEF Typed, Reviews, Holdings
  \* Of the operations only what was reopened changes.
  <1>7. /\ job' \in [Jobs -> Job]
        /\ \A j \in Jobs : /\ job'[j].at = job[j].at /\ job'[j].doc = job[j].doc
                           /\ job'[j].old = job[j].old /\ job'[j].comments = job[j].comments
                           /\ job'[j].version = job[j].version
                           /\ job[j].reopened \subseteq job'[j].reopened
    <2>1. CASE job' = job
      BY <1>0, <2>1
    <2>2. CASE job' = [j \in Jobs |-> [job[j] EXCEPT !.reopened = @ \cup {c}]]
      <3>1. \A j \in Jobs : [job[j] EXCEPT !.reopened = @ \cup {c}] \in Job
        BY <1>0 DEF Job
      <3> QED  BY <1>0, <2>2, <3>1 DEF Job
    <2> QED  BY <1>0, <2>1, <2>2 DEF AddComment, UpdateComment, DeleteComment
  <1>8. Operations' /\ Parted' /\ Gathered'
    <2>1. Operations'
      BY <1>0, <1>1, <1>7 DEF Typed, Operations, At, Job
    <2>2. Parted'
      BY <1>0, <1>1, <1>7 DEF Parted, At, Whole, NoReply
    <2>3. \A j \in Jobs : \A x \in job[j].comments : x \in Comments
      BY <1>0 DEF Job
    <2> QED  BY <1>0, <1>4, <1>7, <2>1, <2>2, <2>3 DEF Gathered
  <1>9. Closing'
    <2> SUFFICES ASSUME NEW a \in Agents
                 PROVE  /\ job'[a].at \in {"review", "close"} => current[a] # NoTask
                        /\ job'[a].at = "close" =>
                             \A x \in task[current[a]].comments \cap Open(job[a].doc)' :
                               x \in job'[a].reopened
      BY <1>1 DEF Closing, At
    <2>0. a \in Jobs
      BY DEF Jobs
    <2>1. job'[a].at \in {"review", "close"} => current[a] # NoTask
      BY <1>0, <1>7, <2>0 DEF Closing, At
    <2>2. ASSUME job'[a].at = "close", NEW x \in task[current[a]].comments,
                 x \in Comments, comment'[x].doc = job'[a].doc, comment'[x].status = "open"
          PROVE  x \in job'[a].reopened
      <3>1. current[a] \in DOMAIN task
        BY <1>0, <2>1, <2>2 DEF Typed, Holdings, Reviews, NoTask
      <3>2. comment[x].status # "none"
        BY <1>0, <2>2, <3>1 DEF Typed, Reviews
      <3>3. comment[x].doc = job[a].doc
        BY <1>4, <1>7, <2>0, <2>2, <3>2
      <3>4. CASE comment[x].status = "open"
        <4>1. x \in Open(job[a].doc)
          BY <2>2, <3>3, <3>4 DEF Open
        <4> QED  BY <1>0, <1>7, <2>0, <2>2, <4>1 DEF Closing, At
      <3>5. CASE comment[x].status # "open"
        <4>1. x = c
          BY <1>4, <2>2, <3>5
        <4>2. UpdateComment(c, "open")
          <5>1. /\ ~\E d \in Docs, b \in Agents : AddComment(c, d, b)
                /\ ~DeleteComment(c)
            BY <1>0, <2>2, <3>2, <4>1 DEF AddComment, DeleteComment, Remark
          <5>2. PICK status \in {"open", "resolved"} : UpdateComment(c, status)
            BY <5>1
          <5>3. comment'[c].status = status
            BY <1>0, <5>2 DEF UpdateComment, Remark
          <5> QED  BY <2>2, <4>1, <5>2, <5>3
        <4>3. job'[a].reopened = job[a].reopened \cup {c}
          BY <1>0, <2>0, <4>2 DEF UpdateComment, Job
        <4> QED  BY <4>1, <4>3
      <3> QED  BY <3>4, <3>5
    <2> QED  BY <2>1, <2>2 DEF Open
  <1> QED  BY <1>2, <1>3, <1>5, <1>6, <1>8, <1>9 DEF Base, Typed

\* A stop and a start.
LEMMA StopKeepsBase ==
  ASSUME Base, NEW crash \in BOOLEAN, Stop(crash)
  PROVE  Base'
  <1> USE DEF table, board, history
  <1>0. /\ Typed /\ job \in [Jobs -> Job] /\ task \in Seq(ReviewTask)
        /\ current' = [a \in Agents |-> NoTask] /\ reply' = [a \in Agents |-> NoReply]
        /\ UNCHANGED <<rows, used, cache, comment, task, overlap, crossed>> /\ up' = FALSE
    BY DEF Base, Typed, Operations, Reviews, Stop
  <1>1. Tables' /\ Entries' /\ Remarks' /\ Flags'
    <2>1. calls.stops < MaxStops /\ calls' = [calls EXCEPT !.stops = @ + 1]
      BY DEF Stop
    <2>2. Flags'
      <3>1. calls' \in [requests: 0..MaxRequests, replies: 0..MaxReplies, stops: 0..MaxStops]
        BY <1>0, <2>1, DocumentsAssumption DEF Typed, Flags
      <3>2. up' \in BOOLEAN /\ crossed' \in BOOLEAN
        BY <1>0 DEF Typed, Flags
      <3> QED  BY <3>1, <3>2 DEF Flags
    <2> QED  BY <1>0, <2>2 DEF Typed, Tables, Entries, Remarks, Remark
  <1>2. Reviews' /\ Holdings' /\ Responses'
    <2>1. ReviewTask' = ReviewTask /\ 0 \in 0..Len(task)
      BY <1>0 DEF ReviewTask
    <2>2. Reviews'
      BY <1>0, <2>1 DEF Typed, Reviews
    <2>3. Holdings'
      BY <1>0, <2>1 DEF Holdings, NoTask
    <2>4. NoReply \in [given: BOOLEAN, todo: Seq(Action)] /\ DOMAIN NoReply.todo = {}
      BY DEF NoReply
    <2> QED  BY <1>0, <2>2, <2>3, <2>4 DEF Responses
  <1>3. /\ job' \in [Jobs -> Job]
        /\ \A j \in Jobs :
             \/ job'[j] = NoJob
             \/ /\ j \in Requests /\ j \notin Agents /\ job[j].at # "none"
                /\ job'[j] \in Job /\ job'[j].old = TRUE
                /\ job'[j].at = job[j].at /\ job'[j].doc = job[j].doc
                /\ job'[j].comments = job[j].comments /\ job'[j].version = job[j].version
    <2>1. NoJob \in Job
      BY DEF NoJob, Job, Stages
    <2>2. \A j \in Jobs : LET o == [job[j] EXCEPT !.old = TRUE] IN
            /\ o \in Job /\ o.old = TRUE /\ o.at = job[j].at /\ o.doc = job[j].doc
            /\ o.comments = job[j].comments /\ o.version = job[j].version
      BY <1>0 DEF Job
    <2>3. job' = [j \in Jobs |-> IF crash \/ j \in Agents \/ At(j, "none") THEN NoJob
                                 ELSE [job[j] EXCEPT !.old = TRUE]]
      BY DEF Stop
    <2> QED  BY <2>1, <2>2, <2>3 DEF Jobs, At
  <1>4. NoJob.at = "none" /\ NoJob.doc = None /\ NoJob.old = FALSE
    BY DEF NoJob
  <1>5. Operations'
    BY <1>0, <1>3, <1>4 DEF Typed, Operations, At
  <1>6. Parted'
    BY <1>0, <1>3, <1>4 DEF Parted, At, Whole
  <1>7. Gathered'
    BY <1>0, <1>3, <1>4 DEF Base, Gathered
  <1>8. Closing'
    BY <1>3, <1>4, DocumentsAssumption DEF Closing, At, Jobs
  <1> QED  BY <1>1, <1>2, <1>5, <1>6, <1>7, <1>8 DEF Base, Typed

LEMMA StartKeepsBase ==
  ASSUME Base, Start
  PROVE  Base'
  <1> USE DEF table, board, history
  <1>0. /\ Typed /\ Parted /\ Gathered /\ Closing
        /\ UNCHANGED <<rows, used, comment, task, current, reply, job, calls, overlap>>
        /\ up' = TRUE /\ cache' = rows /\ ~up
        /\ crossed' = (crossed \/ \E r \in Requests : job[r].old)
    BY DEF Base, Start
  <1>1. Tables' /\ Entries' /\ Remarks' /\ Responses' /\ Holdings' /\ Operations'
    BY <1>0 DEF Typed, Tables, Entries, Remarks, Remark, Responses, Holdings, Operations, At
  <1>2. Reviews'
    <2>1. ReviewTask' = ReviewTask
      BY <1>0 DEF ReviewTask
    <2> QED  BY <1>0, <2>1 DEF Typed, Reviews
  <1>3. Flags' /\ (~crossed' => ~crossed /\ \A r \in Requests : ~job[r].old)
    BY <1>0 DEF Typed, Flags
  <1>4. Parted'
    BY <1>0, <1>3 DEF Parted, At, Whole
  <1>5. Gathered' /\ Closing'
    BY <1>0 DEF Gathered, Closing, At, Open
  <1> QED  BY <1>1, <1>2, <1>3, <1>4, <1>5 DEF Base, Typed

\* A step is one of these.
LEMMA Steps ==
  ASSUME [Next]_vars
  PROVE  \/ \E j \in Jobs : Operation(j)
         \/ \E r \in Requests : User(r)
         \/ \E a \in Agents : Carries(a) \/ Talks(a)
         \/ \E c \in Comments :
              \/ \E d \in Docs, a \in Agents : AddComment(c, d, a)
              \/ \E status \in {"open", "resolved"} : UpdateComment(c, status)
              \/ DeleteComment(c)
         \/ \E crash \in BOOLEAN : Stop(crash)
         \/ Start
         \/ UNCHANGED vars
  BY DEF Next, Agent, Carries, Talks

LEMMA IdleKeepsBase ==
  ASSUME Base, UNCHANGED vars
  PROVE  Base'
  <1>1. ReviewTask' = ReviewTask /\ Remark' = Remark
    BY DEF vars, table, ReviewTask, Remark
  <1> QED  BY <1>1 DEF vars, table, board, history, Base, Typed, Tables, Entries, Remarks, Reviews,
              Holdings, Responses, Operations, Flags, Parted, Gathered, Closing, At, Whole, Open,
              NoReply

LEMMA BaseStep ==
  ASSUME Base, [Next]_vars
  PROVE  Base'
  BY Steps, OperationKeepsBase, UserKeepsBase, CarriesKeepsBase, TalksKeepsBase, RemarkKeepsBase,
     StopKeepsBase, StartKeepsBase, IdleKeepsBase

LEMMA BaseInit ==
  ASSUME Init
  PROVE  Base
  <1> USE DocumentsAssumption DEF Init, NoTask
  <1>1. NoJob \in Job /\ NoJob.at = "none" /\ NoJob.doc = None /\ NoJob.old = FALSE
    BY DEF NoJob, Job, Stages
  <1>2. NoReply \in [given: BOOLEAN, todo: Seq(Action)] /\ DOMAIN NoReply.todo = {}
    BY DEF NoReply
  <1>3. Tables /\ Entries /\ Flags
    <2>1. /\ 0 \in 0..MaxRequests /\ 0 \in 0..MaxReplies /\ 0 \in 0..MaxStops
      OBVIOUS
    <2> QED  BY <2>1 DEF Tables, Entries, Flags
  <1>4. Remarks /\ Reviews /\ Holdings
    BY DEF Remarks, Remark, Reviews, Holdings
  <1>5. Responses /\ Operations
    BY <1>1, <1>2 DEF Responses, Operations, At
  <1>6. Parted /\ Gathered /\ Closing
    BY <1>1 DEF Parted, Gathered, Closing, At, Whole, Jobs
  <1> QED  BY <1>3, <1>4, <1>5, <1>6 DEF Base, Typed

-----------------------------------------------------------------------------
(* Every step keeps Index. *)

\* Steps that leave the tables, and the operations that are upon them: one may
\* begin, if it is not upon a document that is about to be entered.
LEMMA AsideKeepsIndex ==
  ASSUME Index, UNCHANGED <<rows, used, cache, overlap, up, crossed>>,
         \A k \in Jobs : Upon(k) =>
           job'[k].at = job[k].at /\ job'[k].doc = job[k].doc /\ job'[k].version = job[k].version,
         \A k \in Jobs : Upon(k)' /\ ~Upon(k) =>
           /\ job'[k].at \in {"commit", "delete"}
           /\ Whole => \A i \in Jobs : At(i, "append") => job[i].doc # job'[k].doc,
         Whole => \A a \in Agents : \A i \in DOMAIN reply'[a].todo :
           \A k \in Jobs : At(k, "append") => reply'[a].todo[i].doc # job[k].doc
  PROVE  Index'
  <1>0. Entering /\ Entered /\ Struck /\ Gone /\ Replaced /\ Fetched /\ Whole' = Whole
    BY DEF Index, Whole
  <1>1. \A k \in Jobs : \A s \in {"append", "refresh", "enlist", "unlist"} :
          (job'[k].at = s <=> job[k].at = s) /\ (job[k].at = s =>
             job'[k].doc = job[k].doc /\ job'[k].version = job[k].version)
    BY DEF Upon
  <1>2. Entering'
    <2> SUFFICES ASSUME Whole, NEW j \in Jobs, job'[j].at = "append"
                 PROVE  /\ job'[j].doc \in DOMAIN rows \ DOMAIN cache /\ rows[job'[j].doc] = 0
                        /\ \A k \in Jobs \ {j} : Upon(k)' => job'[k].doc # job'[j].doc
                        /\ \A a \in Agents : \A i \in DOMAIN reply'[a].todo :
                             reply'[a].todo[i].doc # job'[j].doc
      BY <1>0 DEF Entering, At
    <2>1. job[j].at = "append" /\ job'[j].doc = job[j].doc
      BY <1>1
    <2>2. ASSUME NEW k \in Jobs \ {j}, Upon(k)'  PROVE job'[k].doc # job'[j].doc
      <3>1. CASE Upon(k)
        BY <1>0, <2>1, <3>1 DEF Entering, At
      <3>2. CASE ~Upon(k)
        BY <2>1, <2>2, <3>2 DEF At
      <3> QED  BY <3>1, <3>2
    <2> QED  BY <1>0, <2>1, <2>2 DEF Entering, At
  <1>3. Entered'
    BY <1>0, <1>1 DEF Entered, At
  <1>4. Struck' /\ Gone'
    BY <1>0, <1>1 DEF Struck, Gone, At
  <1>5. Replaced'
    BY <1>0, <1>1 DEF Replaced, At
  <1>6. Fetched'
    BY <1>0, <1>1 DEF Fetched, At
  <1> QED  BY <1>2, <1>3, <1>4, <1>5, <1>6 DEF Index

\* The operations themselves, one by one.
LEMMA InsertKeepsIndex ==
  ASSUME Base, Index, NEW j \in Jobs, Insert(j)
  PROVE  Index'
  <1> USE DEF table, board, history
  <1>0. /\ Entering /\ Entered /\ Struck /\ Gone /\ Replaced /\ Fetched /\ job \in [Jobs -> Job]
        /\ DOMAIN rows \subseteq used /\ DOMAIN cache \subseteq used /\ None \notin Docs
        /\ \A k \in Jobs : job[k].doc \in used \cup {None}
        /\ \A a \in Agents : \A i \in DOMAIN reply[a].todo : reply[a].todo[i].doc \in used \cup {None}
    BY DocumentsAssumption DEF Base, Typed, Tables, Entries, Operations, Responses, Index
  <1>1. UNCHANGED <<cache, reply, overlap, up, crossed>> /\ job[j].at = "insert"
    BY DEF Insert, At
  <1>2. PICK d \in Docs \ used :
          /\ rows' = With(rows, d) /\ used' = used \cup {d}
          /\ job' = [job EXCEPT ![j].at = "append", ![j].doc = d]
    BY DEF Insert
  <1>3. /\ job'[j].at = "append" /\ job'[j].doc = d
        /\ \A k \in Jobs \ {j} : job'[k] = job[k]
    BY <1>0, <1>2 DEF Job
  <1>4. /\ DOMAIN rows' = DOMAIN rows \cup {d} /\ d \notin DOMAIN rows /\ d \notin DOMAIN cache
        /\ rows'[d] = 0 /\ \A x \in DOMAIN rows : rows'[x] = rows[x] /\ x # d
    BY <1>0, <1>2 DEF With
  <1>5. /\ \A k \in Jobs : job[k].doc # d
        /\ \A a \in Agents : \A i \in DOMAIN reply[a].todo : reply[a].todo[i].doc # d
    BY <1>0
  <1>6. Whole' = Whole
    BY <1>1 DEF Whole
  <1>7. Entering'
    <2> SUFFICES ASSUME Whole, NEW i \in Jobs, job'[i].at = "append"
                 PROVE  /\ job'[i].doc \in DOMAIN rows' \ DOMAIN cache /\ rows'[job'[i].doc] = 0
                        /\ \A k \in Jobs \ {i} : Upon(k)' => job'[k].doc # job'[i].doc
                        /\ \A a \in Agents : \A x \in DOMAIN reply[a].todo :
                             reply[a].todo[x].doc # job'[i].doc
      BY <1>1, <1>6 DEF Entering, At
    <2>1. CASE i = j
      BY <1>3, <1>4, <1>5, <2>1
    <2>2. CASE i # j
      BY <1>0, <1>3, <1>4, <1>5, <2>2 DEF Entering, At, Upon
    <2> QED  BY <2>1, <2>2
  <1>8. Entered'
    BY <1>0, <1>1, <1>3, <1>4, <1>6 DEF Entered, At
  <1>9. Struck'
    BY <1>0, <1>1, <1>3, <1>4, <1>6 DEF Struck, At
  <1>10. Gone'
    BY <1>0, <1>1, <1>2, <1>3, <1>4, <1>5 DEF Gone, At
  <1>11. Replaced'
    BY <1>0, <1>1, <1>3, <1>4, <1>6 DEF Replaced, At
  <1>12. Fetched'
    BY <1>0, <1>1, <1>3, <1>4, <1>5 DEF Fetched, At
  <1> QED  BY <1>7, <1>8, <1>9, <1>10, <1>11, <1>12 DEF Index

\* What the others leave alone, and where they take the operation.
LEMMA OthersStay ==
  ASSUME Base, NEW j \in Jobs, NEW n, job' = [job EXCEPT ![j] = n]
  PROVE  job'[j] = n /\ \A k \in Jobs \ {j} : job'[k] = job[k]
  BY DEF Base, Typed, Operations

LEMMA EnterKeepsIndex ==
  ASSUME Base, Index, NEW j \in Jobs, Enter(j)
  PROVE  Index'
  <1> USE DEF table, board, history
  <1>0. /\ Entering /\ Entered /\ Struck /\ Gone /\ Replaced /\ Fetched
        /\ UNCHANGED <<rows, used, reply, overlap, up, crossed>> /\ job[j].at = "append"
        /\ Whole' = Whole /\ NoJob.at = "none"
    BY DEF Index, Enter, At, Whole, NoJob
  <1>1. job'[j] = NoJob /\ \A k \in Jobs \ {j} : job'[k] = job[k]
    BY OthersStay DEF Enter, Ends
  <1>2. Gone' /\ Fetched'
    BY <1>0, <1>1 DEF Gone, Fetched, At
  <1>3. CASE ~Whole
    BY <1>0, <1>2, <1>3 DEF Index, Entering, Entered, Struck, Replaced
  <1>4. CASE Whole
    <2> DEFINE d == job[j].doc
    <2>1. /\ d \in DOMAIN rows \ DOMAIN cache /\ rows[d] = 0
          /\ \A k \in Jobs \ {j} : Upon(k) => job[k].doc # d
      BY <1>0, <1>4 DEF Entering, At
    <2>2. cache' = With(cache, d)
      BY <1>4 DEF Base, Parted, Enter
    <2>3. /\ DOMAIN cache' = DOMAIN cache \cup {d}
          /\ cache'[d] = 0 /\ \A x \in DOMAIN cache : cache'[x] = cache[x]
      BY <2>1, <2>2 DEF With
    <2>4. \A i \in Jobs : job'[i].at = "append" => i # j /\ job[i].at = "append" /\ job[i].doc # d
      BY <1>0, <1>1, <2>1 DEF Upon
    <2> HIDE DEF d
    <2>5. Entering'
      BY <1>0, <1>1, <1>4, <2>3, <2>4 DEF Entering, At, Upon
    <2>6. Entered'
      <3>0. d = job[j].doc
        BY DEF d
      <3> SUFFICES ASSUME NEW x \in DOMAIN rows \ DOMAIN cache'
                   PROVE  \E k \in Jobs : job'[k].at = "append" /\ job'[k].doc = x
        BY <1>0 DEF Entered, At
      <3>1. PICK k \in Jobs : job[k].at = "append" /\ job[k].doc = x
        BY <1>0, <1>4, <2>3 DEF Entered, At
      <3> QED  BY <1>1, <2>3, <3>0, <3>1
    <2>7. Struck'
      BY <1>0, <1>1, <1>4, <2>1, <2>3 DEF Struck, At
    <2>8. Replaced'
      BY <1>0, <1>1, <1>4, <2>1, <2>3 DEF Replaced, At
    <2> QED  BY <1>2, <2>5, <2>6, <2>7, <2>8 DEF Index
  <1> QED  BY <1>3, <1>4

LEMMA CommitKeepsIndex ==
  ASSUME Base, Index, NEW j \in Jobs, Commit(j)
  PROVE  Index'
  <1> USE DEF table, board, history
  <1>0. /\ Entering /\ Entered /\ Struck /\ Gone /\ Replaced /\ Fetched
        /\ UNCHANGED <<used, cache, reply, up, crossed>> /\ job[j].at = "commit" /\ job[j] \in Job
        /\ Whole' = Whole /\ NoJob.at = "none"
    BY DEF Base, Typed, Operations, Index, Commit, At, Whole, NoJob
  <1> DEFINE d == job[j].doc
  <1>1. CASE d \notin DOMAIN rows
    <2>1. job'[j] = NoJob /\ (\A k \in Jobs \ {j} : job'[k] = job[k]) /\ UNCHANGED <<rows, overlap>>
      BY <1>1, OthersStay DEF Commit, Ends
    <2>2. Entering' /\ Entered' /\ Struck'
      BY <1>0, <2>1 DEF Entering, Entered, Struck, At, Upon
    <2>3. Gone' /\ Replaced' /\ Fetched'
      BY <1>0, <2>1 DEF Gone, Replaced, Fetched, At
    <2> QED  BY <2>2, <2>3 DEF Index
  <1>2. CASE d \in DOMAIN rows
    <2>1. /\ rows' = [rows EXCEPT ![d] = @ + 1]
          /\ job' = [job EXCEPT ![j] = [job[j] EXCEPT !.at = "refresh"]]
          /\ overlap' = IF \E k \in Jobs \ {j} : job[k].doc = d /\ job[k].at \in {"refresh", "enlist"}
                        THEN overlap \cup {d} ELSE overlap
      BY <1>2 DEF Commit, Goes
    <2>2. /\ job'[j].at = "refresh" /\ job'[j].doc = d
          /\ \A k \in Jobs \ {j} : job'[k] = job[k]
      <3> DEFINE n == [job[j] EXCEPT !.at = "refresh"]
      <3>1. n.at = "refresh" /\ n.doc = d
        BY <1>0 DEF Job
      <3>2. job' = [job EXCEPT ![j] = n]
        BY <2>1
      <3> HIDE DEF n
      <3> QED  BY <3>1, <3>2, OthersStay
    <2>3. DOMAIN rows' = DOMAIN rows /\ \A x \in DOMAIN rows \ {d} : rows'[x] = rows[x]
      BY <1>2, <2>1
    <2>4. /\ overlap \subseteq overlap'
          /\ d \notin overlap' =>
               \A k \in Jobs \ {j} : job[k].doc = d => job[k].at \notin {"refresh", "enlist"}
      BY <2>1
    <2>5. Whole => \A k \in Jobs : job[k].at = "append" => job[k].doc # d
      BY <1>0 DEF Entering, At, Upon
    <2> HIDE DEF d
    <2>6. Entering'
      <3>1. d = job[j].doc
        BY DEF d
      <3> SUFFICES ASSUME Whole, NEW i \in Jobs, job'[i].at = "append"
                   PROVE  /\ job'[i].doc \in DOMAIN rows \ DOMAIN cache /\ rows'[job'[i].doc] = 0
                          /\ \A k \in Jobs \ {i} : Upon(k)' => job'[k].doc # job'[i].doc
                          /\ \A a \in Agents : \A x \in DOMAIN reply[a].todo :
                               reply[a].todo[x].doc # job'[i].doc
        BY <1>0, <2>3 DEF Entering, At
      <3>2. i # j /\ job'[i] = job[i] /\ job[i].at = "append" /\ job[i].doc # d
        BY <2>2, <2>5
      <3> QED  BY <1>0, <2>2, <2>3, <3>2 DEF Entering, At, Upon
    <2>7. Entered' /\ Struck' /\ Gone'
      BY <1>0, <2>2, <2>3 DEF Entered, Struck, Gone, At
    <2>8. Replaced'
      BY <1>0, <2>2, <2>3, <2>4 DEF Replaced, At
    <2>9. Fetched'
      BY <1>0, <2>2, <2>3, <2>4 DEF Fetched, At
    <2> QED  BY <2>6, <2>7, <2>8, <2>9 DEF Index
  <1> QED  BY <1>1, <1>2

LEMMA RefreshKeepsIndex ==
  ASSUME Base, Index, NEW j \in Jobs, Refresh(j)
  PROVE  Index'
  <1> USE DEF table, board, history
  <1>0. /\ Entering /\ Entered /\ Struck /\ Gone /\ Replaced /\ Fetched
        /\ UNCHANGED <<rows, used, cache, reply, up, overlap, crossed>>
        /\ job[j].at = "refresh" /\ job[j] \in Job
        /\ Whole' = Whole /\ NoJob.at = "none"
    BY DEF Base, Typed, Operations, Index, Refresh, At, Whole, NoJob
  <1> DEFINE d == job[j].doc
  <1>1. /\ \A k \in Jobs \ {j} : job'[k] = job[k]
        /\ \/ d \notin DOMAIN rows /\ job'[j].at = "none"
           \/ /\ job'[j].at = "enlist" /\ job'[j].doc = d /\ job'[j].version = rows[d]
              /\ d \in DOMAIN rows
    <2>1. CASE d \in DOMAIN rows
      <3> DEFINE n == [job[j] EXCEPT !.at = "enlist", !.version = rows[d]]
      <3>1. n.at = "enlist" /\ n.doc = d /\ n.version = rows[d]
        BY <1>0 DEF Job
      <3>2. job' = [job EXCEPT ![j] = n]
        BY <2>1 DEF Refresh
      <3> HIDE DEF n
      <3> QED  BY <2>1, <3>1, <3>2, OthersStay
    <2>2. CASE d \notin DOMAIN rows
      BY <1>0, <2>2, OthersStay DEF Refresh, Ends
    <2> QED  BY <2>1, <2>2
  <1>2. Entering'
    BY <1>0, <1>1 DEF Entering, At, Upon
  <1>3. Entered' /\ Struck' /\ Gone'
    BY <1>0, <1>1 DEF Entered, Struck, Gone, At
  <1>4. Replaced'
    BY <1>0, <1>1 DEF Replaced, At
  <1>5. Fetched'
    BY <1>0, <1>1 DEF Fetched, At
  <1> QED  BY <1>2, <1>3, <1>4, <1>5 DEF Index

LEMMA EnlistKeepsIndex ==
  ASSUME Base, Index, NEW j \in Jobs, Enlist(j)
  PROVE  Index'
  <1> USE DEF table, board, history
  <1>0. /\ Entering /\ Entered /\ Struck /\ Gone /\ Replaced /\ Fetched
        /\ UNCHANGED <<rows, used, reply, up, overlap, crossed>> /\ job[j].at = "enlist"
        /\ Whole' = Whole /\ NoJob.at = "none"
    BY DEF Index, Enlist, At, Whole, NoJob
  <1>1. job'[j] = NoJob /\ \A k \in Jobs \ {j} : job'[k] = job[k]
    BY OthersStay DEF Enlist, Ends
  <1>2. /\ DOMAIN cache' = DOMAIN cache
        /\ \A x \in DOMAIN cache : cache'[x] # cache[x] => x = job[j].doc
        /\ Whole /\ job[j].doc \in DOMAIN cache => cache'[job[j].doc] = job[j].version
    BY DEF Enlist, Base, Parted
  <1>3. Entering'
    BY <1>0, <1>1, <1>2 DEF Entering, At, Upon
  <1>4. Entered' /\ Struck' /\ Gone' /\ Fetched'
    BY <1>0, <1>1, <1>2 DEF Entered, Struck, Gone, Fetched, At
  <1>5. Replaced'
    <2> SUFFICES ASSUME Whole, NEW d \in (DOMAIN rows \cap DOMAIN cache) \ overlap
                 PROVE  \/ cache'[d] = rows[d]
                        \/ \E k \in Jobs : job'[k].at \in {"refresh", "enlist"} /\ job'[k].doc = d
      BY <1>0, <1>2 DEF Replaced
    <2>1. CASE job[j].doc = d
      BY <1>0, <1>2, <2>1 DEF Fetched, At
    <2>2. CASE job[j].doc # d
      BY <1>0, <1>1, <1>2, <2>2 DEF Replaced
    <2> QED  BY <2>1, <2>2
  <1> QED  BY <1>3, <1>4, <1>5 DEF Index

LEMMA DeleteRowKeepsIndex ==
  ASSUME Base, Index, NEW j \in Jobs, DeleteRow(j)
  PROVE  Index'
  <1> USE DEF table, board, history
  <1>0. /\ Entering /\ Entered /\ Struck /\ Gone /\ Replaced /\ Fetched
        /\ UNCHANGED <<used, cache, reply, up, overlap, crossed>> /\ job[j].at = "delete"
        /\ job[j] \in Job /\ DOMAIN rows \subseteq used
        /\ Whole' = Whole /\ NoJob.at = "none"
    BY DEF Base, Typed, Tables, Operations, Index, DeleteRow, At, Whole, NoJob
  <1> DEFINE d == job[j].doc
  <1>1. CASE Ends(j) /\ UNCHANGED rows
    <2>1. job'[j] = NoJob /\ \A k \in Jobs \ {j} : job'[k] = job[k]
      BY <1>1, OthersStay DEF Ends
    <2>2. Entering' /\ Entered' /\ Struck'
      BY <1>0, <1>1, <2>1 DEF Entering, Entered, Struck, At, Upon
    <2>3. Gone' /\ Replaced' /\ Fetched'
      BY <1>0, <1>1, <2>1 DEF Gone, Replaced, Fetched, At
    <2> QED  BY <2>2, <2>3 DEF Index
  <1>2. CASE d \in DOMAIN rows /\ rows' = Without(rows, d) /\ Goes(j, "unlist")
    <2>1. job' = [job EXCEPT ![j] = [job[j] EXCEPT !.at = "unlist"]]
      BY <1>2 DEF Goes
    <2>2. /\ job'[j].at = "unlist" /\ job'[j].doc = d
          /\ \A k \in Jobs \ {j} : job'[k] = job[k]
      <3> DEFINE n == [job[j] EXCEPT !.at = "unlist"]
      <3>1. n.at = "unlist" /\ n.doc = d
        BY <1>0 DEF Job
      <3>2. job' = [job EXCEPT ![j] = n]
        BY <2>1
      <3> HIDE DEF n
      <3> QED  BY <3>1, <3>2, OthersStay
    <2>3. DOMAIN rows' = DOMAIN rows \ {d} /\ \A x \in DOMAIN rows' : rows'[x] = rows[x]
      BY <1>2 DEF Without
    <2>4. Whole => \A k \in Jobs : job[k].at = "append" => job[k].doc # d
      BY <1>0 DEF Entering, At, Upon
    <2>5. d \in used
      BY <1>0, <1>2
    <2> HIDE DEF d
    <2>6. Entering'
      <3>1. d = job[j].doc
        BY DEF d
      <3> SUFFICES ASSUME Whole, NEW i \in Jobs, job'[i].at = "append"
                   PROVE  /\ job'[i].doc \in DOMAIN rows' \ DOMAIN cache /\ rows'[job'[i].doc] = 0
                          /\ \A k \in Jobs \ {i} : Upon(k)' => job'[k].doc # job'[i].doc
                          /\ \A a \in Agents : \A x \in DOMAIN reply[a].todo :
                               reply[a].todo[x].doc # job'[i].doc
        BY <1>0 DEF Entering, At
      <3>2. i # j /\ job'[i] = job[i] /\ job[i].at = "append" /\ job[i].doc # d
        BY <2>2, <2>4
      <3> QED  BY <1>0, <2>2, <2>3, <3>2 DEF Entering, At, Upon
    <2>7. Entered' /\ Struck'
      BY <1>0, <2>2, <2>3, <2>4 DEF Entered, Struck, At
    <2>8. Gone'
      BY <1>0, <2>2, <2>3, <2>5 DEF Gone, At
    <2>9. Replaced' /\ Fetched'
      BY <1>0, <2>2, <2>3 DEF Replaced, Fetched, At
    <2> QED  BY <2>6, <2>7, <2>8, <2>9 DEF Index
  <1> QED  BY <1>1, <1>2 DEF DeleteRow

LEMMA UnlistKeepsIndex ==
  ASSUME Base, Index, NEW j \in Jobs, Unlist(j)
  PROVE  Index'
  <1> USE DEF table, board, history
  <1>0. /\ Entering /\ Entered /\ Struck /\ Gone /\ Replaced /\ Fetched
        /\ UNCHANGED <<rows, used, reply, up, overlap, crossed>> /\ job[j].at = "unlist"
        /\ Whole' = Whole /\ NoJob.at = "none"
    BY DEF Index, Unlist, At, Whole, NoJob
  <1>1. job'[j] = NoJob /\ \A k \in Jobs \ {j} : job'[k] = job[k]
    BY OthersStay DEF Unlist, Ends
  <1> DEFINE d == job[j].doc
  <1>2. d \notin DOMAIN rows
    BY <1>0 DEF Gone, At
  <1>3. Whole => /\ DOMAIN cache' = DOMAIN cache \ {d}
                 /\ \A x \in DOMAIN cache' : cache'[x] = cache[x]
    BY DEF Unlist, Base, Parted, Without
  <1>4. Gone' /\ Fetched'
    BY <1>0, <1>1 DEF Gone, Fetched, At
  <1>5. Entering'
    BY <1>0, <1>1, <1>3 DEF Entering, At, Upon
  <1>6. Entered'
    BY <1>0, <1>1, <1>2, <1>3 DEF Entered, At
  <1>7. Struck'
    BY <1>0, <1>1, <1>3 DEF Struck, At
  <1>8. Replaced'
    BY <1>0, <1>1, <1>3 DEF Replaced, At
  <1> QED  BY <1>4, <1>5, <1>6, <1>7, <1>8 DEF Index

LEMMA OperationKeepsIndex ==
  ASSUME Base, Index, NEW j \in Jobs, Operation(j)
  PROVE  Index'
  BY InsertKeepsIndex, EnterKeepsIndex, CommitKeepsIndex, RefreshKeepsIndex, EnlistKeepsIndex,
     DeleteRowKeepsIndex, UnlistKeepsIndex DEF Operation

\* A request or an action may begin an operation, upon a document that is listed
\* or that the agent has heard of.
LEMMA OneBegins ==
  ASSUME Base, Index, UNCHANGED <<rows, used, cache, overlap, up, crossed>>,
         NEW j \in Jobs, ~Upon(j), \A k \in Jobs \ {j} : job'[k] = job[k],
         Upon(j)' => job'[j].at \in {"commit", "delete"},
         Upon(j)' /\ Whole =>
           \A i \in Jobs : At(i, "append") => job[i].doc # job'[j].doc,
         \A a \in Agents : \A i \in DOMAIN reply'[a].todo :
           \E x \in DOMAIN reply[a].todo : reply'[a].todo[i] = reply[a].todo[x]
  PROVE  Index'
  <1>1. \A k \in Jobs : Upon(k) =>
          job'[k].at = job[k].at /\ job'[k].doc = job[k].doc /\ job'[k].version = job[k].version
    OBVIOUS
  <1>2. \A k \in Jobs : Upon(k)' /\ ~Upon(k) => k = j
    BY DEF Upon
  <1>3. \A k \in Jobs : Upon(k)' /\ ~Upon(k) =>
          /\ job'[k].at \in {"commit", "delete"}
          /\ Whole => \A i \in Jobs : At(i, "append") => job[i].doc # job'[k].doc
    BY <1>2
  <1>4. Whole => \A a \in Agents : \A i \in DOMAIN reply'[a].todo :
          \A k \in Jobs : At(k, "append") => reply'[a].todo[i].doc # job[k].doc
    <2> SUFFICES ASSUME Whole, NEW a \in Agents, NEW i \in DOMAIN reply'[a].todo,
                        NEW k \in Jobs, At(k, "append")
                 PROVE  reply'[a].todo[i].doc # job[k].doc
      OBVIOUS
    <2>1. PICK x \in DOMAIN reply[a].todo : reply'[a].todo[i] = reply[a].todo[x]
      OBVIOUS
    <2> QED  BY <2>1 DEF Index, Entering
  <1> QED  BY <1>1, <1>3, <1>4, AsideKeepsIndex

LEMMA UserKeepsIndex ==
  ASSUME Base, Index, NEW r \in Requests, User(r)
  PROVE  Index'
  <1> USE DEF table, board, history
  <1>0. r \in Jobs /\ job[r] \in Job
    BY DEF Base, Typed, Operations, Jobs
  <1>1. /\ UNCHANGED <<rows, used, cache, reply, overlap, up, crossed>>
        /\ job[r].at \in {"none", "gather", "dispatch"}
    BY DEF User, Write, Remove, Dispatch, Gather, DispatchTask, At
  <1>2. PICK n : job' = [job EXCEPT ![r] = n]
    BY UserMoves DEF Base, Moves
  <1>3. job'[r] = n /\ \A k \in Jobs \ {r} : job'[k] = job[k]
    BY <1>0, <1>2, OthersStay
  <1>4. Upon(r)' => job'[r].at \in {"commit", "delete"} /\ job'[r].doc \in DOMAIN cache
    <2>1. ASSUME NEW d \in Docs, Write(r, "commit", d) \/ Remove(r, d)
          PROVE  job'[r].at \in {"commit", "delete"} /\ job'[r].doc \in DOMAIN cache
      <3>1. PICK s \in {"commit", "delete"} :
              d \in DOMAIN cache /\ job' = [job EXCEPT ![r].at = s, ![r].doc = d]
        BY <2>1 DEF Write, Remove
      <3>2. job'[r].at = s /\ job'[r].doc = d
        BY <1>0, <3>1 DEF Base, Typed, Operations, Job
      <3> QED  BY <3>1, <3>2
    <2>2. ASSUME NEW d \in Docs \cup {None}, Write(r, "insert", d) \/ Dispatch(r, d)
          PROVE  ~Upon(r)'
      <3>1. PICK s \in {"insert", "gather"} : job' = [job EXCEPT ![r].at = s, ![r].doc = d]
        BY <2>2 DEF Write, Dispatch
      <3>2. job'[r].at = s
        BY <1>0, <3>1 DEF Base, Typed, Operations, Job
      <3> QED  BY <3>2 DEF Upon
    <2>3. ASSUME Gather(r)  PROVE ~Upon(r)'
      <3>1. Ends(r) \/ job' = [job EXCEPT ![r].at = "dispatch", ![r].comments = Open(job[r].doc)]
        BY <2>3 DEF Gather
      <3>2. job'[r].at \in {"none", "dispatch"}
        BY <1>0, <3>1 DEF Base, Typed, Operations, Job, Ends, NoJob
      <3> QED  BY <3>2 DEF Upon
    <2>4. ASSUME NEW a \in Agents, DispatchTask(r, a)  PROVE ~Upon(r)'
      <3>1. /\ job[r].at = "dispatch"
            /\ Ends(r) \/ \E left : job' = [job EXCEPT ![r].comments = left]
        BY <2>4 DEF DispatchTask, At
      <3>2. job'[r].at \in {"none", "dispatch"}
        BY <1>0, <3>1 DEF Base, Typed, Operations, Job, Ends, NoJob
      <3> QED  BY <3>2 DEF Upon
    <2> QED  BY <2>1, <2>2, <2>3, <2>4 DEF User
  <1>5. Upon(r)' /\ Whole => \A i \in Jobs : At(i, "append") => job[i].doc # job'[r].doc
    BY <1>4 DEF Index, Entering
  <1>6. ~Upon(r)
    BY <1>1 DEF Upon
  <1> QED  BY <1>0, <1>1, <1>3, <1>4, <1>5, <1>6, OneBegins

LEMMA CarriesKeepsIndex ==
  ASSUME Base, Index, NEW a \in Agents, Carries(a)
  PROVE  Index'
  <1> USE DEF table, board, history
  <1>0. /\ a \in Jobs /\ job[a] \in Job
        /\ reply \in [Agents -> [given: BOOLEAN, todo: Seq(Action)]]
    BY DEF Base, Typed, Operations, Responses, Jobs
  <1>1. /\ UNCHANGED <<rows, used, cache, overlap, up, crossed>>
        /\ job[a].at \in {"none", "resolve", "settle", "review", "close"}
    BY DEF Carries, Execute, ResolveComments, Settle, Review, Close, At
  <1>2. PICK n : job' = [job EXCEPT ![a] = n]
    BY AgentMoves DEF Base, Moves
  <1>3. job'[a] = n /\ \A k \in Jobs \ {a} : job'[k] = job[k]
    BY <1>0, <1>2, OthersStay
  <1>4. ~Upon(a)
    BY <1>1 DEF Upon
  <1>5. CASE Execute(a)
    <2>1. /\ reply[a].todo # <<>> /\ reply[a].todo \in Seq(Action)
      BY <1>0, <1>5 DEF Execute
    <2>2. PICK s \in {"insert", "commit", "resolve"} : Begins(a, s)
      BY <1>5 DEF Execute
    <2>3. job'[a].at = s /\ job'[a].doc = Head(reply[a].todo).doc
      BY <1>0, <2>2 DEF Begins, Base, Typed, Operations, Job
    <2>4. 1 \in DOMAIN reply[a].todo /\ Head(reply[a].todo) = reply[a].todo[1]
      BY <2>1, TailIs
    <2>5. Upon(a)' /\ Whole => \A i \in Jobs : At(i, "append") => job[i].doc # job'[a].doc
      BY <2>3, <2>4 DEF Index, Entering
    <2>6. \A b \in Agents : reply'[b].todo = IF b = a THEN Tail(reply[a].todo) ELSE reply[b].todo
      BY <1>0, <2>2 DEF Begins
    <2>7. \A i \in DOMAIN Tail(reply[a].todo) :
            i + 1 \in DOMAIN reply[a].todo /\ Tail(reply[a].todo)[i] = reply[a].todo[i + 1]
      BY <2>1, TailIs
    <2>8. \A b \in Agents : \A i \in DOMAIN reply'[b].todo :
            \E x \in DOMAIN reply[b].todo : reply'[b].todo[i] = reply[b].todo[x]
      BY <2>6, <2>7
    <2>9. Upon(a)' => job'[a].at \in {"commit", "delete"}
      BY <2>3 DEF Upon
    <2> QED  BY <1>0, <1>1, <1>3, <1>4, <2>5, <2>8, <2>9, OneBegins
  <1>6. CASE ~Execute(a)
    <2>1. reply' = reply
      BY <1>6 DEF Carries, ResolveComments, Settle, Review, Close
    <2>2. job'[a].at \in {"none", "settle", "review", "close"}
      <3>1. \/ Ends(a) \/ Goes(a, "review")
            \/ job' = [job EXCEPT ![a].at = "settle", ![a].comments = @ \cap Open(job[a].doc)]
            \/ job' = [job EXCEPT ![a].at = "close", ![a].reopened = {}]
        BY <1>6 DEF Carries, ResolveComments, Settle, Review, Close
      <3> QED  BY <1>0, <3>1 DEF Base, Typed, Operations, Job, Ends, Goes, NoJob
    <2>3. ~Upon(a)'
      BY <2>2 DEF Upon
    <2> QED  BY <1>0, <1>1, <1>3, <1>4, <2>1, <2>3, OneBegins
  <1> QED  BY <1>5, <1>6

LEMMA TalksKeepsIndex ==
  ASSUME Base, Index, NEW a \in Agents, Talks(a)
  PROVE  Index'
  <1> USE DEF table, board, history
  <1>0. reply \in [Agents -> [given: BOOLEAN, todo: Seq(Action)]]
    BY DEF Base, Typed, Responses
  <1>1. UNCHANGED <<rows, used, cache, job, up, overlap, crossed>>
    BY DEF Talks, TakeUp, Respond, Refuse, Answered
  <1>2. \A k \in Jobs : /\ Upon(k)' <=> Upon(k)
                        /\ job'[k].at = job[k].at /\ job'[k].doc = job[k].doc
                        /\ job'[k].version = job[k].version
    BY <1>1 DEF Upon
  \* What is left to say names nothing that is about to be entered.
  <1>3. ASSUME Whole, NEW b \in Agents, NEW i \in DOMAIN reply'[b].todo,
               NEW k \in Jobs, At(k, "append")
        PROVE  reply'[b].todo[i].doc # job[k].doc
    <2>0. job[k].doc \in used /\ job[k].doc \notin DOMAIN cache /\ job[k].doc # None
      BY <1>3, DocumentsAssumption DEF Index, Entering, Base, Typed, Operations, Tables
    <2>1. CASE reply'[b] = reply[b]
      BY <1>3, <2>1 DEF Index, Entering
    <2>2. CASE b = a /\ Refuse(a)
      <3>1. reply'[a].todo = Tail(reply[a].todo) /\ reply[a].todo # <<>>
        BY <1>0, <2>2 DEF Refuse
      <3>2. i + 1 \in DOMAIN reply[a].todo /\ reply'[a].todo[i] = reply[a].todo[i + 1]
        BY <1>0, <1>3, <2>2, <3>1, TailIs
      <3> QED  BY <1>3, <2>2, <3>2 DEF Index, Entering
    <2>3. CASE b = a /\ Answered(a)
      <3>1. reply'[a] = NoReply
        BY <1>0, <2>3 DEF Answered
      <3> QED  BY <1>3, <2>3, <3>1 DEF NoReply
    <2>4. ASSUME NEW actions \in Replies, Respond(a, actions), b = a
          PROVE  reply'[b].todo[i].doc # job[k].doc
      <3>1. reply'[a].todo = actions
        BY <1>0, <2>4 DEF Respond
      <3>2. actions[i].doc \in Heard \cup {None}
        BY <1>3, <2>4, <3>1 DEF Respond
      <3>3. job[k].doc \notin Heard
        BY <1>3, <2>0 DEF Heard
      <3> QED  BY <2>0, <2>4, <3>1, <3>2, <3>3
    <2>5. reply'[b] # reply[b] => b = a /\ (Refuse(a) \/ Answered(a)
                                            \/ \E actions \in Replies : Respond(a, actions))
      BY <1>0 DEF Talks, TakeUp, Respond, Refuse, Answered
    <2> QED  BY <2>1, <2>2, <2>3, <2>4, <2>5
  <1> QED  BY <1>1, <1>2, <1>3, AsideKeepsIndex

LEMMA RemarkKeepsIndex ==
  ASSUME Base, Index, NEW c \in Comments,
         \/ \E d \in Docs, a \in Agents : AddComment(c, d, a)
         \/ \E status \in {"open", "resolved"} : UpdateComment(c, status)
         \/ DeleteComment(c)
  PROVE  Index'
  <1> USE DEF table, board, history
  <1>1. UNCHANGED <<rows, used, cache, reply, overlap, up, crossed>>
    BY DEF AddComment, UpdateComment, DeleteComment
  <1>2. \A k \in Jobs : /\ job'[k].at = job[k].at /\ job'[k].doc = job[k].doc
                        /\ job'[k].version = job[k].version
    <2>1. \A k \in Jobs : job[k] \in Job
      BY DEF Base, Typed, Operations
    <2>2. job' = job \/ job' = [j \in Jobs |-> [job[j] EXCEPT !.reopened = @ \cup {c}]]
      BY DEF AddComment, UpdateComment, DeleteComment, Base, Typed, Operations
    <2> QED  BY <2>1, <2>2 DEF Job
  <1>3. \A k \in Jobs : Upon(k)' <=> Upon(k)
    BY <1>2 DEF Upon
  <1>4. Whole => \A a \in Agents : \A i \in DOMAIN reply'[a].todo :
          \A k \in Jobs : At(k, "append") => reply'[a].todo[i].doc # job[k].doc
    BY <1>1 DEF Index, Entering
  <1> QED  BY <1>1, <1>2, <1>3, <1>4, AsideKeepsIndex

\* After a stop nothing is claimed but of what requests are upon.
LEMMA StopKeepsIndex ==
  ASSUME Base, Index, NEW crash \in BOOLEAN, Stop(crash)
  PROVE  Index'
  <1> USE DEF table, board, history
  <1>1. UNCHANGED <<rows, used, cache, overlap, crossed>> /\ up' = FALSE
    BY DEF Stop
  <1>2. \A j \in Jobs :
          \/ job'[j].at = "none"
          \/ job'[j].at = job[j].at /\ job'[j].doc = job[j].doc /\ job'[j].version = job[j].version
    <2>1. \A j \in Jobs : job[j] \in Job
      BY DEF Base, Typed, Operations
    <2>2. \A j \in Jobs : job'[j] = NoJob \/ job'[j] = [job[j] EXCEPT !.old = TRUE]
      BY DEF Stop
    <2>3. \A j \in Jobs : LET o == [job[j] EXCEPT !.old = TRUE] IN
            o.at = job[j].at /\ o.doc = job[j].doc /\ o.version = job[j].version
      BY <2>1 DEF Job
    <2>4. NoJob.at = "none"
      BY DEF NoJob
    <2> QED  BY <2>2, <2>3, <2>4
  <1>3. Gone' /\ Fetched'
    BY <1>1, <1>2 DEF Index, Gone, Fetched, At
  <1> QED  BY <1>1, <1>3 DEF Index, Whole, Entering, Entered, Struck, Replaced

\* A load finds no operation under way, or is crossed by one.
LEMMA StartKeepsIndex ==
  ASSUME Base, Index, Start
  PROVE  Index'
  <1> USE DEF table, board, history
  <1>1. /\ UNCHANGED <<rows, used, overlap, job, reply>> /\ cache' = rows /\ ~up
        /\ crossed' = (crossed \/ \E r \in Requests : job[r].old)
    BY DEF Start
  <1>2. Gone' /\ Fetched'
    BY <1>1 DEF Index, Gone, Fetched, At
  <1>3. Whole' => \A j \in Jobs : job'[j].at = "none"
    BY <1>1 DEF Whole, Base, Parted, At
  <1> QED  BY <1>1, <1>2, <1>3 DEF Index, Entering, Entered, Struck, Replaced, At

LEMMA IdleKeepsIndex ==
  ASSUME Index, UNCHANGED vars
  PROVE  Index'
  <1>1. \A k \in Jobs : Upon(k)' <=> Upon(k)
    BY DEF vars, Upon
  <1> QED  BY <1>1 DEF vars, table, board, history, Index, Whole, Entering, Entered, Struck, Gone,
                       Replaced, Fetched, At

LEMMA InvStep ==
  ASSUME Inv, [Next]_vars
  PROVE  Inv'
  <1>1. Base /\ Index /\ Base'
    BY BaseStep DEF Inv
  <1>2. Index'
    BY <1>1, Steps, OperationKeepsIndex, UserKeepsIndex, CarriesKeepsIndex, TalksKeepsIndex,
       RemarkKeepsIndex, StopKeepsIndex, StartKeepsIndex, IdleKeepsIndex
  <1> QED  BY <1>1, <1>2 DEF Inv

LEMMA InvInit ==
  ASSUME Init
  PROVE  Inv
  <1>1. Base
    BY BaseInit
  <1>2. \A j \in Jobs : job[j].at = "none"
    BY DEF Init, NoJob
  <1>3. cache = rows
    BY DEF Init
  <1> QED  BY <1>1, <1>2, <1>3 DEF Inv, Index, Entering, Entered, Struck, Gone, Replaced, Fetched, At

-----------------------------------------------------------------------------
(* The theorems *)

\* Inv holds in every state that is reached.
THEOREM Invariance == Spec => []Inv
  <1>1. Init => Inv
    BY InvInit
  <1>2. Inv /\ [Next]_vars => Inv'
    BY InvStep
  <1> QED  BY <1>1, <1>2, PTL DEF Spec

\* Every variable of the knowledge base keeps its type, and a review task is about
\* comments of its agent on its document.
THEOREM TypeCorrect == Spec => []TypeOK
  <1>1. Inv => TypeOK
    BY TypedIsTypeOK DEF Inv, Base
  <1> QED  BY <1>1, Invariance, PTL

\* With no operation under way the index in memory lists the documents of the
\* table as they are: whatever was created, updated and deleted by how many agents
\* and requests at once, failed, was cut short by a stop, or went on over it.
THEOREM IndexAgrees == Spec => []IndexIsTable
  <1>1. Inv => IndexIsTable
    BY DEF Inv, Index, IndexIsTable, Whole, Entered, Struck, Replaced, At
  <1> QED  BY <1>1, Invariance, PTL

\* A review task that the resolution of its document's comments completes leaves
\* open none of the comments it was dispatched with, but what the user reopened
\* since the agent looked.
THEOREM ReviewsAreComplete == Spec => ClosedIsAddressed
  <1>1. Inv /\ [Next]_vars =>
          \A a \in Agents :
            LET t == current[a] IN
              At(a, "close") /\ task' # task /\ job'[a].at = "none" /\ task[t].doc = job[a].doc
                => task[t].comments \cap Open(task[t].doc) \subseteq job[a].reopened
    BY DEF Inv, Base, Closing
  <1> QED  BY <1>1, Invariance, PTL DEF Spec, ClosedIsAddressed

=============================================================================
