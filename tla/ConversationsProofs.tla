------------------------ MODULE ConversationsProofs ------------------------
(***************************************************************************)
(* What holds of Conversations for any number of agents, requests,         *)
(* conversations and messages.                                             *)
(***************************************************************************)
EXTENDS Conversations, FiniteSetTheorems, TLAPS

-----------------------------------------------------------------------------
(* The invariant                                                           *)

\* A call past the insert is about a row of its agent; one that is about to drop
\* an entry has closed the row.
CallsNameRows ==
  \A c \in Callers : call[c].at \in {"return", "commit", "drop", "store"} =>
    /\ call[c].id \in Ids
    /\ row[call[c].id] # "none" /\ partner[call[c].id] = call[c].agent
    /\ call[c].at = "drop" => row[call[c].id] = "closed"
    /\ call[c].at = "store" => call[c].message \in Messages

\* Without a row there is no entry and no message; a row has an agent.
RowsComeFirst ==
  \A v \in Ids :
    /\ row[v] = "none" => cache[v] = "none" /\ stored[v] = {}
    /\ row[v] # "none" => partner[v] \in Agents

\* An active row is in the cache, or a call is about to put it there, or one is
\* about to close it.
OpenSomewhere ==
  \A v \in Ids : row[v] = "active" =>
    \/ cache[v] = "active"
    \/ \E c \in Callers : call[c].at \in {"return", "commit"} /\ call[c].id = v

\* A message of the log is stored, or a call is about to store it.
LogIsWritten ==
  \A v \in Ids : \A m \in log[v] :
    \/ m \in stored[v]
    \/ \E c \in Callers : call[c].at = "store" /\ call[c].id = v /\ call[c].message = m

Base == TypeOK /\ CallsNameRows /\ RowsComeFirst /\ OpenSomewhere /\ LogIsWritten

\* A start is the only one, no close is under way, and nothing is open for its
\* agent: neither in the cache nor, before its own insert, in the database.
StartsAlone(a) ==
  \A c \in Starting(a) :
    /\ \A d \in Starting(a) : d = c
    /\ Closing(a) = {} /\ Active(a) = {}
    /\ call[c].at = "insert" => Found(a) = {}
    /\ call[c].at = "return" =>
         /\ row[call[c].id] = "active" /\ stored[call[c].id] = {}
         /\ \A d \in Callers : ~(call[d].at = "store" /\ call[d].id = call[c].id)

\* What is being closed is not active.
ClosesMarked(a) == \A c \in Closing(a) : cache[call[c].id] # "active"

\* What is active in the cache is in the database, and what is stored or about to
\* be stored of it is in its log.
CacheBehind(a) ==
  \A v \in Active(a) :
    /\ row[v] = "active" /\ stored[v] \subseteq log[v]
    /\ \A c \in Callers : call[c].at = "store" /\ call[c].id = v => call[c].message \in log[v]

OneFound(a) == \A v, w \in Found(a) : v = w

Orderly(a) == StartsAlone(a) /\ ClosesMarked(a) /\ CacheBehind(a) /\ OneFound(a)

Inv == Base /\ \A a \in Agents \ raced : Orderly(a)

-----------------------------------------------------------------------------
(* Types                                                                   *)

\* A caller in a method is called for an agent.
LEMMA CallFields ==
  ASSUME TypeOK, NEW c \in Callers, ~Idle(c)
  PROVE  /\ call[c].at \in Stages /\ call[c].agent \in Agents
         /\ call[c].id \in Ids \cup {None} /\ call[c].message \in Messages \cup {None}
BY DEF TypeOK, Idle

\* The agent of an entry in the cache is known.
LEMMA EntryHasPartner ==
  ASSUME TypeOK, RowsComeFirst, NEW v \in Ids, cache[v] = "active"
  PROVE  row[v] # "none" /\ partner[v] \in Agents
BY DEF RowsComeFirst

\* The type of a call.
Calls == [at: Stages, agent: Agents, id: Ids \cup {None},
          message: Messages \cup {None}] \cup {NoCall}

\* Going to await something keeps the type of the calls.
LEMMA AwaitType ==
  ASSUME TypeOK, NEW c \in Callers, NEW stage \in Stages, NEW a \in Agents,
         NEW v \in Ids \cup {None}, NEW m \in Messages \cup {None}, Await(c, stage, a, v, m)
  PROVE  call' \in [Callers -> Calls]
BY DEF TypeOK, Await, Calls

\* So does returning.
LEMMA ReturnType ==
  ASSUME TypeOK, NEW c \in Callers, Return(c)
  PROVE  call' \in [Callers -> Calls]
BY DEF TypeOK, Return, Calls

\* Every step keeps the types.
LEMMA TypeStep == Base /\ [Next]_vars => TypeOK'
<1> SUFFICES ASSUME Base, [Next]_vars
             PROVE  TypeOK'
  OBVIOUS
<1> USE DEF Base
<1>1. ASSUME NEW c \in Callers, NEW a \in Agents, StartCall(c, a)
      PROVE  TypeOK'
  <2>1. call' \in [Callers -> Calls]
    BY <1>1, AwaitType, ReturnType DEF StartCall, Stages
  <2> QED
    BY <1>1, <2>1 DEF StartCall, TypeOK, Calls, database
<1>2. ASSUME NEW c \in Callers, NEW v \in Ids, cache[v] = "active", Mark(c, v)
      PROVE  /\ cache' \in [Ids -> State] /\ raced' \subseteq Agents
             /\ call' \in [Callers -> Calls]
  <2>1. partner[v] \in Agents
    BY <1>2, EntryHasPartner
  <2>2. Await(c, "commit", partner[v], v, None)
    BY <1>2 DEF Mark
  <2>3. call' \in [Callers -> Calls]
    BY <2>1, <2>2, AwaitType, ReturnType DEF Stages
  <2> QED
    BY <1>2, <2>1, <2>3 DEF Mark, TypeOK, State
<1>3. ASSUME NEW c \in Callers, NEW v \in Ids, CloseByUser(c, v)
      PROVE  TypeOK'
  BY <1>2, <1>3, EntryHasPartner DEF CloseByUser, TypeOK, Calls, database
<1>4. ASSUME NEW a \in Agents, CloseByAgent(a)
      PROVE  TypeOK'
  <2>1. asked' \in [Agents -> SUBSET Ids]
    BY <1>4 DEF CloseByAgent, TypeOK
  <2>2. CASE UNCHANGED <<cache, call, raced>>
    BY <1>4, <2>1, <2>2 DEF CloseByAgent, TypeOK, Calls, database
  <2>3. CASE \E v \in Active(a) : Mark(a, v)
    BY <1>2, <1>4, <2>1, <2>3 DEF CloseByAgent, TypeOK, Calls, database, Active, Callers
  <2> QED
    BY <1>4, <2>2, <2>3 DEF CloseByAgent
<1>5. ASSUME NEW c \in Callers, NEW v \in Ids, NEW m \in Messages, Record(c, v, m)
      PROVE  TypeOK'
  <2>1. partner[v] \in Agents
    BY <1>5, EntryHasPartner DEF Record
  <2>2. call' \in [Callers -> Calls]
    BY <1>5, <2>1, AwaitType, ReturnType DEF Record, Stages
  <2> QED
    BY <1>5, <2>2 DEF Record, TypeOK, Calls, database
<1>6. ASSUME NEW c \in Callers, Proceed(c)
      PROVE  TypeOK'
  <2>1. call[c].agent \in Agents
    BY <1>6, CallFields DEF Proceed, FindRow, InsertRow, Enter, CommitClose, Drop, Store, At, Idle,
       NoCall
  <2>2. call' \in [Callers -> Calls]
    <3>1. CASE FindRow(c)
      BY <2>1, <3>1, AwaitType, ReturnType DEF FindRow, Stages
    <3>2. CASE InsertRow(c)
      BY <2>1, <3>2, AwaitType, ReturnType DEF InsertRow, Stages
    <3>3. CASE CommitClose(c)
      BY <2>1, <3>3, AwaitType, ReturnType DEF CommitClose, CallsNameRows, At, Stages
    <3>4. CASE Enter(c) \/ Drop(c) \/ Store(c)
      BY <3>4, AwaitType, ReturnType DEF Enter, Drop, Store
    <3> QED
      BY <1>6, <3>1, <3>2, <3>3, <3>4 DEF Proceed
  <2>3. CASE FindRow(c)
    BY <2>2, <2>3 DEF FindRow, TypeOK, Calls, database
  <2>4. CASE InsertRow(c)
    BY <2>1, <2>2, <2>4 DEF InsertRow, TypeOK, Calls, State
  <2>5. CASE Enter(c) \/ Drop(c)
    BY <2>2, <2>5 DEF Enter, Drop, DropEntry, TypeOK, Calls, State, database
  <2>6. CASE CommitClose(c)
    BY <2>2, <2>6 DEF CommitClose, CloseRow, TypeOK, Calls, State
  <2>7. CASE Store(c)
    BY <2>2, <2>7 DEF Store, TypeOK, Calls, CallsNameRows, At
  <2> QED
    BY <1>6, <2>3, <2>4, <2>5, <2>6, <2>7 DEF Proceed
<1>7. CASE Restart
  <2>1. restarts' \in 0..MaxRestarts
    BY <1>7, ConversationsAssumption DEF Restart, TypeOK
  <2> QED
    BY <1>7, <2>1 DEF Restart, TypeOK, Calls, State, database
<1>8. CASE UNCHANGED vars
  BY <1>8 DEF vars, TypeOK, Calls, database
<1> QED
  BY <1>1, <1>3, <1>4, <1>5, <1>6, <1>7, <1>8 DEF Next

\* They hold initially.
LEMMA TypeInit == Init => TypeOK
BY ConversationsAssumption DEF Init, TypeOK, State

-----------------------------------------------------------------------------
(* Rows, entries and messages, whatever overlaps                           *)

\* What the actions do to the variables the invariant is about, point by point: a
\* step changes one call, and at most one row, entry or log.
OthersStay(c) == \A d \in Callers \ {c} : call'[d] = call[d]

\* A start goes to look for a row, with nothing of its agent in the cache.
LEMMA StartCallDoes ==
  ASSUME TypeOK, NEW c \in Callers, NEW a, StartCall(c, a)
  PROVE  /\ call[c].at = "idle" /\ OthersStay(c)
         /\ call'[c].at = "find" /\ call'[c].agent = a
         /\ Active(a) = {}
         /\ UNCHANGED <<partner, row, stored, cache, log>>
<1>1. Idle(c) /\ Await(c, "find", a, None, None)
  BY DEF StartCall, MayCall
<1> QED
  BY <1>1 DEF StartCall, Idle, NoCall, Await, TypeOK, OthersStay, database

\* It finds nothing and goes to insert, finds the one row, or fails.
LEMMA FindRowDoes ==
  ASSUME TypeOK, NEW c \in Callers, FindRow(c)
  PROVE  /\ call[c].at = "find" /\ OthersStay(c)
         /\ \/ call'[c].at = "idle"
            \/ /\ call'[c].agent = call[c].agent
               /\ \/ call'[c].at = "insert" /\ Found(call[c].agent) = {}
                  \/ call'[c].at = "return" /\ call'[c].id \in Found(call[c].agent)
         /\ UNCHANGED <<partner, row, stored, cache, log, raced>>
<1> DEFINE a == call[c].agent
<1>1. CASE Return(c)
  BY <1>1 DEF FindRow, At, Return, NoCall, TypeOK, OthersStay, database
<1>2. CASE Found(a) = {} /\ Await(c, "insert", a, None, None)
  BY <1>2 DEF FindRow, At, Await, TypeOK, OthersStay, database
<1>3. ASSUME NEW v \in Ids, Found(a) = {v}, Await(c, "return", a, v, None)
      PROVE  /\ call[c].at = "find" /\ OthersStay(c)
             /\ call'[c].agent = a /\ call'[c].at = "return" /\ call'[c].id \in Found(a)
  BY <1>3 DEF FindRow, At, Await, TypeOK, OthersStay, database
<1>4. UNCHANGED <<partner, row, stored, cache, log, raced>>
  BY DEF FindRow, database
<1> QED
  BY <1>1, <1>2, <1>3, <1>4 DEF FindRow

\* An insert takes an unused id.
LEMMA InsertRowDoes ==
  ASSUME Base, NEW c \in Callers, InsertRow(c)
  PROVE  \E v \in Ids :
           /\ call[c].at = "insert" /\ call[c].agent \in Agents /\ OthersStay(c)
           /\ call'[c].at = "return" /\ call'[c].agent = call[c].agent /\ call'[c].id = v
           /\ row[v] = "none" /\ row'[v] = "active" /\ partner'[v] = call[c].agent
           /\ \A w \in Ids \ {v} : row'[w] = row[w] /\ partner'[w] = partner[w]
           /\ UNCHANGED <<stored, cache, log, raced>>
<1>1. PICK v \in Ids : /\ row[v] = "none"
                       /\ row' = [row EXCEPT ![v] = "active"]
                       /\ partner' = [partner EXCEPT ![v] = call[c].agent]
                       /\ Await(c, "return", call[c].agent, v, None)
  BY DEF InsertRow
<1>2. call[c].at = "insert" /\ call[c].agent \in Agents
  BY CallFields DEF InsertRow, At, Base, Idle, NoCall
<1> QED
  BY <1>1, <1>2 DEF InsertRow, Base, TypeOK, Await, OthersStay, database

\* A start that returns makes an empty, active entry.
LEMMA EnterDoes ==
  ASSUME Base, NEW c \in Callers, NEW v, v = call[c].id, Enter(c)
  PROVE  /\ call[c].at = "return" /\ call'[c].at = "idle" /\ OthersStay(c)
         /\ v \in Ids /\ row[v] # "none" /\ partner[v] = call[c].agent
         /\ cache'[v] = "active" /\ log'[v] = {}
         /\ \A w \in Ids \ {v} : cache'[w] = cache[w] /\ log'[w] = log[w]
         /\ UNCHANGED <<partner, row, stored, raced>>
BY DEF Base, TypeOK, CallsNameRows, Enter, At, Return, NoCall, OthersStay, database

\* A close marks its entry.
LEMMA MarkDoes ==
  ASSUME Base, NEW c \in Callers, NEW v \in Ids, Idle(c), cache[v] = "active", Mark(c, v)
  PROVE  /\ call[c].at = "idle" /\ OthersStay(c)
         /\ call'[c].at = "commit" /\ call'[c].agent = partner[v] /\ call'[c].id = v
         /\ row[v] # "none" /\ cache'[v] = "closed"
         /\ \A w \in Ids \ {v} : cache'[w] = cache[w]
BY EntryHasPartner DEF Base, TypeOK, Idle, NoCall, Mark, Await, OthersStay, database

\* Then it closes the row.
LEMMA CommitCloseDoes ==
  ASSUME Base, NEW c \in Callers, NEW v, v = call[c].id, CommitClose(c)
  PROVE  /\ call[c].at = "commit" /\ OthersStay(c)
         /\ call'[c].at = "drop" /\ call'[c].agent = call[c].agent /\ call'[c].id = v
         /\ v \in Ids /\ row[v] # "none" /\ partner[v] = call[c].agent
         /\ row'[v] = "closed" /\ \A w \in Ids \ {v} : row'[w] = row[w]
         /\ UNCHANGED <<partner, stored, cache, log, raced>>
BY DEF Base, TypeOK, CallsNameRows, CommitClose, CloseRow, At, Await, OthersStay, database

\* Then it drops the entry.
LEMMA DropDoes ==
  ASSUME Base, NEW c \in Callers, NEW v, v = call[c].id, Drop(c)
  PROVE  /\ call[c].at = "drop" /\ call'[c].at = "idle" /\ OthersStay(c)
         /\ v \in Ids /\ row[v] = "closed"
         /\ cache'[v] = "none" /\ log'[v] = {}
         /\ \A w \in Ids \ {v} : cache'[w] = cache[w] /\ log'[w] = log[w]
         /\ UNCHANGED <<partner, row, stored, raced>>
BY DEF Base, TypeOK, CallsNameRows, Drop, DropEntry, At, Return, NoCall, OthersStay, database

\* A message goes to the log of an active entry.
LEMMA RecordDoes ==
  ASSUME Base, NEW c \in Callers, NEW v \in Ids, NEW m \in Messages, Record(c, v, m)
  PROVE  /\ call[c].at = "idle" /\ OthersStay(c)
         /\ call'[c].at = "store" /\ call'[c].id = v /\ call'[c].message = m
         /\ call'[c].agent = partner[v] /\ row[v] # "none" /\ cache[v] = "active"
         /\ log'[v] = log[v] \cup {m} /\ \A w \in Ids \ {v} : log'[w] = log[w]
         /\ UNCHANGED <<partner, row, stored, cache, raced>>
BY EntryHasPartner DEF Base, TypeOK, Record, MayCall, Idle, NoCall, Await, OthersStay, database

\* Then it is stored.
LEMMA StoreDoes ==
  ASSUME Base, NEW c \in Callers, NEW v, v = call[c].id, Store(c)
  PROVE  /\ call[c].at = "store" /\ call'[c].at = "idle" /\ OthersStay(c)
         /\ v \in Ids /\ row[v] # "none"
         /\ stored'[v] = stored[v] \cup {call[c].message}
         /\ \A w \in Ids \ {v} : stored'[w] = stored[w]
         /\ UNCHANGED <<partner, row, cache, log, raced>>
BY DEF Base, TypeOK, CallsNameRows, Store, At, Return, NoCall, OthersStay, database

\* A restart takes the active rows and ends all calls.
LEMMA RestartDoes ==
  ASSUME Restart
  PROVE  /\ \A c \in Callers : call'[c].at = "idle"
         /\ \A v \in Ids : /\ cache'[v] = IF row[v] = "active" THEN "active" ELSE "none"
                           /\ log'[v] = IF row[v] = "active" THEN stored[v] ELSE {}
         /\ UNCHANGED <<partner, row, stored, raced>>
BY DEF Restart, NoCall, database

\* A close that marks an entry.
LEMMA MarkBase ==
  ASSUME Base, NEW c \in Callers, NEW v \in Ids, Idle(c), cache[v] = "active", Mark(c, v),
         UNCHANGED <<database, log>>
  PROVE  CallsNameRows' /\ RowsComeFirst' /\ OpenSomewhere' /\ LogIsWritten'
<1> USE DEF Base, database, OthersStay
<1>1. CallsNameRows' /\ RowsComeFirst'
  BY MarkDoes DEF CallsNameRows, RowsComeFirst
<1>2. OpenSomewhere' /\ LogIsWritten'
  BY MarkDoes DEF OpenSomewhere, LogIsWritten
<1> QED
  BY <1>1, <1>2

\* Every step keeps the base of the invariant.
LEMMA BaseStep == Base /\ [Next]_vars => Base'
<1> SUFFICES ASSUME Base, [Next]_vars
             PROVE  CallsNameRows' /\ RowsComeFirst' /\ OpenSomewhere' /\ LogIsWritten'
  BY TypeStep DEF Base
<1> USE DEF Base, database, OthersStay
<1>1. ASSUME NEW c \in Callers, NEW a \in Agents, StartCall(c, a)
      PROVE  CallsNameRows' /\ RowsComeFirst' /\ OpenSomewhere' /\ LogIsWritten'
  <2>1. CallsNameRows' /\ RowsComeFirst'
    BY <1>1, StartCallDoes DEF CallsNameRows, RowsComeFirst
  <2>2. OpenSomewhere'
    BY <1>1, StartCallDoes DEF OpenSomewhere
  <2>3. LogIsWritten'
    BY <1>1, StartCallDoes DEF LogIsWritten
  <2> QED
    BY <2>1, <2>2, <2>3
<1>2. ASSUME NEW c \in Callers, NEW v \in Ids, CloseByUser(c, v)
      PROVE  CallsNameRows' /\ RowsComeFirst' /\ OpenSomewhere' /\ LogIsWritten'
  BY <1>2, MarkBase DEF CloseByUser
<1>3. ASSUME NEW a \in Agents, CloseByAgent(a)
      PROVE  CallsNameRows' /\ RowsComeFirst' /\ OpenSomewhere' /\ LogIsWritten'
  <2>1. CASE \E v \in Active(a) : Mark(a, v)
    BY <1>3, <2>1, MarkBase DEF CloseByAgent, Active, Callers
  <2>2. CASE UNCHANGED <<cache, call, raced>>
    BY <1>3, <2>2 DEF CloseByAgent, CallsNameRows, RowsComeFirst, OpenSomewhere, LogIsWritten
  <2> QED
    BY <1>3, <2>1, <2>2 DEF CloseByAgent
<1>4. ASSUME NEW c \in Callers, NEW v \in Ids, NEW m \in Messages, Record(c, v, m)
      PROVE  CallsNameRows' /\ RowsComeFirst' /\ OpenSomewhere' /\ LogIsWritten'
  <2>1. CallsNameRows' /\ RowsComeFirst'
    BY <1>4, RecordDoes DEF CallsNameRows, RowsComeFirst
  <2>2. OpenSomewhere'
    BY <1>4, RecordDoes DEF OpenSomewhere
  <2>3. LogIsWritten'
    BY <1>4, RecordDoes DEF LogIsWritten
  <2> QED
    BY <2>1, <2>2, <2>3
<1>5. ASSUME NEW c \in Callers, FindRow(c)
      PROVE  CallsNameRows' /\ RowsComeFirst' /\ OpenSomewhere' /\ LogIsWritten'
  <2>1. CallsNameRows' /\ RowsComeFirst'
    BY <1>5, FindRowDoes DEF Found, CallsNameRows, RowsComeFirst
  <2>2. OpenSomewhere'
    BY <1>5, FindRowDoes DEF Found, OpenSomewhere
  <2>3. LogIsWritten'
    BY <1>5, FindRowDoes DEF Found, LogIsWritten
  <2> QED
    BY <2>1, <2>2, <2>3
<1>6. ASSUME NEW c \in Callers, InsertRow(c)
      PROVE  CallsNameRows' /\ RowsComeFirst' /\ OpenSomewhere' /\ LogIsWritten'
  <2>1. CallsNameRows' /\ RowsComeFirst'
    BY <1>6, InsertRowDoes DEF CallsNameRows, RowsComeFirst
  <2>2. OpenSomewhere'
    BY <1>6, InsertRowDoes DEF OpenSomewhere
  <2>3. LogIsWritten'
    BY <1>6, InsertRowDoes DEF LogIsWritten
  <2> QED
    BY <2>1, <2>2, <2>3
<1>7. ASSUME NEW c \in Callers, Enter(c)
      PROVE  CallsNameRows' /\ RowsComeFirst' /\ OpenSomewhere' /\ LogIsWritten'
  <2>1. CallsNameRows' /\ RowsComeFirst'
    BY <1>7, EnterDoes DEF CallsNameRows, RowsComeFirst
  <2>2. OpenSomewhere'
    BY <1>7, EnterDoes DEF OpenSomewhere
  <2>3. LogIsWritten'
    BY <1>7, EnterDoes DEF LogIsWritten
  <2> QED
    BY <2>1, <2>2, <2>3
<1>8. ASSUME NEW c \in Callers, CommitClose(c)
      PROVE  CallsNameRows' /\ RowsComeFirst' /\ OpenSomewhere' /\ LogIsWritten'
  <2>1. CallsNameRows' /\ RowsComeFirst'
    BY <1>8, CommitCloseDoes DEF CallsNameRows, RowsComeFirst
  <2>2. OpenSomewhere'
    BY <1>8, CommitCloseDoes DEF OpenSomewhere
  <2>3. LogIsWritten'
    BY <1>8, CommitCloseDoes DEF LogIsWritten
  <2> QED
    BY <2>1, <2>2, <2>3
<1>9. ASSUME NEW c \in Callers, Drop(c)
      PROVE  CallsNameRows' /\ RowsComeFirst' /\ OpenSomewhere' /\ LogIsWritten'
  <2>1. CallsNameRows' /\ RowsComeFirst'
    BY <1>9, DropDoes DEF CallsNameRows, RowsComeFirst
  <2>2. OpenSomewhere'
    BY <1>9, DropDoes DEF OpenSomewhere
  <2>3. LogIsWritten'
    BY <1>9, DropDoes DEF LogIsWritten
  <2> QED
    BY <2>1, <2>2, <2>3
<1>10. ASSUME NEW c \in Callers, Store(c)
       PROVE  CallsNameRows' /\ RowsComeFirst' /\ OpenSomewhere' /\ LogIsWritten'
  <2>1. CallsNameRows' /\ RowsComeFirst'
    BY <1>10, StoreDoes DEF CallsNameRows, RowsComeFirst
  <2>2. OpenSomewhere'
    BY <1>10, StoreDoes DEF OpenSomewhere
  <2>3. LogIsWritten'
    BY <1>10, StoreDoes DEF LogIsWritten
  <2> QED
    BY <2>1, <2>2, <2>3
<1>11. CASE Restart
  BY <1>11, RestartDoes DEF CallsNameRows, RowsComeFirst, OpenSomewhere, LogIsWritten
<1>12. CASE UNCHANGED vars
  BY <1>12 DEF vars, CallsNameRows, RowsComeFirst, OpenSomewhere, LogIsWritten
<1> QED
  BY <1>1, <1>2, <1>3, <1>4, <1>5, <1>6, <1>7, <1>8, <1>9, <1>10, <1>11, <1>12 DEF Next, Proceed

\* They hold initially.
LEMMA BaseInit == Init => Base
BY TypeInit DEF Init, Base, CallsNameRows, RowsComeFirst, OpenSomewhere, LogIsWritten, NoCall

\* So they always hold.
LEMMA BaseHolds == Spec => []Base
BY BaseInit, BaseStep, PTL DEF Spec

\* Every variable of the conversations keeps its type.
THEOREM TypeCorrect == Spec => []TypeOK
<1>1. Base => TypeOK
  BY DEF Base
<1> QED
  BY <1>1, BaseHolds, PTL

\* No active row is hidden once the calls for its agent are over, and no message
\* of the cache is missing in the database, with any number of overlapping calls.
THEOREM NothingOpenIsHidden == Spec => []StoredIsOpen
<1>1. Base => StoredIsOpen
  <2> SUFFICES ASSUME Base, NEW v \in Ids, row[v] = "active", Quiet(partner[v])
               PROVE  cache[v] = "active" /\ log[v] \subseteq stored[v]
    BY DEF StoredIsOpen
  <2>1. \A c \in Callers : call[c].at \in {"return", "commit", "store"} => call[c].id # v
    BY DEF Base, CallsNameRows, Quiet
  <2> QED
    BY <2>1 DEF Base, OpenSomewhere, LogIsWritten
<1> QED
  BY <1>1, BaseHolds, PTL

-----------------------------------------------------------------------------
(* Agents whose starts overlapped nothing                                  *)

\* Such a start finds no row: an active one would be in the cache, where the
\* start looked first, or in the hands of another start or of a close.
LEMMA NothingFound ==
  ASSUME Base, NEW a \in Agents, StartsAlone(a), NEW c \in Starting(a), call[c].at = "find"
  PROVE  Found(a) = {}
<1> SUFFICES ASSUME NEW v \in Ids, row[v] = "active", partner[v] = a
             PROVE  FALSE
  BY DEF Found
<1>1. cache[v] # "active"
  BY DEF StartsAlone, Active
<1>2. PICK d \in Callers : call[d].at \in {"return", "commit"} /\ call[d].id = v
  BY <1>1 DEF Base, OpenSomewhere
<1>3. call[d].agent = a
  BY <1>2 DEF Base, CallsNameRows
<1>4. d \notin Closing(a)
  BY DEF StartsAlone
<1>5. d \in Starting(a) /\ d # c
  BY <1>2, <1>3, <1>4 DEF Starting, Closing
<1> QED
  BY <1>5 DEF StartsAlone

\* Every step keeps an agent's conversations in order, unless it overlaps.
LEMMA OrderlyStep ==
  ASSUME Base, [Next]_vars, NEW a \in Agents, a \notin raced', Orderly(a)
  PROVE  Orderly(a)'
<1> USE DEF Base, Orderly, OthersStay
<1>1. ASSUME NEW c \in Callers, NEW b \in Agents, StartCall(c, b)
      PROVE  Orderly(a)'
  <2>1. b = a => Starting(a) = {} /\ Closing(a) = {}
    BY <1>1 DEF StartCall
  <2>2. StartsAlone(a)'
    BY <1>1, <2>1, StartCallDoes DEF StartsAlone, Starting, Closing, Active, Found
  <2>3. ClosesMarked(a)' /\ CacheBehind(a)' /\ OneFound(a)'
    BY <1>1, StartCallDoes DEF ClosesMarked, CacheBehind, OneFound, Closing, Active, Found
  <2> QED
    BY <2>2, <2>3
<1>2. ASSUME NEW c \in Callers, NEW v \in Ids, Idle(c), cache[v] = "active", Mark(c, v),
             UNCHANGED <<partner, row, stored, log>>
      PROVE  Orderly(a)'
  <2>1. partner[v] = a => Starting(a) = {}
    BY <1>2 DEF Mark
  <2>2. StartsAlone(a)'
    BY <1>2, <2>1, MarkDoes DEF StartsAlone, Starting, Closing, Active, Found
  <2>3. ClosesMarked(a)'
    BY <1>2, MarkDoes DEF ClosesMarked, Closing, CallsNameRows
  <2>4. CacheBehind(a)' /\ OneFound(a)'
    BY <1>2, MarkDoes DEF CacheBehind, OneFound, Active, Found
  <2> QED
    BY <2>2, <2>3, <2>4
<1>3. ASSUME NEW c \in Callers, NEW v \in Ids, CloseByUser(c, v)
      PROVE  Orderly(a)'
  BY <1>2, <1>3 DEF CloseByUser, database
<1>4. ASSUME NEW b \in Agents, CloseByAgent(b)
      PROVE  Orderly(a)'
  <2>1. CASE \E v \in Active(b) : Mark(b, v)
    BY <1>2, <1>4, <2>1 DEF CloseByAgent, Active, Callers, database
  <2>2. CASE UNCHANGED <<cache, call, raced>>
    BY <1>4, <2>2 DEF CloseByAgent, database, StartsAlone, ClosesMarked, CacheBehind, OneFound,
       Starting, Closing, Active, Found
  <2> QED
    BY <1>4, <2>1, <2>2 DEF CloseByAgent
<1>5. ASSUME NEW c \in Callers, NEW v \in Ids, NEW m \in Messages, Record(c, v, m)
      PROVE  Orderly(a)'
  <2>1. StartsAlone(a)'
    <3>1. \A d \in Starting(a) : call[d].at = "return" => call[d].id # v
      BY <1>5, RecordDoes DEF StartsAlone, Active, Starting, CallsNameRows
    <3> QED
      BY <1>5, <3>1, RecordDoes DEF StartsAlone, Starting, Closing, Active, Found
  <2>2. ClosesMarked(a)' /\ OneFound(a)'
    BY <1>5, RecordDoes DEF ClosesMarked, OneFound, Closing, Found
  <2>3. CacheBehind(a)'
    BY <1>5, RecordDoes DEF CacheBehind, Active
  <2> QED
    BY <2>1, <2>2, <2>3
<1>6. ASSUME NEW c \in Callers, FindRow(c)
      PROVE  Orderly(a)'
  <2>1. call[c].agent = a => c \in Starting(a) /\ Found(a) = {}
    BY <1>6, FindRowDoes, NothingFound DEF Starting
  <2>2. StartsAlone(a)'
    BY <1>6, <2>1, FindRowDoes DEF StartsAlone, Starting, Closing, Active, Found
  <2>3. ClosesMarked(a)' /\ CacheBehind(a)' /\ OneFound(a)'
    BY <1>6, FindRowDoes DEF ClosesMarked, CacheBehind, OneFound, Closing, Active, Found
  <2> QED
    BY <2>2, <2>3
<1>7. ASSUME NEW c \in Callers, InsertRow(c)
      PROVE  Orderly(a)'
  <2>1. PICK v \in Ids :
           /\ call[c].at = "insert" /\ call[c].agent \in Agents /\ OthersStay(c)
           /\ call'[c].at = "return" /\ call'[c].agent = call[c].agent /\ call'[c].id = v
           /\ row[v] = "none" /\ row'[v] = "active" /\ partner'[v] = call[c].agent
           /\ \A w \in Ids \ {v} : row'[w] = row[w] /\ partner'[w] = partner[w]
           /\ UNCHANGED <<stored, cache, log, raced>>
    BY <1>7, InsertRowDoes
  <2>2. /\ cache[v] = "none" /\ stored[v] = {}
        /\ \A d \in Callers : call[d].at \in {"return", "commit", "drop", "store"} => call[d].id # v
    BY <2>1 DEF RowsComeFirst, CallsNameRows
  <2>3. call[c].agent = a => c \in Starting(a) /\ Found(a) = {}
    BY <2>1 DEF Starting, StartsAlone
  <2>4. Active(a)' = Active(a)
    BY <2>1, <2>2 DEF Active
  <2>5. StartsAlone(a)'
    <3>1. Starting(a)' = Starting(a) /\ Closing(a)' = Closing(a)
      BY <2>1 DEF Starting, Closing
    <3>2. ASSUME NEW d \in Starting(a), d # c, call[c].agent # a
          PROVE  /\ call[d].at = "insert" => Found(a)' = {}
                 /\ call[d].at = "return" =>
                      /\ row'[call[d].id] = "active"
                      /\ \A e \in Callers : ~(call'[e].at = "store" /\ call'[e].id = call[d].id)
      BY <2>1, <2>2, <3>2 DEF StartsAlone, Starting, Found, CallsNameRows
    <3>3. CASE call[c].agent = a
      BY <2>1, <2>2, <2>3, <2>4, <3>1, <3>3 DEF StartsAlone
    <3>4. CASE call[c].agent # a
      BY <2>1, <2>4, <3>1, <3>2, <3>4 DEF StartsAlone, Starting
    <3> QED
      BY <3>3, <3>4
  <2>6. ClosesMarked(a)'
    BY <2>1 DEF ClosesMarked, Closing
  <2>7. CacheBehind(a)'
    BY <2>1, <2>2, <2>4 DEF CacheBehind, Active
  <2>8. OneFound(a)'
    BY <2>1, <2>3 DEF OneFound, Found
  <2> QED
    BY <2>5, <2>6, <2>7, <2>8
<1>8. ASSUME NEW c \in Callers, Enter(c)
      PROVE  Orderly(a)'
  <2>1. call[c].agent = a => Starting(a) = {c} /\ Closing(a) = {} /\ Active(a) = {}
    BY <1>8, EnterDoes DEF StartsAlone, Starting
  <2>2. StartsAlone(a)'
    BY <1>8, <2>1, EnterDoes DEF StartsAlone, Starting, Closing, Active, Found
  <2>3. ClosesMarked(a)'
    BY <1>8, <2>1, EnterDoes DEF ClosesMarked, Closing, CallsNameRows
  <2>4. CacheBehind(a)'
    <3>1. ASSUME call[c].agent = a
          PROVE  /\ Active(a)' = {call[c].id}
                 /\ row[call[c].id] = "active" /\ stored[call[c].id] = {}
                 /\ \A d \in Callers : ~(call[d].at = "store" /\ call[d].id = call[c].id)
      BY <1>8, <2>1, <3>1, EnterDoes DEF StartsAlone, Active
    <3>2. call[c].agent # a => Active(a)' = Active(a) /\ call[c].id \notin Active(a)
      BY <1>8, EnterDoes DEF Active
    <3>3. CASE call[c].agent = a
      BY <1>8, <3>1, <3>3, EnterDoes DEF CacheBehind
    <3>4. ASSUME call[c].agent # a, NEW v \in Active(a)
          PROVE  /\ row'[v] = "active" /\ stored'[v] \subseteq log'[v]
                 /\ \A d \in Callers : call'[d].at = "store" /\ call'[d].id = v =>
                      call'[d].message \in log'[v]
      <4>1. v \in Ids /\ log'[v] = log[v]
        BY <1>8, <3>2, <3>4, EnterDoes DEF Active
      <4> QED
        BY <1>8, <3>4, <4>1, EnterDoes DEF CacheBehind
    <3> QED
      BY <3>2, <3>3, <3>4 DEF CacheBehind
  <2>5. OneFound(a)'
    BY <1>8, EnterDoes DEF OneFound, Found
  <2> QED
    BY <2>2, <2>3, <2>4, <2>5
<1>9. ASSUME NEW c \in Callers, CommitClose(c)
      PROVE  Orderly(a)'
  <2>1. call[c].agent = a => c \in Closing(a) /\ Starting(a) = {}
    BY <1>9, CommitCloseDoes DEF Closing, StartsAlone
  <2>2. StartsAlone(a)'
    BY <1>9, <2>1, CommitCloseDoes DEF StartsAlone, Starting, Closing, Active, Found, CallsNameRows
  <2>3. ClosesMarked(a)'
    BY <1>9, CommitCloseDoes DEF ClosesMarked, Closing
  <2>4. CacheBehind(a)' /\ OneFound(a)'
    BY <1>9, <2>1, CommitCloseDoes DEF CacheBehind, ClosesMarked, OneFound, Active, Found
  <2> QED
    BY <2>2, <2>3, <2>4
<1>10. ASSUME NEW c \in Callers, Drop(c)
       PROVE  Orderly(a)'
  <2>1. StartsAlone(a)'
    BY <1>10, DropDoes DEF StartsAlone, Starting, Closing, Active, Found
  <2>2. ClosesMarked(a)' /\ CacheBehind(a)' /\ OneFound(a)'
    BY <1>10, DropDoes DEF ClosesMarked, CacheBehind, OneFound, Closing, Active, Found,
       CallsNameRows
  <2> QED
    BY <2>1, <2>2
<1>11. ASSUME NEW c \in Callers, Store(c)
       PROVE  Orderly(a)'
  <2>1. StartsAlone(a)'
    BY <1>11, StoreDoes DEF StartsAlone, Starting, Closing, Active, Found, CallsNameRows
  <2>2. ClosesMarked(a)' /\ OneFound(a)'
    BY <1>11, StoreDoes DEF ClosesMarked, OneFound, Closing, Found
  <2>3. CacheBehind(a)'
    BY <1>11, StoreDoes DEF CacheBehind, Active
  <2> QED
    BY <2>1, <2>2, <2>3
<1>12. CASE Restart
  BY <1>12, RestartDoes DEF StartsAlone, ClosesMarked, CacheBehind, OneFound, Starting, Closing,
     Active, Found
<1>13. CASE UNCHANGED vars
  BY <1>13 DEF vars, database, StartsAlone, ClosesMarked, CacheBehind, OneFound, Starting, Closing,
     Active, Found
<1> QED
  BY <1>1, <1>3, <1>4, <1>5, <1>6, <1>7, <1>8, <1>9, <1>10, <1>11, <1>12, <1>13 DEF Next, Proceed

\* Who raced once stays marked.
LEMMA RacedStays == Base /\ [Next]_vars => raced \subseteq raced'
BY DEF Next, Proceed, vars, StartCall, CloseByUser, CloseByAgent, Mark, Record, FindRow, InsertRow,
   Enter, CommitClose, Drop, Store, Restart

\* The whole invariant, from both steps.
LEMMA InvHolds == Spec => []Inv
<1>1. Init => Inv
  BY BaseInit DEF Init, Inv, Orderly, StartsAlone, ClosesMarked, CacheBehind, OneFound, Starting,
     Closing, Active, Found, NoCall
<1>2. Inv /\ [Next]_vars => Inv'
  BY BaseStep, OrderlyStep, RacedStays DEF Inv
<1> QED
  BY <1>1, <1>2, PTL DEF Spec

\* An agent whose starts overlap neither starts nor closes has one conversation
\* at the most, and cache and database agree about it, to the messages.
THEOREM CacheAgrees == Spec => []OpenIsStored
<1>1. Inv => OpenIsStored
  <2> SUFFICES ASSUME Inv, NEW a \in Agents \ raced
               PROVE  /\ Cardinality(Active(a)) <= 1 /\ Cardinality(Found(a)) <= 1
                      /\ Quiet(a) => \A v \in Active(a) : row[v] = "active" /\ log[v] = stored[v]
    BY DEF OpenIsStored
  <2>1. Active(a) \subseteq Found(a) /\ \A v, w \in Found(a) : v = w
    BY DEF Inv, Orderly, CacheBehind, OneFound, Active, Found
  <2>2. ASSUME NEW S, \A v, w \in S : v = w
        PROVE  Cardinality(S) <= 1
    <3>1. CASE S = {}
      <4>1. Cardinality(S) = 0
        BY <3>1, FS_EmptySet
      <4> QED
        BY <4>1
    <3>2. ASSUME NEW v, S = {v}
          PROVE  Cardinality(S) <= 1
      <4>1. Cardinality(S) = 1
        BY <3>2, FS_Singleton
      <4> QED
        BY <4>1
    <3> QED
      BY <2>2, <3>1, <3>2
  <2>3. Cardinality(Active(a)) <= 1 /\ Cardinality(Found(a)) <= 1
    BY <2>1, <2>2
  <2>4. ASSUME Quiet(a), NEW v \in Active(a)
        PROVE  row[v] = "active" /\ log[v] = stored[v]
    <3>1. row[v] = "active" /\ stored[v] \subseteq log[v]
      BY DEF Inv, Orderly, CacheBehind
    <3>2. \A c \in Callers : call[c].at = "store" => call[c].id # v
      BY <2>4 DEF Inv, Base, CallsNameRows, Quiet, Active
    <3>3. log[v] \subseteq stored[v]
      BY <3>2 DEF Inv, Base, LogIsWritten, Active
    <3> QED
      BY <3>1, <3>3
  <2> QED
    BY <2>3, <2>4
<1> QED
  BY <1>1, InvHolds, PTL

=============================================================================
