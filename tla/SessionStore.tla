---------------------------- MODULE SessionStore ----------------------------
(***************************************************************************)
(* core/session_store.py over db/repositories/session_repo.py, with its two*)
(* kinds of callers: the agent's loop (core/agent.py, _message_loop and    *)
(* process_message) and the session routes (web/routes/sessions.py). The   *)
(* records of different agents do not interact, so one agent is modelled.  *)
(*                                                                         *)
(* Each method of the store is a call of the repository, which loads the   *)
(* row and commits the columns it changed, followed by a change of the     *)
(* cache. `call[p]` is the stage that caller p has reached; every await in *)
(* between lets the others run. The agent reads the cache only.            *)
(***************************************************************************)
EXTENDS Naturals

CONSTANTS
  Routes,      \* requests to the web routes that may run at once
  Agent,       \* the agent's loop
  Threshold,   \* CONSECUTIVE_ERROR_THRESHOLD
  MaxMessages, \* bound on the messages the loop takes
  MaxRequests, \* bound on the requests to the routes
  MaxRestarts  \* bound on the restarts of the process

ASSUME SessionStoreAssumption ==
  /\ Agent \notin Routes
  /\ Threshold \in Nat /\ Threshold > 1
  /\ MaxMessages \in Nat /\ MaxRequests \in Nat /\ MaxRestarts \in Nat

SessionState == {"active", "paused", "killed"}

\* Sessions are numbered in the order the provider makes them; 0 is none.
NoSession == 0

\* The columns that decide what happens; the counters only accumulate.
Record == [session: Nat, state: SessionState, errors: Nat]

Callers == Routes \cup {Agent}

VARIABLES
  cache,      \* SessionStore._cache of the agent
  row,        \* its row in agent_sessions
  call,       \* call[p]: the store method caller p is in, and its stage
  loop,       \* where the agent's loop is, and the session it passes on
  made,       \* number of sessions made by the provider
  messages, requests, restarts, \* taken so far, for the bounds
  wish,       \* history: what the user last asked for, or found at a restart
  streak,     \* history: requests failed in a row since the user intervened
  retired,    \* history: sessions made when the last kill returned
  mixed,      \* history: requests of the user that overlapped another of his
  lapsed      \* history: columns whose cached value was late when it was set

history == <<wish, streak, retired, mixed, lapsed>>
bounds == <<messages, requests, restarts>>
vars == <<cache, row, call, loop, made, bounds, history>>

Ops == {"set", "set_state", "record_request", "invalidate_session", "clear_session"}

\* What a method is passed: a session, a state, or that the request failed.
Args == [session: Nat, state: SessionState, failed: BOOLEAN]
NoArgs == [session |-> NoSession, state |-> "active", failed |-> FALSE]

\* A project whose agent has a record already, and no session.
Fresh == [session |-> NoSession, state |-> "active", errors |-> 0]

Call == [op: Ops \cup {"none"}, args: Args,
         stage: {"load", "commit", "read", "cache"}, loaded: Record]

\* A call that has begun and read nothing yet.
Begun(op, args) == [op |-> op, args |-> args, stage |-> "load", loaded |-> Fresh]
NoCall == Begun("none", NoArgs)

Points == {"idle", "gate", "revive", "prompt", "renew", "invoke", "stale",
           "reinvoke", "keep", "record"}

Loop == [at: Points, session: Nat, attempt: {1, 2}, failed: BOOLEAN]

TypeOK ==
  /\ cache \in Record /\ row \in Record
  /\ call \in [Callers -> Call]
  /\ loop \in Loop
  /\ made \in Nat
  /\ messages \in 0..MaxMessages /\ requests \in 0..MaxRequests
  /\ restarts \in 0..MaxRestarts
  /\ wish \in SessionState \cup {"unclear"} /\ streak \in Nat
  /\ retired \in Nat /\ mixed \subseteq Callers
  /\ lapsed \subseteq {"session", "state"}

AtRest == [at |-> "idle", session |-> NoSession, attempt |-> 1, failed |-> FALSE]

Init ==
  /\ cache = Fresh /\ row = Fresh
  /\ call = [p \in Callers |-> NoCall]
  /\ loop = AtRest
  /\ made = 0 /\ messages = 0 /\ requests = 0 /\ restarts = 0
  /\ wish = "active" /\ streak = 0 /\ retired = 0
  /\ mixed = {} /\ lapsed = {}

-----------------------------------------------------------------------------
(* The store's methods *)

Calling(p) == call[p].op # "none"

\* The state the user asks for by p's call.
Asked(p) == CASE call[p].op = "set_state"     -> call[p].args.state
              [] call[p].op = "clear_session" -> "active"
              [] OTHER                        -> "none"

\* p calls the store: the repository's SELECT comes first. Of two requests of
\* the user under way at once neither is the later one.
Enter(p, op, args) ==
  LET others == {q \in Callers \ {p} : Asked(q) # "none"} IN
  /\ call' = [call EXCEPT ![p] = Begun(op, args)]
  /\ mixed' = IF op \notin {"set_state", "clear_session"} THEN mixed
              ELSE IF others = {} THEN mixed \ {p}
              ELSE mixed \cup others \cup {p}

LoadRow(p) ==
  /\ Calling(p) /\ call[p].stage = "load"
  /\ call' = [call EXCEPT ![p].stage = "commit", ![p].loaded = row]
  /\ UNCHANGED <<cache, row, loop, made, bounds, history>>

\* set_state, of the repository and of the cache alike: only a resume forgets
\* the errors.
Stated(state, old) ==
  [old EXCEPT !.state = state, !.errors = IF state = "active" THEN 0 ELSE @]

\* Mutant: auto-pause one error late.
RecordedLate(old, failed) ==
  LET errors == IF failed THEN old.errors + 1 ELSE 0 IN
  [old EXCEPT !.errors = errors,
              !.state = IF errors > Threshold THEN "paused" ELSE @]

\* SessionRepository.record_request.
Recorded(old, failed) ==
  LET errors == IF failed THEN old.errors + 1 ELSE 0 IN
  [old EXCEPT !.errors = errors,
              !.state = IF errors >= Threshold THEN "paused" ELSE @]

\* What each repository method makes of the row it loaded.
Written(op, args, old) ==
  CASE op = "set"                -> [old EXCEPT !.session = args.session]
    [] op = "set_state"          -> Stated(args.state, old)
    [] op = "record_request"     -> Recorded(old, args.failed)
    [] op = "invalidate_session" -> [old EXCEPT !.session = NoSession]
    [] op = "clear_session"      -> Fresh

\* Only the columns that differ from the loaded row are written.
Merge(current, loaded, new) ==
  [f \in DOMAIN current |-> IF new[f] = loaded[f] THEN current[f] ELSE new[f]]

\* These methods go on to read the row back.
Reloads == {"record_request", "clear_session"}

CommitRow(p) ==
  /\ Calling(p) /\ call[p].stage = "commit"
  /\ row' = Merge(row, call[p].loaded,
                  Written(call[p].op, call[p].args, call[p].loaded))
  /\ call' = [call EXCEPT ![p].stage =
       IF call[p].op \in Reloads THEN "read" ELSE "cache"]
  /\ streak' = IF Asked(p) \in {"active", "killed"} THEN 0
               ELSE IF call[p].op # "record_request" THEN streak
               ELSE IF call[p].args.failed THEN streak + 1 ELSE 0
  /\ UNCHANGED <<cache, loop, made, bounds, wish, retired, mixed, lapsed>>

ReadBack(p) ==
  /\ Calling(p) /\ call[p].stage = "read"
  /\ call' = [call EXCEPT ![p].stage = "cache", ![p].loaded = row]
  /\ UNCHANGED <<cache, row, loop, made, bounds, history>>

\* Mutant: the state a session comes back in is no member of the enum.
AliveMisnamed(state) == IF state = "killed" THEN "alive" ELSE state

Alive(state) == IF state = "killed" THEN "active" ELSE state

\* Mutant: invalidation forgets the session in the database only.
CachedKeepsSession(op, args, old, read) ==
  CASE op = "set" -> [old EXCEPT !.session = args.session]
    [] op = "set_state" -> Stated(args.state, old)
    [] op = "invalidate_session" -> [old EXCEPT !.state = Alive(@), !.errors = 0]
    [] op \in Reloads -> read

\* What each method of the store makes of the cached record.
Cached(op, args, old, read) ==
  CASE op = "set" /\ args.session \notin {NoSession, old.session} ->
         [session |-> args.session, state |-> Alive(old.state), errors |-> 0]
    [] op = "set" /\ args.session \in {NoSession, old.session} ->
         [old EXCEPT !.session = args.session]
    [] op = "set_state" -> Stated(args.state, old)
    [] op = "invalidate_session" ->
         [session |-> NoSession, state |-> Alive(old.state), errors |-> 0]
    [] op \in Reloads -> read

\* The columns that a method of the store sets in the cache.
Columns(op) ==
  CASE op \in {"set", "invalidate_session"} -> {"session"}
    [] op = "set_state"                     -> {"state"}
    [] op \in Reloads                       -> {"session", "state"}

\* The rest of the method: the cache changes and the method returns. What it is
\* given may be late: a row read back, or a state committed, before another
\* call's.
UpdateCache(p) ==
  LET columns == Columns(call[p].op) IN
  /\ Calling(p) /\ call[p].stage = "cache"
  /\ cache' = Cached(call[p].op, call[p].args, cache, call[p].loaded)
  /\ call' = [call EXCEPT ![p] = NoCall]
  /\ lapsed' = (lapsed \ columns) \cup {c \in columns : cache'[c] # row[c]}
  /\ IF Asked(p) = "none" THEN UNCHANGED <<wish, retired>>
     ELSE /\ wish' = IF p \in mixed THEN "unclear" ELSE Asked(p)
          /\ retired' = IF Asked(p) = "killed" THEN made ELSE retired
  /\ UNCHANGED <<row, loop, made, bounds, streak, mixed>>

-----------------------------------------------------------------------------
(* The agent's loop. A step that calls the store waits for it to return.   *)

Returned == ~Calling(Agent)

Go(point) == loop' = [loop EXCEPT !.at = point]

Stay == UNCHANGED <<call, mixed>>

TakeMessage ==
  /\ loop.at = "idle" /\ messages < MaxMessages
  /\ messages' = messages + 1
  /\ loop' = [AtRest EXCEPT !.at = "gate"]
  /\ UNCHANGED <<cache, row, call, made, requests, restarts, history>>

\* Mutant: the loop looks at the pause only while it has nothing to do.
PassGateUnheld ==
  /\ loop.at = "gate"
  /\ Go("prompt")
  /\ UNCHANGED <<cache, row, call, made, bounds, history>>

\* The pause gate holds the message; a killed session is invalidated first.
PassGate ==
  /\ loop.at = "gate" /\ cache.state # "paused"
  /\ IF cache.state = "killed"
       THEN Enter(Agent, "invalidate_session", NoArgs) /\ Go("revive")
       ELSE Stay /\ Go("prompt")
  /\ UNCHANGED <<cache, row, made, bounds, wish, streak, retired, lapsed>>

Revived ==
  /\ loop.at = "revive" /\ Returned
  /\ Go("prompt")
  /\ UNCHANGED <<cache, row, call, made, bounds, history>>

\* _get_system_prompt_if_first_call: a session made for another system prompt
\* is invalidated.
BuildPrompt ==
  /\ loop.at = "prompt"
  /\ \/ Stay /\ loop' = [loop EXCEPT !.at = "invoke", !.session = cache.session]
     \/ /\ cache.session # NoSession
        /\ Enter(Agent, "invalidate_session", NoArgs) /\ Go("renew")
  /\ UNCHANGED <<cache, row, made, bounds, wish, streak, retired, lapsed>>

Renewed ==
  /\ loop.at = "renew" /\ Returned
  /\ loop' = [loop EXCEPT !.at = "invoke", !.session = cache.session]
  /\ UNCHANGED <<cache, row, call, made, bounds, history>>

\* The provider's answer, an error too, names the session it was passed or one
\* it made; an id of the other kind of provider is not kept.
Answer(failed, session) ==
  /\ made' = IF session > made THEN session ELSE made
  /\ loop' = [loop EXCEPT !.failed = failed, !.at = "keep"]
  /\ \/ session # NoSession /\ Enter(Agent, "set", [NoArgs EXCEPT !.session = session])
     \/ Stay
  /\ UNCHANGED <<cache, row, bounds, wish, streak, retired, lapsed>>

Invoke ==
  /\ loop.at \in {"invoke", "reinvoke"}
  /\ \E failed \in BOOLEAN, session \in {loop.session, made + 1} :
       Answer(failed, session)

\* A timeout with a healthy model is tried once more, and the second time
\* escalated without a record of either request.
TimeOut ==
  /\ loop.at = "invoke"
  /\ IF loop.attempt = 1 THEN loop' = [loop EXCEPT !.attempt = 2]
                         ELSE loop' = AtRest
  /\ UNCHANGED <<cache, row, call, made, bounds, history>>

\* "No conversation found": the session is dropped, the request repeated.
FindStale ==
  /\ loop.at = "invoke" /\ loop.session # NoSession
  /\ Enter(Agent, "set", NoArgs)
  /\ Go("stale")
  /\ UNCHANGED <<cache, row, made, bounds, wish, streak, retired, lapsed>>

Reinvoke ==
  /\ loop.at = "stale" /\ Returned
  /\ loop' = [loop EXCEPT !.at = "reinvoke", !.session = NoSession]
  /\ UNCHANGED <<cache, row, call, made, bounds, history>>

\* The task is cancelled while the provider works, or the provider raises.
Abandon ==
  /\ loop.at \in {"invoke", "reinvoke"}
  /\ loop' = AtRest
  /\ UNCHANGED <<cache, row, call, made, bounds, history>>

RecordRequest ==
  /\ loop.at = "keep" /\ Returned
  /\ Enter(Agent, "record_request", [NoArgs EXCEPT !.failed = loop.failed])
  /\ Go("record")
  /\ UNCHANGED <<cache, row, made, bounds, wish, streak, retired, lapsed>>

FinishMessage ==
  /\ loop.at = "record" /\ Returned
  /\ loop' = AtRest
  /\ UNCHANGED <<cache, row, call, made, bounds, history>>

-----------------------------------------------------------------------------
(* The routes *)

Request(p, op, args) ==
  /\ ~Calling(p) /\ requests < MaxRequests
  /\ requests' = requests + 1
  /\ Enter(p, op, args)
  /\ UNCHANGED <<cache, row, loop, made, messages, restarts, wish, streak, retired,
                 lapsed>>

\* pause, resume and kill; pause-all and resume-all are the same per agent.
ChangeState(p, state) == Request(p, "set_state", [NoArgs EXCEPT !.state = state])

ResetSession(p) == Request(p, "clear_session", NoArgs)

\* A new provider, or a new set of MCP tools.
Invalidate(p) == Request(p, "invalidate_session", NoArgs)

\* The process stops, in the midst of calls perhaps, and starts again: it sets
\* paused sessions active. What the row says is what the user finds.
Restart ==
  /\ restarts < MaxRestarts /\ restarts' = restarts + 1
  /\ row' = IF row.state = "paused" THEN [row EXCEPT !.state = "active", !.errors = 0]
            ELSE row
  /\ cache' = row'
  /\ call' = [p \in Callers |-> NoCall]
  /\ loop' = AtRest
  /\ wish' = row'.state
  /\ streak' = IF row.state = "paused" THEN 0 ELSE streak
  /\ mixed' = {} /\ lapsed' = {}
  /\ UNCHANGED <<made, messages, requests, retired>>

StoreStep(p) == LoadRow(p) \/ CommitRow(p) \/ ReadBack(p) \/ UpdateCache(p)

LoopStep ==
  \/ TakeMessage \/ PassGate \/ Revived \/ BuildPrompt \/ Renewed
  \/ Invoke \/ TimeOut \/ FindStale \/ Reinvoke \/ Abandon
  \/ RecordRequest \/ FinishMessage

Next ==
  \/ \E p \in Callers : StoreStep(p)
  \/ LoopStep
  \/ \E p \in Routes :
       \/ \E state \in SessionState : ChangeState(p, state)
       \/ ResetSession(p) \/ Invalidate(p)
  \/ Restart

Spec == Init /\ [][Next]_vars

-----------------------------------------------------------------------------
(* Properties *)

\* No request of the user that asks for something else is under way.
Unopposed == \A p \in Callers : Asked(p) \in {"none", wish}

TakesMessage == loop.at = "gate" /\ loop'.at \in {"revive", "prompt"}

\* After the pause route has returned, the agent takes no message to the
\* provider until the user asks otherwise or the process restarts: whatever
\* record_request, set and invalidate_session, begun before or after, make of
\* the row and of the cache; but not once one of them has put a state in the
\* cache that the row no longer had. PauseIsObeyed makes no such exception.
PauseHolds ==
  [][TakesMessage /\ wish = "paused" /\ Unopposed => "state" \in lapsed]_vars

\* Threshold failed requests in a row stop the agent until the user steps in:
\* a session renewed in between does not restart the count, and no overlapping
\* request of the user, except one whose late writing of the cache undoes it.
AutoPauseHolds ==
  [][TakesMessage /\ streak >= Threshold => "state" \in lapsed]_vars

\* A message taken up after the kill route has returned.
TakesUpKilled ==
  loop.at \in {"gate", "revive"} /\ loop'.at = "prompt" /\ wish = "killed" /\ Unopposed

\* It resumes no session from before the kill, whether or not an invocation was
\* under way then: with the same exception, which KillIsObeyed does not make.
KillHolds ==
  [][TakesUpKilled /\ lapsed = {} =>
       cache.session = NoSession \/ cache.session > retired]_vars

\* The pause route's "Agent will hold messages until resumed": false of the
\* code, since record_request reads the row, awaits, and writes it to the cache
\* over a pause that has returned meanwhile.
PauseIsObeyed == [][TakesMessage /\ Unopposed => wish # "paused"]_vars

\* The kill route's "Next invocation will create a fresh session": false of the
\* code for the same reason.
KillIsObeyed ==
  [][TakesUpKilled => cache.session = NoSession \/ cache.session > retired]_vars

=============================================================================
