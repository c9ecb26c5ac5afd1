---------------------------- MODULE AgentProofs -----------------------------
(***************************************************************************)
(* What holds of the components an agent leans on, for every value of      *)
(* their constants: SessionStore, Prompts and McpServers, one part each.   *)
(* The parts do not use one another.                                       *)
(***************************************************************************)
EXTENDS SessionStore, Prompts, McpServers, WellFoundedInduction, TLAPS

-----------------------------------------------------------------------------
(***************************************************************************)
(* SessionStore: for any number of requests to the routes at once, any     *)
(* threshold, and any number of messages, requests and restarts.           *)
(***************************************************************************)

(* The invariant of SessionStore *)

\* The methods that the loop may be in at each point, and the routes at any.
Doing(at) ==
  CASE at \in {"idle", "gate", "prompt", "invoke", "reinvoke"} -> {"none"}
    [] at \in {"revive", "renew"} -> {"none", "invalidate_session"}
    [] at \in {"stale", "keep"}   -> {"none", "set"}
    [] at = "record"              -> {"none", "record_request"}

Placed ==
  /\ call[Agent].op \in Doing(loop.at)
  /\ loop.at = "stale" => call[Agent].args.session = NoSession \/ ~Calling(Agent)
  /\ \A p \in Routes :
       call[p].op \in {"none", "set_state", "clear_session", "invalidate_session"}

\* Of two requests of the user under way at once neither is the later one.
UserApart ==
  \A p, q \in Callers : p # q /\ Asked(p) # "none" /\ Asked(q) # "none" => p \in mixed

\* A pause, a resume or a kill that overlaps no other request of the user finds
\* the state it read, and leaves the state it asks for, unless the agent pauses.
Alone(p) == p \notin mixed /\ call[p].op = "set_state"

WishReaches ==
  \A p \in Callers : Alone(p) =>
    /\ call[p].stage = "commit" /\ call[p].loaded.state = call[p].args.state =>
         row.state \in {call[p].args.state, "paused"}
    /\ call[p].stage \in {"read", "cache"} => row.state \in {call[p].args.state, "paused"}

\* The errors are counted in the row, also by a request that read it before the
\* user stepped in, and lead to a pause there.
Recording == call[Agent].op = "record_request"

Counted ==
  /\ streak <= row.errors
  /\ streak >= Threshold => row.state = "paused"
  /\ Recording /\ call[Agent].stage = "commit" =>
       /\ streak <= call[Agent].loaded.errors
       /\ call[Agent].loaded.state = "paused" => row.state = "paused" \/ streak = 0

\* The pause reaches the cache with the request that failed.
CachedPause ==
  \/ streak < Threshold \/ "state" \in lapsed \/ cache.state = "paused"
  \/ Recording /\ call[Agent].stage \in {"read", "cache"}

\* What the user asked for is in the row, and in the cache.
PauseGranted ==
  wish = "paused" /\ Unopposed =>
    row.state = "paused" /\ ("state" \in lapsed \/ cache.state = "paused")

KillGranted == wish = "killed" /\ Unopposed => row.state \in {"killed", "paused"}

\* A killed session that was in use comes back until its request is recorded.
Passing == loop.at = "keep" \/ (loop.at = "record" /\ Calling(Agent))

CachedKill ==
  \/ ~(wish = "killed" /\ Unopposed) \/ lapsed # {} \/ Passing
  \/ cache.state # "active" \/ cache.session = NoSession \/ cache.session > retired

\* The loop finds no session after it revived a killed one.
Emptied ==
  loop.at = "revive" =>
    /\ Calling(Agent) /\ call[Agent].stage = "commit"
         /\ call[Agent].loaded.session = NoSession => row.session = NoSession
    /\ Calling(Agent) /\ call[Agent].stage \in {"read", "cache"} => row.session = NoSession
    /\ ~Calling(Agent) => row.session = NoSession
                          /\ ("session" \in lapsed \/ cache.session = NoSession)

AsAsked ==
  /\ UserApart /\ WishReaches /\ Counted /\ CachedPause
  /\ PauseGranted /\ KillGranted /\ CachedKill /\ Emptied

Inv == TypeOK /\ Placed /\ AsAsked

-----------------------------------------------------------------------------
(* The operators on records *)

LEMMA MergeIs ==
  ASSUME NEW a \in Record, NEW b \in Record, NEW c \in Record
  PROVE  /\ Merge(a, b, c) \in Record
         /\ Merge(a, b, c).session = IF c.session = b.session THEN a.session ELSE c.session
         /\ Merge(a, b, c).state = IF c.state = b.state THEN a.state ELSE c.state
         /\ Merge(a, b, c).errors = IF c.errors = b.errors THEN a.errors ELSE c.errors
  BY DEF Merge, Record

LEMMA WrittenTyped ==
  ASSUME NEW op \in Ops, NEW args \in Args, NEW old \in Record
  PROVE  Written(op, args, old) \in Record
  <1>1. CASE op = "set"
    BY <1>1 DEF Written, Args, Record
  <1>2. CASE op = "set_state"
    BY <1>2 DEF Written, Stated, Args, Record, SessionState
  <1>3. CASE op = "record_request"
    <2> DEFINE errors == IF args.failed THEN old.errors + 1 ELSE 0
               state  == IF errors >= Threshold THEN "paused" ELSE old.state
    <2>1. errors \in Nat /\ state \in SessionState
      BY DEF Record, SessionState
    <2>2. Written(op, args, old) = [session |-> old.session, state |-> state, errors |-> errors]
      BY <1>3 DEF Written, Recorded, Record
    <2> QED  BY <2>1, <2>2 DEF Record
  <1>4. CASE op = "invalidate_session"
    BY <1>4 DEF Written, Record, NoSession
  <1>5. CASE op = "clear_session"
    BY <1>5 DEF Written, Fresh, Record, SessionState, NoSession
  <1> QED  BY <1>1, <1>2, <1>3, <1>4, <1>5 DEF Ops

LEMMA CachedTyped ==
  ASSUME NEW op \in Ops, NEW args \in Args, NEW old \in Record, NEW read \in Record
  PROVE  Cached(op, args, old, read) \in Record
  <1>1. CASE op = "set"
    BY <1>1 DEF Cached, Alive, Args, Record, SessionState, NoSession
  <1>2. CASE op = "set_state"
    BY <1>2 DEF Cached, Stated, Args, Record, SessionState
  <1>3. CASE op = "invalidate_session"
    BY <1>3 DEF Cached, Alive, Record, SessionState, NoSession
  <1>4. CASE op \in Reloads
    BY <1>4 DEF Cached, Reloads
  <1> QED  BY <1>1, <1>2, <1>3, <1>4 DEF Ops, Reloads

LEMMA NoCallTyped == NoCall \in Call /\ NoArgs \in Args /\ Fresh \in Record
  BY DEF NoCall, Begun, NoArgs, Fresh, Call, Args, Record, SessionState, NoSession

LEMMA BegunTyped ==
  ASSUME NEW op \in Ops, NEW args \in Args
  PROVE  Begun(op, args) \in Call
  BY NoCallTyped DEF Begun, Call

LEMMA AtRestTyped == AtRest \in Loop
  BY DEF AtRest, Loop, Points, NoSession

\* What each method leaves as it was, and what it puts in its place.
LEMMA WrittenIs ==
  ASSUME NEW op \in Ops, NEW args \in Args, NEW old \in Record,
         NEW new, new = Written(op, args, old)
  PROVE  /\ op \in {"set_state", "record_request"} => new.session = old.session
         /\ op \in {"invalidate_session", "clear_session"} => new.session = NoSession
         /\ op \in {"set", "invalidate_session"} =>
              new.state = old.state /\ new.errors = old.errors
         /\ op = "set_state" =>
              /\ new.state = args.state
              /\ args.state # "active" => new.errors = old.errors
         /\ op = "clear_session" => new.state = "active"
         /\ op = "record_request" =>
              /\ new.errors = IF args.failed THEN old.errors + 1 ELSE 0
              /\ new.state = IF new.errors >= Threshold THEN "paused" ELSE old.state
  <1>1. CASE op \in {"set", "invalidate_session", "clear_session"}
    BY <1>1 DEF Written, Fresh, Record
  <1>2. CASE op = "set_state"
    BY <1>2 DEF Written, Stated, Record
  <1>3. CASE op = "record_request"
    BY <1>3 DEF Written, Recorded, Record
  <1> QED  BY <1>1, <1>2, <1>3 DEF Ops

-----------------------------------------------------------------------------
(* Types *)

LEMMA EnterTyped ==
  ASSUME TypeOK, NEW p \in Callers, NEW op \in Ops, NEW args \in Args, Enter(p, op, args)
  PROVE  /\ call' \in [Callers -> Call]
         /\ mixed' \subseteq Callers
  BY BegunTyped DEF TypeOK, Enter

LEMMA StoreTyped ==
  ASSUME TypeOK, NEW p \in Callers, StoreStep(p)
  PROVE  TypeOK'
  <1>0. /\ row \in Record /\ cache \in Record /\ call \in [Callers -> Call] /\ call[p] \in Call
        /\ wish \in SessionState \cup {"unclear"} /\ streak \in Nat
        /\ made \in Nat /\ retired \in Nat /\ lapsed \subseteq {"session", "state"}
    BY DEF TypeOK
  <1>1. CASE LoadRow(p)
    BY <1>0, <1>1 DEF TypeOK, LoadRow, Call, bounds, history
  <1>2. CASE CommitRow(p)
    <2>1. call[p].op \in Ops /\ call[p].args \in Args /\ call[p].loaded \in Record
      BY <1>0, <1>2 DEF CommitRow, Calling, Call
    <2>2. row' \in Record
      BY <1>0, <1>2, <2>1, WrittenTyped, MergeIs DEF CommitRow
    <2>3. call' \in [Callers -> Call] /\ streak' \in Nat
      BY <1>0, <1>2 DEF CommitRow, Call
    <2> QED  BY <1>2, <2>2, <2>3 DEF TypeOK, CommitRow, bounds
  <1>3. CASE ReadBack(p)
    BY <1>0, <1>3 DEF TypeOK, ReadBack, Call, bounds, history
  <1>4. CASE UpdateCache(p)
    <2>1. call[p].op \in Ops /\ call[p].args \in Args /\ call[p].loaded \in Record
      BY <1>0, <1>4 DEF UpdateCache, Calling, Call
    <2>2. cache' \in Record
      BY <1>0, <1>4, <2>1, CachedTyped DEF UpdateCache
    <2>3. call' \in [Callers -> Call] /\ lapsed' \subseteq {"session", "state"}
      BY <1>0, <1>4, <2>1, NoCallTyped DEF UpdateCache, Columns, Reloads, Ops
    <2>4. wish' \in SessionState \cup {"unclear"} /\ retired' \in Nat
      BY <1>0, <1>4, <2>1 DEF UpdateCache, Asked, Args, SessionState
    <2> QED  BY <1>4, <2>2, <2>3, <2>4 DEF TypeOK, UpdateCache, bounds
  <1> QED  BY <1>1, <1>2, <1>3, <1>4 DEF StoreStep

\* What the steps of the loop may change.
LEMMA LoopTyped ==
  ASSUME TypeOK, LoopStep
  PROVE  TypeOK'
  <1>0. /\ Agent \in Callers /\ loop \in Loop /\ made \in Nat /\ cache \in Record
        /\ \A s \in Nat : [NoArgs EXCEPT !.session = s] \in Args
        /\ \A f \in BOOLEAN : [NoArgs EXCEPT !.failed = f] \in Args
        /\ NoArgs \in Args
    BY DEF TypeOK, Callers, NoArgs, Args, SessionState, NoSession
  <1>1. ASSUME NEW at \in Points, Go(at)  PROVE loop' \in Loop
    BY <1>0, <1>1 DEF Go, Loop
  <1>2. CASE TakeMessage
    <2>1. loop' \in Loop
      BY <1>2 DEF TakeMessage, AtRest, Loop, Points, NoSession
    <2> QED
      BY <1>2, <2>1, SessionStoreAssumption DEF TypeOK, TakeMessage, history
  <1>3. CASE PassGate
    BY <1>0, <1>1, <1>3, EnterTyped DEF TypeOK, PassGate, Stay, Points, Ops, bounds
  <1>4. CASE Revived
    BY <1>1, <1>4 DEF TypeOK, Revived, Points, bounds, history
  <1>5. CASE BuildPrompt
    <2>1. CASE Stay /\ loop' = [loop EXCEPT !.at = "invoke", !.session = cache.session]
      <3>1. loop' \in Loop
        BY <1>0, <2>1 DEF Loop, Record, Points
      <3> QED  BY <1>5, <2>1, <3>1 DEF TypeOK, BuildPrompt, Stay, bounds
    <2>2. CASE Enter(Agent, "invalidate_session", NoArgs) /\ Go("renew")
      BY <1>0, <1>1, <1>5, <2>2, EnterTyped DEF TypeOK, BuildPrompt, Points, Ops, bounds
    <2> QED  BY <1>5, <2>1, <2>2 DEF BuildPrompt
  <1>6. CASE Renewed
    <2>1. loop' \in Loop
      BY <1>0, <1>6 DEF Renewed, Loop, Record, Points
    <2> QED  BY <1>6, <2>1 DEF TypeOK, Renewed, bounds, history
  <1>7. CASE Invoke
    <2>1. PICK failed \in BOOLEAN, sid \in {loop.session, made + 1} : Answer(failed, sid)
      BY <1>7 DEF Invoke
    <2>2. sid \in Nat
      BY <1>0 DEF Loop
    <2>3. loop' \in Loop /\ made' \in Nat
      BY <1>0, <2>1, <2>2 DEF Answer, Loop, Points
    <2>4. call' \in [Callers -> Call] /\ mixed' \subseteq Callers
      BY <1>0, <2>1, <2>2, EnterTyped DEF Answer, Stay, TypeOK, Ops
    <2> QED  BY <2>1, <2>3, <2>4 DEF TypeOK, Answer, bounds
  <1>8. CASE TimeOut
    <2>1. loop' \in Loop
      BY <1>0, <1>8, AtRestTyped DEF TimeOut, Loop
    <2> QED  BY <1>8, <2>1 DEF TypeOK, TimeOut, bounds, history
  <1>9. CASE FindStale
    BY <1>0, <1>1, <1>9, EnterTyped DEF TypeOK, FindStale, Points, Ops, bounds
  <1>10. CASE Reinvoke
    <2>1. loop' \in Loop
      BY <1>0, <1>10 DEF Reinvoke, Loop, Points, NoSession
    <2> QED  BY <1>10, <2>1 DEF TypeOK, Reinvoke, bounds, history
  <1>11. CASE Abandon
    BY <1>11, AtRestTyped DEF TypeOK, Abandon, bounds, history
  <1>12. CASE RecordRequest
    <2>1. loop.failed \in BOOLEAN
      BY <1>0 DEF Loop
    <2> QED  BY <1>0, <1>1, <1>12, <2>1, EnterTyped DEF TypeOK, RecordRequest, Points, Ops, bounds
  <1>13. CASE FinishMessage
    BY <1>13, AtRestTyped DEF TypeOK, FinishMessage, bounds, history
  <1> QED
    BY <1>2, <1>3, <1>4, <1>5, <1>6, <1>7, <1>8, <1>9, <1>10, <1>11, <1>12, <1>13 DEF LoopStep

LEMMA RequestTyped ==
  ASSUME TypeOK, NEW p \in Callers, NEW op \in Ops, NEW args \in Args, Request(p, op, args)
  PROVE  TypeOK'
  BY EnterTyped, SessionStoreAssumption DEF TypeOK, Request

LEMMA RestartTyped ==
  ASSUME TypeOK, Restart
  PROVE  TypeOK'
  <1>1. row' \in Record /\ cache' \in Record /\ wish' \in SessionState /\ streak' \in Nat
    BY DEF TypeOK, Restart, Record, SessionState
  <1>2. call' \in [Callers -> Call] /\ loop' \in Loop
    BY NoCallTyped, AtRestTyped DEF Restart
  <1> QED  BY <1>1, <1>2, SessionStoreAssumption DEF TypeOK, Restart

\* The requests that the routes make.
LEMMA RequestsAre ==
  ASSUME NEW p \in Routes,
         (\E state \in SessionState : ChangeState(p, state)) \/ ResetSession(p) \/ Invalidate(p)
  PROVE  \E op \in {"set_state", "clear_session", "invalidate_session"}, args \in Args :
           Request(p, op, args)
  <1>1. NoArgs \in Args /\ \A s \in SessionState : [NoArgs EXCEPT !.state = s] \in Args
    BY NoCallTyped DEF Args
  <1> QED  BY <1>1 DEF ChangeState, ResetSession, Invalidate

LEMMA InitTyped == Init => TypeOK
  <1> SUFFICES ASSUME Init  PROVE TypeOK
    OBVIOUS
  <1>1. call \in [Callers -> Call] /\ loop \in Loop
    BY NoCallTyped, AtRestTyped DEF Init
  <1>2. cache \in Record /\ row \in Record /\ wish \in SessionState \cup {"unclear"}
    BY NoCallTyped DEF Init, SessionState
  <1>3. /\ messages \in 0..MaxMessages /\ requests \in 0..MaxRequests
        /\ restarts \in 0..MaxRestarts
    BY SessionStoreAssumption DEF Init
  <1>4. /\ made \in Nat /\ streak \in Nat /\ retired \in Nat
        /\ mixed \subseteq Callers /\ lapsed \subseteq {"session", "state"}
    BY DEF Init
  <1> QED
    BY <1>1, <1>2, <1>3, <1>4 DEF TypeOK

LEMMA NextTyped ==
  ASSUME TypeOK, [Next]_vars
  PROVE  TypeOK'
  <1>1. CASE \E p \in Callers : StoreStep(p)
    BY <1>1, StoreTyped
  <1>2. CASE LoopStep
    BY <1>2, LoopTyped
  <1>3. ASSUME NEW p \in Routes,
               (\E state \in SessionState : ChangeState(p, state))
               \/ ResetSession(p) \/ Invalidate(p)
        PROVE  TypeOK'
    BY <1>3, RequestsAre, RequestTyped DEF Callers, Ops
  <1>4. CASE Restart
    BY <1>4, RestartTyped
  <1>5. CASE UNCHANGED vars
    BY <1>5 DEF TypeOK, vars, bounds, history
  <1> QED  BY <1>1, <1>2, <1>3, <1>4, <1>5 DEF Next

\* Whatever calls of the loop and of the routes are under way at once, and wherever
\* a restart cuts them off, the record, its row and the calls keep their types.
THEOREM TypeCorrect == Spec => []TypeOK
  <1>1. TypeOK /\ [Next]_vars => TypeOK'
    BY NextTyped
  <1> QED  BY InitTyped, <1>1, PTL DEF Spec

-----------------------------------------------------------------------------
(* Which calls are under way *)

\* The steps of a method before its last one leave what it was asked for.
LEMMA StoreKeeps ==
  ASSUME TypeOK, NEW p \in Callers, LoadRow(p) \/ CommitRow(p) \/ ReadBack(p)
  PROVE  /\ \A q \in Callers : /\ call'[q].op = call[q].op /\ call'[q].args = call[q].args
                               /\ q # p => call'[q] = call[q]
         /\ UNCHANGED <<cache, loop, made, bounds, wish, retired, mixed, lapsed>>
  BY DEF TypeOK, LoadRow, CommitRow, ReadBack, Call, history

LEMMA SameCalls ==
  ASSUME \A q \in Callers : call'[q].op = call[q].op /\ call'[q].args = call[q].args
  PROVE  \A q \in Callers : Asked(q)' = Asked(q) /\ Calling(q)' = Calling(q)
  BY DEF Asked, Calling

LEMMA EnterIs ==
  ASSUME TypeOK, NEW p \in Callers, NEW op, NEW args, Enter(p, op, args)
  PROVE  /\ call'[p] = Begun(op, args)
         /\ call'[p].op = op /\ call'[p].args = args /\ call'[p].stage = "load"
         /\ \A q \in Callers \ {p} : call'[q] = call[q]
  BY DEF TypeOK, Enter, Begun

LEMMA AskedIs ==
  ASSUME TypeOK, NEW p \in Callers
  PROVE  /\ Asked(p) # "none" <=> call[p].op \in {"set_state", "clear_session"}
         /\ call[p].op = "set_state" => Asked(p) = call[p].args.state
         /\ call[p].op = "clear_session" => Asked(p) = "active"
         /\ Asked(p) \in SessionState \cup {"none"}
         /\ Asked(p) # "none" => Calling(p)
  BY DEF TypeOK, Call, Args, SessionState, Asked, Calling

LEMMA UpdateIs ==
  ASSUME TypeOK, NEW p \in Callers, UpdateCache(p)
  PROVE  /\ call'[p].op = "none"
         /\ \A q \in Callers \ {p} : call'[q] = call[q]
  BY DEF TypeOK, UpdateCache, NoCall, Begun

LEMMA LoopPlaced ==
  ASSUME TypeOK, Placed, LoopStep
  PROVE  Placed'
  <1>0. /\ Agent \in Callers /\ Routes \subseteq Callers /\ Agent \notin Routes
        /\ loop \in Loop /\ loop.at \in Points
    BY SessionStoreAssumption DEF TypeOK, Callers, Loop
  <1>1. ASSUME NEW at, loop'.at = at, call' = call, call[Agent].op \in Doing(at), at # "stale"
        PROVE  Placed'
    BY <1>1 DEF Placed
  <1>2. ASSUME NEW at, loop'.at = at, NEW op, NEW args, Enter(Agent, op, args),
               op \in Doing(at), at = "stale" => args.session = NoSession
        PROVE  Placed'
    BY <1>0, <1>2, EnterIs DEF Placed
  <1>3. ~Calling(Agent) => call[Agent].op = "none"
    BY DEF Calling
  <1>4. ASSUME NEW at, Go(at)  PROVE loop'.at = at
    BY <1>0, <1>4 DEF Go, Loop
  <1>5. AtRest.at = "idle"
    BY DEF AtRest
  <1>6. CASE TakeMessage
    <2>1. loop'.at = "gate"
      BY <1>6 DEF TakeMessage, AtRest
    <2> QED  BY <1>1, <1>6, <2>1 DEF TakeMessage, Placed, Doing
  <1>7. CASE PassGate
    BY <1>1, <1>2, <1>4, <1>7 DEF PassGate, Stay, Placed, Doing
  <1>8. CASE Revived
    BY <1>1, <1>3, <1>4, <1>8 DEF Revived, Returned, Doing
  <1>9. CASE BuildPrompt
    <2>1. CASE Stay /\ loop' = [loop EXCEPT !.at = "invoke", !.session = cache.session]
      <3>1. loop'.at = "invoke"
        BY <1>0, <2>1 DEF Loop
      <3> QED  BY <1>1, <1>9, <2>1, <3>1 DEF BuildPrompt, Stay, Placed, Doing
    <2>2. CASE Enter(Agent, "invalidate_session", NoArgs) /\ Go("renew")
      BY <1>2, <1>4, <2>2 DEF Doing
    <2> QED  BY <1>9, <2>1, <2>2 DEF BuildPrompt
  <1>10. CASE Renewed
    <2>1. loop'.at = "invoke"
      BY <1>0, <1>10 DEF Renewed, Loop
    <2> QED  BY <1>1, <1>3, <1>10, <2>1 DEF Renewed, Returned, Doing
  <1>11. CASE Invoke
    <2>1. PICK failed \in BOOLEAN, sid \in {loop.session, made + 1} : Answer(failed, sid)
      BY <1>11 DEF Invoke
    <2>2. loop'.at = "keep"
      BY <1>0, <2>1 DEF Answer, Loop
    <2>3. CASE Stay
      BY <1>1, <1>11, <2>2, <2>3 DEF Invoke, Stay, Placed, Doing
    <2>4. CASE Enter(Agent, "set", [NoArgs EXCEPT !.session = sid])
      BY <1>2, <2>2, <2>4 DEF Doing
    <2> QED  BY <2>1, <2>3, <2>4 DEF Answer
  <1>12. CASE TimeOut
    <2>1. loop'.at \in {"invoke", "idle"}
      BY <1>0, <1>5, <1>12 DEF TimeOut, Loop
    <2> QED  BY <1>1, <1>12, <2>1 DEF TimeOut, Placed, Doing
  <1>13. CASE FindStale
    <2>1. NoArgs.session = NoSession
      BY DEF NoArgs
    <2> QED  BY <1>2, <1>4, <1>13, <2>1 DEF FindStale, Doing
  <1>14. CASE Reinvoke
    <2>1. loop'.at = "reinvoke"
      BY <1>0, <1>14 DEF Reinvoke, Loop
    <2> QED  BY <1>1, <1>3, <1>14, <2>1 DEF Reinvoke, Returned, Doing
  <1>15. CASE Abandon
    BY <1>1, <1>5, <1>15 DEF Abandon, Placed, Doing
  <1>16. CASE RecordRequest
    BY <1>2, <1>4, <1>16 DEF RecordRequest, Doing
  <1>17. CASE FinishMessage
    BY <1>1, <1>3, <1>5, <1>17 DEF FinishMessage, Returned, Doing
  <1> QED
    BY <1>6, <1>7, <1>8, <1>9, <1>10, <1>11, <1>12, <1>13, <1>14, <1>15, <1>16, <1>17
    DEF LoopStep

LEMMA NextPlaced ==
  ASSUME TypeOK, Placed, [Next]_vars
  PROVE  Placed'
  <1>0. /\ Agent \in Callers /\ Routes \subseteq Callers /\ Agent \notin Routes
        /\ loop.at \in Points
    BY SessionStoreAssumption DEF TypeOK, Callers, Loop
  <1>1. ASSUME NEW p \in Callers, LoadRow(p) \/ CommitRow(p) \/ ReadBack(p)
        PROVE  Placed'
    <2>1. \A q \in Callers : call'[q].op = call[q].op /\ call'[q].args = call[q].args
      BY <1>1, StoreKeeps
    <2>2. loop' = loop
      BY <1>1, StoreKeeps
    <2> QED  BY <1>0, <2>1, <2>2 DEF Placed, Calling
  <1>2. ASSUME NEW p \in Callers, UpdateCache(p)
        PROVE  Placed'
    <2>1. "none" \in Doing(loop.at)
      BY <1>0 DEF Points, Doing
    <2> QED  BY <1>0, <1>2, <2>1, UpdateIs DEF Placed, UpdateCache, Calling
  <1>3. ASSUME NEW p \in Routes, NEW args \in Args,
               NEW op \in {"set_state", "clear_session", "invalidate_session"},
               Request(p, op, args)
        PROVE  Placed'
    BY <1>0, <1>3, EnterIs DEF Placed, Request, Calling
  <1>4. CASE Restart
    BY <1>0, <1>4 DEF Restart, Placed, NoCall, Begun, AtRest, Doing
  <1>5. CASE UNCHANGED vars
    BY <1>5 DEF vars, Placed, Calling
  <1> QED
    BY <1>1, <1>2, <1>3, <1>4, <1>5, LoopPlaced, RequestsAre DEF Next, StoreStep

-----------------------------------------------------------------------------
(* What the user and the agent asked of the record *)

LEMMA CallTyped ==
  ASSUME TypeOK, NEW p \in Callers
  PROVE  /\ call[p] \in Call
         /\ call[p].args \in Args /\ call[p].loaded \in Record
         /\ call[p].stage \in {"load", "commit", "read", "cache"}
         /\ Calling(p) => call[p].op \in Ops
  BY DEF TypeOK, Call, Calling

LEMMA LoadKept ==
  ASSUME TypeOK, AsAsked, NEW p \in Callers, LoadRow(p) \/ ReadBack(p)
  PROVE  AsAsked'
  <1>1. /\ \A q \in Callers : /\ call'[q].op = call[q].op /\ call'[q].args = call[q].args
                              /\ q # p => call'[q] = call[q]
        /\ UNCHANGED <<cache, loop, made, wish, retired, mixed, lapsed>>
    BY StoreKeeps
  <1>2. \A q \in Callers : Asked(q)' = Asked(q) /\ Calling(q)' = Calling(q)
    BY <1>1, SameCalls
  <1>3. UNCHANGED <<row, streak>>
    BY DEF LoadRow, ReadBack, history
  <1>4. /\ call'[p].stage = "commit" => call'[p].loaded = row
        /\ call'[p].stage \in {"read", "cache"} <=> call[p].stage \in {"read", "cache"}
    BY CallTyped DEF TypeOK, LoadRow, ReadBack, Call
  <1>5. Agent \in Callers
    BY DEF Callers
  <1>6. Unopposed' = Unopposed
    BY <1>1, <1>2 DEF Unopposed
  <1>7. UserApart'
    BY <1>1, <1>2 DEF AsAsked, UserApart
  <1>8. WishReaches'
    <2> SUFFICES ASSUME NEW q \in Callers, Alone(q)'
                 PROVE  /\ call'[q].stage = "commit" /\ call'[q].loaded.state = call'[q].args.state =>
                             row.state \in {call'[q].args.state, "paused"}
                        /\ call'[q].stage \in {"read", "cache"} =>
                             row.state \in {call'[q].args.state, "paused"}
      BY <1>3 DEF WishReaches
    <2>1. Alone(q)
      BY <1>1 DEF Alone
    <2> QED  BY <1>1, <1>4, <2>1 DEF AsAsked, WishReaches
  <1>9. Counted'
    <2>1. Recording' = Recording
      BY <1>1, <1>5 DEF Recording
    <2>2. CASE p = Agent
      BY <1>3, <1>4, <2>1, <2>2 DEF AsAsked, Counted
    <2>3. CASE p # Agent
      BY <1>1, <1>3, <1>5, <2>1, <2>3 DEF AsAsked, Counted
    <2> QED  BY <2>2, <2>3
  <1>10. CachedPause'
    <2>1. call'[Agent].stage \in {"read", "cache"} <=> call[Agent].stage \in {"read", "cache"}
      BY <1>1, <1>4, <1>5
    <2> QED  BY <1>1, <1>3, <1>5, <2>1 DEF AsAsked, CachedPause, Recording
  <1>11. PauseGranted' /\ KillGranted'
    BY <1>1, <1>3, <1>6 DEF AsAsked, PauseGranted, KillGranted
  <1>12. CachedKill'
    BY <1>1, <1>2, <1>5, <1>6 DEF AsAsked, CachedKill, Passing
  <1>13. Emptied'
    <2>1. CASE p = Agent
      BY <1>1, <1>2, <1>3, <1>4, <1>5, <2>1 DEF AsAsked, Emptied
    <2>2. CASE p # Agent
      BY <1>1, <1>2, <1>3, <1>5, <2>2 DEF AsAsked, Emptied
    <2> QED  BY <2>1, <2>2
  <1> QED
    BY <1>7, <1>8, <1>9, <1>10, <1>11, <1>12, <1>13 DEF AsAsked

\* What a commit makes of the row.
LEMMA CommitIs ==
  ASSUME TypeOK, NEW p \in Callers, CommitRow(p),
         NEW loaded, loaded = call[p].loaded,
         NEW new, new = Written(call[p].op, call[p].args, call[p].loaded)
  PROVE  /\ loaded \in Record /\ new \in Record
         /\ row'.session = IF new.session = loaded.session THEN row.session ELSE new.session
         /\ row'.state = IF new.state = loaded.state THEN row.state ELSE new.state
         /\ row'.errors = IF new.errors = loaded.errors THEN row.errors ELSE new.errors
  <1>1. Calling(p) /\ row \in Record
    BY DEF CommitRow, TypeOK
  <1>2. loaded \in Record /\ new \in Record
    BY <1>1, CallTyped, WrittenTyped
  <1> QED  BY <1>1, <1>2, MergeIs DEF CommitRow

LEMMA CommitKept ==
  ASSUME TypeOK, Placed, AsAsked, NEW p \in Callers, CommitRow(p)
  PROVE  AsAsked'
  <1> DEFINE loaded == call[p].loaded
             new == Written(call[p].op, call[p].args, call[p].loaded)
  <1>0. /\ Calling(p) /\ call[p].stage = "commit" /\ call[p].op \in Ops /\ call[p].args \in Args
        /\ row \in Record /\ row' \in Record /\ streak \in Nat /\ loop.at \in Points
        /\ Agent \in Callers /\ Routes = Callers \ {Agent}
    <2>1. row' \in Record
      BY StoreTyped DEF StoreStep, TypeOK
    <2> QED
      BY <2>1, CallTyped, SessionStoreAssumption DEF CommitRow, TypeOK, Callers, Loop
  <1>1. /\ loaded \in Record /\ new \in Record
        /\ row'.session = IF new.session = loaded.session THEN row.session ELSE new.session
        /\ row'.state = IF new.state = loaded.state THEN row.state ELSE new.state
        /\ row'.errors = IF new.errors = loaded.errors THEN row.errors ELSE new.errors
    BY CommitIs
  <1>2. /\ \A q \in Callers : /\ call'[q].op = call[q].op /\ call'[q].args = call[q].args
                              /\ q # p => call'[q] = call[q]
        /\ UNCHANGED <<cache, loop, made, wish, retired, mixed, lapsed>>
    BY StoreKeeps
  <1>3. \A q \in Callers : Asked(q)' = Asked(q) /\ Calling(q)' = Calling(q)
    BY <1>2, SameCalls
  <1>4. call'[p].stage \in {"read", "cache"}
    BY DEF CommitRow, TypeOK, Call
  <1>5. call[p].op = "record_request" <=> (p = Agent /\ Recording)
    BY <1>0 DEF Placed, Recording
  <1>6. /\ call[p].op \in {"set_state", "record_request"} => new.session = loaded.session
        /\ call[p].op \in {"invalidate_session", "clear_session"} => new.session = NoSession
        /\ call[p].op \in {"set", "invalidate_session"} =>
             new.state = loaded.state /\ new.errors = loaded.errors
        /\ call[p].op = "set_state" =>
             /\ new.state = call[p].args.state
             /\ call[p].args.state # "active" => new.errors = loaded.errors
        /\ call[p].op = "clear_session" => new.state = "active"
        /\ call[p].op = "record_request" =>
             /\ new.errors = IF call[p].args.failed THEN loaded.errors + 1 ELSE 0
             /\ new.state = IF new.errors >= Threshold THEN "paused" ELSE loaded.state
    BY <1>0, <1>1, WrittenIs
  <1>7. /\ Asked(p) # "none" <=> call[p].op \in {"set_state", "clear_session"}
        /\ call[p].op = "set_state" => Asked(p) = call[p].args.state
        /\ call[p].op = "clear_session" => Asked(p) = "active"
        /\ Asked(p) \in SessionState \cup {"none"}
    BY AskedIs
  <1>8. Asked(p) = "none" => row'.state \in {row.state, "paused"}
    BY <1>0, <1>1, <1>6, <1>7 DEF Ops
  <1>9. Asked(p) # "none" => row'.state \in {row.state, Asked(p)}
    BY <1>0, <1>1, <1>6, <1>7 DEF Ops
  <1>10. /\ Asked(p) \in {"active", "killed"} => streak' = 0
         /\ call[p].op = "record_request" =>
              streak' = IF call[p].args.failed THEN streak + 1 ELSE 0
         /\ call[p].op \in {"set", "invalidate_session"} \/ Asked(p) = "paused" =>
              streak' = streak
    BY <1>7 DEF CommitRow
  <1>11. Unopposed' = Unopposed
    BY <1>2, <1>3 DEF Unopposed
  <1>12. UserApart'
    BY <1>2, <1>3 DEF AsAsked, UserApart
  <1>13. WishReaches'
    <2> SUFFICES ASSUME NEW q \in Callers, Alone(q)'
                 PROVE  /\ call'[q].stage = "commit" /\ call'[q].loaded.state = call'[q].args.state =>
                             row'.state \in {call'[q].args.state, "paused"}
                        /\ call'[q].stage \in {"read", "cache"} =>
                             row'.state \in {call'[q].args.state, "paused"}
      BY DEF WishReaches
    <2>1. Alone(q) /\ Asked(q) # "none"
      BY <1>2, AskedIs DEF Alone
    <2>2. CASE q = p
      BY <1>0, <1>1, <1>2, <1>4, <1>6, <2>1, <2>2 DEF AsAsked, WishReaches, Alone
    <2>3. CASE q # p
      <3>1. Asked(p) = "none"
        BY <2>1, <2>3 DEF AsAsked, UserApart, Alone
      <3> QED  BY <1>2, <1>8, <2>1, <2>3, <3>1 DEF AsAsked, WishReaches
    <2> QED  BY <2>2, <2>3
  <1>14. Counted'
    <2>1. CASE call[p].op = "record_request"
      <3>1. p = Agent /\ Recording
        BY <1>5, <2>1
      <3>2. streak <= loaded.errors /\ (loaded.state = "paused" => row.state = "paused" \/ streak = 0)
        BY <1>0, <3>1 DEF AsAsked, Counted
      <3>3. loaded.errors \in Nat /\ row.errors \in Nat /\ row'.errors \in Nat
        BY <1>0, <1>1 DEF Record
      <3>4. streak' <= row'.errors /\ (streak' >= Threshold => row'.state = "paused")
        <4>1. CASE call[p].args.failed
          <5>1. streak' = streak + 1 /\ new.errors = loaded.errors + 1
            BY <1>6, <1>10, <2>1, <4>1
          <5>2. row'.errors = loaded.errors + 1
            BY <1>1, <3>3, <5>1
          <5>3. ASSUME streak' >= Threshold  PROVE row'.state = "paused"
            <6>1. new.errors >= Threshold
              BY <1>0, <3>2, <3>3, <5>1, <5>3, SessionStoreAssumption
            <6>2. new.state = "paused"
              BY <1>6, <2>1, <6>1
            <6>3. streak # 0
              BY <1>0, <5>1, <5>3, SessionStoreAssumption
            <6> QED  BY <1>1, <3>2, <6>2, <6>3
          <5> QED  BY <1>0, <3>2, <3>3, <5>1, <5>2, <5>3
        <4>2. CASE ~call[p].args.failed
          BY <1>10, <2>1, <3>3, <4>2, SessionStoreAssumption
        <4> QED  BY <4>1, <4>2
      <3> QED  BY <1>4, <3>1, <3>4 DEF Counted
    <2>2. CASE Asked(p) \in {"active", "killed"}
      <3>1. streak' = 0
        BY <1>10, <2>2
      <3>2. p # Agent
        BY <1>0, <1>7, <2>2 DEF Placed, Doing, Points
      <3>3. call'[Agent] = call[Agent] /\ call[Agent].loaded.errors \in Nat /\ row'.errors \in Nat
        BY <1>0, <1>2, <3>2, CallTyped DEF Record
      <3> QED  BY <3>1, <3>3, SessionStoreAssumption DEF Counted
    <2>3. CASE call[p].op \in {"set", "invalidate_session"} \/ Asked(p) = "paused"
      <3>1. streak' = streak
        BY <1>10, <2>3
      <3>2. row'.errors = row.errors
        <4>1. CASE call[p].op \in {"set", "invalidate_session"}
          BY <1>1, <1>6, <4>1
        <4>2. CASE Asked(p) = "paused"
          BY <1>1, <1>6, <1>7, <4>2
        <4> QED  BY <2>3, <4>1, <4>2
      <3>3. row.state = "paused" => row'.state = "paused"
        BY <1>8, <1>9, <2>3, <1>7
      <3>4. Recording' /\ call'[Agent].stage = "commit" =>
              Recording /\ call'[Agent] = call[Agent]
        BY <1>0, <1>2, <1>4 DEF Recording
      <3> QED  BY <3>1, <3>2, <3>3, <3>4 DEF AsAsked, Counted
    <2> QED  BY <1>0, <1>7, <2>1, <2>2, <2>3 DEF Ops, SessionState
  <1>15. CachedPause'
    <2>1. CASE call[p].op = "record_request"
      BY <1>2, <1>4, <1>5, <2>1 DEF CachedPause, Recording
    <2>2. CASE call[p].op # "record_request"
      <3>1. streak' = 0 \/ streak' = streak
        BY <1>0, <1>7, <1>10, <2>2 DEF Ops, SessionState
      <3>2. Recording => Recording' /\ call'[Agent] = call[Agent]
        BY <1>0, <1>2, <2>2 DEF Recording
      <3> QED
        BY <1>0, <1>2, <3>1, <3>2, SessionStoreAssumption DEF AsAsked, CachedPause
    <2> QED  BY <2>1, <2>2
  <1>16. PauseGranted' /\ KillGranted'
    <2>1. Unopposed => Asked(p) \in {"none", wish}
      BY DEF Unopposed
    <2> QED
      BY <1>2, <1>8, <1>9, <1>11, <2>1 DEF AsAsked, PauseGranted, KillGranted
  <1>17. CachedKill'
    BY <1>0, <1>2, <1>3, <1>11 DEF AsAsked, CachedKill, Passing
  <1>18. Emptied'
    <2> SUFFICES ASSUME loop.at = "revive"  PROVE Emptied'
      BY <1>2 DEF Emptied
    <2>1. p = Agent => call[p].op = "invalidate_session"
      BY <1>0 DEF Placed, Doing, Calling
    <2>2. CASE p = Agent
      BY <1>0, <1>1, <1>3, <1>4, <1>6, <2>1, <2>2 DEF AsAsked, Emptied
    <2>3. CASE p # Agent
      <3>1. row.session = NoSession => row'.session = NoSession
        BY <1>0, <1>1, <1>6, <2>3 DEF Placed, Calling
      <3> QED  BY <1>0, <1>2, <1>3, <2>3, <3>1 DEF AsAsked, Emptied
    <2> QED  BY <2>2, <2>3
  <1> QED
    BY <1>12, <1>13, <1>14, <1>15, <1>16, <1>17, <1>18 DEF AsAsked

\* What the end of a method makes of the cache.
LEMMA CacheIs ==
  ASSUME TypeOK, NEW p \in Callers, UpdateCache(p)
  PROVE  /\ call[p].op \in {"set", "invalidate_session"} =>
              /\ cache'.state = cache.state \/ (cache'.state = "active" /\ cache.state = "killed")
              /\ "state" \in lapsed' <=> "state" \in lapsed
         /\ call[p].op = "invalidate_session" => cache'.session = NoSession
         /\ call[p].op = "set" => cache'.session = call[p].args.session
         /\ call[p].op = "set_state" =>
              /\ cache'.state = call[p].args.state /\ cache'.session = cache.session
              /\ "session" \in lapsed' <=> "session" \in lapsed
              /\ "state" \in lapsed' \/ cache'.state = row.state
         /\ call[p].op \in Reloads =>
              /\ "state" \in lapsed' \/ cache'.state = row.state
              /\ "session" \in lapsed' \/ cache'.session = row.session
  <1>0. /\ Calling(p) /\ call[p].op \in Ops /\ call[p].args \in Args /\ cache \in Record
        /\ cache' = Cached(call[p].op, call[p].args, cache, call[p].loaded)
        /\ lapsed' = (lapsed \ Columns(call[p].op))
                       \cup {c \in Columns(call[p].op) : cache'[c] # row[c]}
    BY CallTyped DEF UpdateCache, TypeOK
  <1>1. CASE call[p].op = "set"
    <2>1. \/ cache' = [session |-> call[p].args.session, state |-> Alive(cache.state),
                       errors |-> 0]
          \/ cache' = [cache EXCEPT !.session = call[p].args.session]
      BY <1>0, <1>1 DEF Cached, Reloads
    <2>2. Columns(call[p].op) = {"session"}
      BY <1>1 DEF Columns, Reloads
    <2> QED  BY <1>0, <1>1, <2>1, <2>2 DEF Alive, Record, Reloads
  <1>2. CASE call[p].op = "invalidate_session"
    <2>1. cache' = [session |-> NoSession, state |-> Alive(cache.state), errors |-> 0]
      BY <1>0, <1>2 DEF Cached, Reloads
    <2>2. Columns(call[p].op) = {"session"}
      BY <1>2 DEF Columns, Reloads
    <2> QED  BY <1>0, <1>2, <2>1, <2>2 DEF Alive, Reloads
  <1>3. CASE call[p].op = "set_state"
    <2>1. cache' = Stated(call[p].args.state, cache)
      BY <1>0, <1>3 DEF Cached, Reloads
    <2>2. Columns(call[p].op) = {"state"}
      BY <1>3 DEF Columns, Reloads
    <2> QED  BY <1>0, <1>3, <2>1, <2>2 DEF Stated, Record, Reloads
  <1>4. CASE call[p].op \in Reloads
    <2>1. Columns(call[p].op) = {"session", "state"}
      BY <1>4 DEF Columns, Reloads
    <2> QED  BY <1>0, <1>4, <2>1 DEF Reloads
  <1> QED  BY <1>0, <1>1, <1>2, <1>3, <1>4 DEF Ops, Reloads

LEMMA UpdateKept ==
  ASSUME TypeOK, Placed, AsAsked, NEW p \in Callers, UpdateCache(p)
  PROVE  AsAsked'
  <1>0. /\ Calling(p) /\ call[p].stage = "cache" /\ call[p].op \in Ops
        /\ row \in Record /\ streak \in Nat /\ loop.at \in Points
        /\ Agent \in Callers /\ Routes = Callers \ {Agent}
    BY CallTyped, SessionStoreAssumption DEF UpdateCache, TypeOK, Callers, Loop
  <1>1. /\ call'[p].op = "none"
        /\ \A q \in Callers \ {p} : call'[q] = call[q]
    BY UpdateIs
  <1>2. UNCHANGED <<row, loop, made, streak, mixed>>
    BY DEF UpdateCache
  <1>3. /\ ~Calling(p)' /\ Asked(p)' = "none"
        /\ \A q \in Callers \ {p} : Calling(q)' = Calling(q) /\ Asked(q)' = Asked(q)
    BY <1>1 DEF Calling, Asked
  <1>4. /\ call[p].op \in {"set", "invalidate_session"} =>
             /\ cache'.state = cache.state \/ (cache'.state = "active" /\ cache.state = "killed")
             /\ "state" \in lapsed' <=> "state" \in lapsed
        /\ call[p].op = "invalidate_session" => cache'.session = NoSession
        /\ call[p].op = "set" => cache'.session = call[p].args.session
        /\ call[p].op = "set_state" =>
             /\ cache'.state = call[p].args.state /\ cache'.session = cache.session
             /\ "session" \in lapsed' <=> "session" \in lapsed
             /\ "state" \in lapsed' \/ cache'.state = row.state
        /\ call[p].op \in {"record_request", "clear_session"} =>
             /\ "state" \in lapsed' \/ cache'.state = row.state
             /\ "session" \in lapsed' \/ cache'.session = row.session
    BY CacheIs DEF Reloads
  <1>5. /\ Asked(p) # "none" <=> call[p].op \in {"set_state", "clear_session"}
        /\ call[p].op = "set_state" => Asked(p) = call[p].args.state
        /\ call[p].op = "clear_session" => Asked(p) = "active"
    BY AskedIs
  <1>6. UserApart'
    BY <1>2, <1>3 DEF AsAsked, UserApart
  <1>7. WishReaches'
    BY <1>1, <1>2 DEF AsAsked, WishReaches, Alone
  <1>8. Recording' => Recording /\ call'[Agent] = call[Agent]
    BY <1>0, <1>1 DEF Recording
  <1>9. Counted'
    BY <1>2, <1>8 DEF AsAsked, Counted
  <1>10. CachedPause'
    <2>1. CASE call[p].op \in {"set", "invalidate_session"}
      <3>1. Recording => Recording' /\ call'[Agent] = call[Agent]
        BY <1>0, <1>1, <2>1 DEF Recording
      <3> QED  BY <1>2, <1>4, <2>1, <3>1 DEF AsAsked, CachedPause
    <2>2. CASE call[p].op \in {"set_state", "record_request", "clear_session"}
      <3>1. "state" \in lapsed' \/ cache'.state = row.state
        BY <1>4, <2>2
      <3>2. streak < Threshold \/ row.state = "paused"
        BY <1>0, SessionStoreAssumption DEF AsAsked, Counted
      <3> QED  BY <1>2, <3>1, <3>2 DEF CachedPause
    <2> QED  BY <1>0, <2>1, <2>2 DEF Ops
  <1>11. Emptied'
    <2> SUFFICES ASSUME loop.at = "revive"  PROVE Emptied'
      BY <1>2 DEF Emptied
    <2>1. CASE p = Agent
      <3>1. call[p].op = "invalidate_session"
        BY <1>0, <2>1 DEF Placed, Doing, Calling
      <3>2. row.session = NoSession
        BY <1>0, <2>1 DEF AsAsked, Emptied
      <3> QED  BY <1>2, <1>3, <1>4, <2>1, <3>1, <3>2 DEF Emptied
    <2>2. CASE p # Agent
      <3>1. call'[Agent] = call[Agent] /\ Calling(Agent)' = Calling(Agent)
        BY <1>0, <1>1, <1>3, <2>2
      <3>2. ASSUME ~Calling(Agent)
            PROVE  "session" \in lapsed' \/ cache'.session = NoSession
        <4>1. row.session = NoSession /\ ("session" \in lapsed \/ cache.session = NoSession)
          BY <3>2 DEF AsAsked, Emptied
        <4>2. call[p].op \in {"set_state", "clear_session", "invalidate_session"}
          BY <1>0, <2>2 DEF Placed, Calling
        <4> QED  BY <1>4, <4>1, <4>2
      <3> QED  BY <1>2, <3>1, <3>2 DEF AsAsked, Emptied
    <2> QED  BY <2>1, <2>2
  <1>12. CASE Asked(p) # "none"
    <2>1. wish' = IF p \in mixed THEN "unclear" ELSE Asked(p)
      BY <1>12 DEF UpdateCache
    <2>2. CASE p \notin mixed /\ call[p].op = "set_state"
      <3>1. row.state \in {wish', "paused"} /\ cache'.state = wish'
        BY <1>0, <1>4, <1>5, <2>1, <2>2 DEF AsAsked, WishReaches, Alone
      <3> QED
        BY <1>2, <1>6, <1>7, <1>9, <1>10, <1>11, <3>1
        DEF AsAsked, PauseGranted, KillGranted, CachedKill
    <2>3. CASE p \in mixed \/ call[p].op = "clear_session"
      <3>1. wish' \notin {"paused", "killed"}
        BY <1>5, <2>1, <2>3
      <3> QED
        BY <1>6, <1>7, <1>9, <1>10, <1>11, <3>1
        DEF AsAsked, PauseGranted, KillGranted, CachedKill
    <2> QED  BY <1>5, <1>12, <2>2, <2>3
  <1>13. CASE Asked(p) = "none"
    <2>1. UNCHANGED <<wish, retired>>
      BY <1>13 DEF UpdateCache
    <2>2. Unopposed' = Unopposed
      BY <1>3, <1>13, <2>1 DEF Unopposed
    <2>3. call[p].op \in {"set", "invalidate_session", "record_request"}
      BY <1>0, <1>5, <1>13 DEF Ops
    <2>4. PauseGranted' /\ KillGranted'
      BY <1>2, <1>4, <2>1, <2>2, <2>3 DEF AsAsked, PauseGranted, KillGranted
    <2>5. CachedKill'
      <3> SUFFICES ASSUME Unopposed, lapsed' = {}, ~Passing', wish = "killed", cache'.state = "active"
                   PROVE  cache'.session = NoSession \/ cache'.session > retired'
        BY <2>1, <2>2 DEF CachedKill
      <3>1. CASE call[p].op = "invalidate_session"
        BY <1>4, <3>1
      <3>2. CASE call[p].op = "record_request"
        BY <1>4, <3>2 DEF AsAsked, KillGranted
      <3>3. CASE call[p].op = "set"
        <4>1. p = Agent /\ loop.at \in {"stale", "keep"}
          BY <1>0, <3>3 DEF Placed, Doing, Points
        <4>2. loop.at = "stale"
          BY <1>2, <4>1 DEF Passing
        <4> QED  BY <1>0, <1>4, <3>3, <4>1, <4>2 DEF Placed
      <3> QED  BY <2>3, <3>1, <3>2, <3>3
    <2> QED
      BY <1>6, <1>7, <1>9, <1>10, <1>11, <2>4, <2>5 DEF AsAsked
  <1> QED  BY <1>12, <1>13

\* A call that begins takes nothing back.
LEMMA EnterKept ==
  ASSUME TypeOK, AsAsked, NEW p \in Callers, ~Calling(p), NEW op \in Ops, NEW args \in Args,
         Enter(p, op, args), UNCHANGED <<cache, row, wish, streak, retired, lapsed>>
  PROVE  /\ UserApart' /\ WishReaches' /\ Counted' /\ CachedPause'
         /\ PauseGranted' /\ KillGranted'
         /\ Unopposed' => Unopposed
         /\ p \in Routes => call'[Agent] = call[Agent]
  <1>0. Agent \in Callers /\ Agent \notin Routes
    BY SessionStoreAssumption DEF Callers
  <1>1. /\ call'[p].op = op /\ call'[p].args = args /\ call'[p].stage = "load"
        /\ \A q \in Callers \ {p} : call'[q] = call[q]
    BY EnterIs
  <1>2. /\ Asked(p) = "none"
        /\ \A q \in Callers \ {p} : Asked(q)' = Asked(q)
        /\ Asked(p)' # "none" => op \in {"set_state", "clear_session"}
    BY <1>1 DEF Calling, Asked
  <1>3. mixed \ {p} \subseteq mixed'
    BY DEF Enter
  <1>4. ASSUME NEW q \in Callers \ {p}, Asked(q) # "none", Asked(p)' # "none"
        PROVE  p \in mixed' /\ q \in mixed'
    BY <1>2, <1>4 DEF Enter
  <1>5. UserApart'
    BY <1>2, <1>3, <1>4 DEF AsAsked, UserApart
  <1>6. WishReaches'
    <2>1. ASSUME NEW q \in Callers, Alone(q)'  PROVE q = p \/ Alone(q)
      BY <1>1, <1>3, <2>1 DEF Alone
    <2> QED  BY <1>1, <2>1 DEF AsAsked, WishReaches
  <1>7. /\ Recording' /\ call'[Agent].stage # "load" => Recording /\ call'[Agent] = call[Agent]
        /\ Recording => Recording' /\ call'[Agent] = call[Agent]
    BY <1>0, <1>1 DEF Recording, Calling
  <1>8. Counted' /\ CachedPause'
    BY <1>7 DEF AsAsked, Counted, CachedPause
  <1>9. Unopposed' => Unopposed
    BY <1>2 DEF Unopposed
  <1>10. PauseGranted' /\ KillGranted'
    BY <1>9 DEF AsAsked, PauseGranted, KillGranted
  <1> QED
    BY <1>0, <1>1, <1>5, <1>6, <1>8, <1>9, <1>10

LEMMA RequestKept ==
  ASSUME TypeOK, AsAsked, NEW p \in Routes, NEW op \in Ops, NEW args \in Args, Request(p, op, args)
  PROVE  AsAsked'
  <1>1. p \in Callers
    BY DEF Callers
  <1>2. /\ UserApart' /\ WishReaches' /\ Counted' /\ CachedPause'
        /\ PauseGranted' /\ KillGranted'
        /\ Unopposed' => Unopposed
        /\ call'[Agent] = call[Agent]
    BY <1>1, EnterKept DEF Request
  <1>3. CachedKill' /\ Emptied'
    BY <1>2 DEF Request, AsAsked, CachedKill, Passing, Emptied, Calling
  <1> QED  BY <1>2, <1>3 DEF AsAsked

\* The loop leaves the record to the store, and holds a killed session only while
\* the request it serves is not recorded.
LEMMA LoopKept ==
  ASSUME TypeOK, Placed, AsAsked, LoopStep
  PROVE  AsAsked'
  <1>0. /\ Agent \in Callers /\ loop \in Loop /\ loop.at \in Points /\ NoArgs \in Args
        /\ \A s \in Nat : [NoArgs EXCEPT !.session = s] \in Args
        /\ \A f \in BOOLEAN : [NoArgs EXCEPT !.failed = f] \in Args
    BY NoCallTyped DEF TypeOK, Callers, Loop, Args
  <1>1. ASSUME UNCHANGED <<cache, row, call, wish, streak, retired, mixed, lapsed>>,
               Passing => Passing', loop'.at = "revive" => loop.at = "revive"
        PROVE  AsAsked'
    <2>1. /\ UserApart' /\ WishReaches' /\ Counted' /\ CachedPause'
          /\ PauseGranted' /\ KillGranted' /\ Unopposed' = Unopposed
      BY <1>1 DEF AsAsked, UserApart, WishReaches, Counted, CachedPause, PauseGranted, KillGranted,
                  Asked, Alone, Recording, Unopposed
    <2>2. CachedKill' /\ Emptied'
      BY <1>1, <2>1 DEF AsAsked, CachedKill, Emptied, Calling
    <2> QED  BY <2>1, <2>2 DEF AsAsked
  <1>2. ASSUME NEW op \in Ops, NEW args \in Args, ~Calling(Agent), Enter(Agent, op, args),
               UNCHANGED <<cache, row, wish, streak, retired, lapsed>>,
               Passing => Passing'
        PROVE  AsAsked'
    <2>1. /\ UserApart' /\ WishReaches' /\ Counted' /\ CachedPause'
          /\ PauseGranted' /\ KillGranted'
          /\ Unopposed' => Unopposed
      BY <1>0, <1>2, EnterKept
    <2>2. Calling(Agent)' /\ call'[Agent].stage = "load"
      BY <1>0, <1>2, EnterIs DEF Calling, Ops
    <2>3. CachedKill' /\ Emptied'
      BY <1>2, <2>1, <2>2 DEF AsAsked, CachedKill, Emptied
    <2> QED  BY <2>1, <2>3 DEF AsAsked
  <1>3. loop.at \in {"idle", "gate", "prompt", "invoke", "reinvoke"} => ~Calling(Agent)
    BY DEF Placed, Doing, Calling
  <1>4. ASSUME NEW at, Go(at)  PROVE loop'.at = at
    BY <1>0, <1>4 DEF Go, Loop
  <1>5. AtRest.at = "idle"
    BY DEF AtRest
  <1>6. CASE TakeMessage
    BY <1>1, <1>6 DEF TakeMessage, Passing, AtRest, history
  <1>7. CASE PassGate
    BY <1>0, <1>1, <1>2, <1>3, <1>4, <1>7 DEF PassGate, Stay, Passing, Ops
  <1>8. CASE Revived
    BY <1>1, <1>4, <1>8 DEF Revived, Passing, history
  <1>9. CASE BuildPrompt
    <2>1. CASE Stay /\ loop' = [loop EXCEPT !.at = "invoke", !.session = cache.session]
      <3>1. loop'.at = "invoke"
        BY <1>0, <2>1 DEF Loop
      <3> QED  BY <1>1, <1>9, <2>1, <3>1 DEF BuildPrompt, Stay, Passing
    <2>2. CASE Enter(Agent, "invalidate_session", NoArgs) /\ Go("renew")
      BY <1>0, <1>2, <1>3, <1>9, <2>2 DEF BuildPrompt, Passing, Ops
    <2> QED  BY <1>9, <2>1, <2>2 DEF BuildPrompt
  <1>10. CASE Renewed
    <2>1. loop'.at = "invoke"
      BY <1>0, <1>10 DEF Renewed, Loop
    <2> QED  BY <1>1, <1>10, <2>1 DEF Renewed, Passing, history
  <1>11. CASE Invoke
    <2>1. PICK failed \in BOOLEAN, sid \in {loop.session, made + 1} : Answer(failed, sid)
      BY <1>11 DEF Invoke
    <2>2. loop'.at = "keep" /\ sid \in Nat
      BY <1>0, <2>1 DEF Answer, Loop, TypeOK
    <2>3. CASE Stay
      <3>1. /\ UserApart' /\ WishReaches' /\ Counted' /\ CachedPause'
            /\ PauseGranted' /\ KillGranted'
        BY <2>1, <2>3
        DEF Answer, Stay, AsAsked, UserApart, WishReaches, Counted, CachedPause, PauseGranted,
            KillGranted, Asked, Alone, Recording, Unopposed
      <3>2. CachedKill' /\ Emptied'
        BY <2>2 DEF CachedKill, Passing, Emptied
      <3> QED  BY <3>1, <3>2 DEF AsAsked
    <2>4. CASE Enter(Agent, "set", [NoArgs EXCEPT !.session = sid])
      BY <1>0, <1>2, <1>3, <1>11, <2>1, <2>2, <2>4 DEF Invoke, Answer, Passing, Ops
    <2> QED  BY <2>1, <2>3, <2>4 DEF Answer
  <1>12. CASE TimeOut
    <2>1. loop'.at \in {"invoke", "idle"}
      BY <1>0, <1>5, <1>12 DEF TimeOut, Loop
    <2> QED  BY <1>1, <1>12, <2>1 DEF TimeOut, Passing, history
  <1>13. CASE FindStale
    BY <1>0, <1>2, <1>3, <1>13 DEF FindStale, Passing, Ops
  <1>14. CASE Reinvoke
    <2>1. loop'.at = "reinvoke"
      BY <1>0, <1>14 DEF Reinvoke, Loop
    <2> QED  BY <1>1, <1>14, <2>1 DEF Reinvoke, Passing, history
  <1>15. CASE Abandon
    BY <1>1, <1>5, <1>15 DEF Abandon, Passing, history
  <1>16. CASE RecordRequest
    <2>1. loop'.at = "record" /\ loop.failed \in BOOLEAN
      BY <1>0, <1>4, <1>16 DEF RecordRequest, Loop
    <2>2. Calling(Agent)'
      BY <1>0, <1>16, EnterIs DEF RecordRequest, Calling
    <2> QED
      BY <1>0, <1>2, <1>16, <2>1, <2>2 DEF RecordRequest, Returned, Passing, Ops
  <1>17. CASE FinishMessage
    BY <1>1, <1>5, <1>17 DEF FinishMessage, Returned, Passing, history
  <1> QED
    BY <1>6, <1>7, <1>8, <1>9, <1>10, <1>11, <1>12, <1>13, <1>14, <1>15, <1>16, <1>17
    DEF LoopStep

LEMMA RestartKept ==
  ASSUME TypeOK, AsAsked, Restart
  PROVE  AsAsked'
  <1>1. \A q \in Callers : call'[q].op = "none" /\ Asked(q)' = "none"
    BY DEF Restart, Asked, NoCall, Begun
  <1>2. /\ loop'.at = "idle" /\ cache' = row' /\ wish' = row'.state
        /\ row'.state # "paused"
        /\ row.state = "paused" => streak' = 0
        /\ row.state # "paused" => row' = row /\ streak' = streak
    BY DEF Restart, AtRest, TypeOK, Record
  <1>3. Agent \in Callers /\ row' \in Record /\ streak \in Nat
    BY RestartTyped DEF TypeOK, Callers
  <1>4. UserApart' /\ WishReaches'
    BY <1>1 DEF UserApart, WishReaches, Alone
  <1>5. streak' <= row'.errors /\ streak' < Threshold
    <2>1. CASE row.state = "paused"
      BY <1>2, <1>3, <2>1, SessionStoreAssumption DEF Record
    <2>2. CASE row.state # "paused"
      BY <1>2, <1>3, <2>2, SessionStoreAssumption DEF AsAsked, Counted
    <2> QED  BY <2>1, <2>2
  <1>6. Counted' /\ CachedPause'
    BY <1>1, <1>2, <1>3, <1>5, SessionStoreAssumption DEF Counted, CachedPause, Recording
  <1>7. PauseGranted' /\ KillGranted' /\ CachedKill' /\ Emptied'
    BY <1>2 DEF PauseGranted, KillGranted, CachedKill, Emptied
  <1> QED  BY <1>4, <1>6, <1>7 DEF AsAsked

LEMMA InitKept == Init => Placed /\ AsAsked
  <1> SUFFICES ASSUME Init  PROVE Placed /\ AsAsked
    OBVIOUS
  <1>1. /\ \A q \in Callers : call[q].op = "none" /\ ~Calling(q) /\ Asked(q) = "none"
        /\ Agent \in Callers /\ Routes \subseteq Callers
    BY DEF Init, Calling, Asked, NoCall, Begun, Callers
  <1>2. loop.at = "idle"
    BY DEF Init, AtRest
  <1>3. Placed
    BY <1>1, <1>2 DEF Placed, Doing
  <1>4. UserApart /\ WishReaches
    BY <1>1 DEF UserApart, WishReaches, Alone
  <1>5. Counted /\ CachedPause
    BY <1>1, SessionStoreAssumption DEF Init, Fresh, Counted, CachedPause, Recording
  <1>6. PauseGranted /\ KillGranted /\ CachedKill /\ Emptied
    BY <1>2 DEF Init, PauseGranted, KillGranted, CachedKill, Emptied
  <1> QED  BY <1>3, <1>4, <1>5, <1>6 DEF AsAsked

LEMMA NextKept ==
  ASSUME Inv, [Next]_vars
  PROVE  Inv'
  <1>1. TypeOK /\ Placed /\ AsAsked /\ TypeOK' /\ Placed'
    BY NextTyped, NextPlaced DEF Inv
  <1>2. CASE \E p \in Callers : StoreStep(p)
    BY <1>1, <1>2, LoadKept, CommitKept, UpdateKept DEF StoreStep, Inv
  <1>3. CASE LoopStep
    BY <1>1, <1>3, LoopKept DEF Inv
  <1>4. ASSUME NEW p \in Routes, NEW args \in Args,
               NEW op \in {"set_state", "clear_session", "invalidate_session"},
               Request(p, op, args)
        PROVE  Inv'
    BY <1>1, <1>4, RequestKept DEF Ops, Inv
  <1>5. CASE Restart
    BY <1>1, <1>5, RestartKept DEF Inv
  <1>6. CASE UNCHANGED vars
    <2>1. /\ UserApart' /\ WishReaches' /\ Counted' /\ CachedPause'
          /\ PauseGranted' /\ KillGranted' /\ Unopposed' = Unopposed
      BY <1>1, <1>6
      DEF vars, history, AsAsked, UserApart, WishReaches, Counted, CachedPause, PauseGranted,
          KillGranted, Asked, Alone, Recording, Unopposed
    <2>2. CachedKill' /\ Emptied'
      BY <1>1, <1>6, <2>1 DEF vars, history, AsAsked, CachedKill, Passing, Emptied, Calling
    <2> QED  BY <1>1, <2>1, <2>2 DEF AsAsked, Inv
  <1> QED
    BY <1>2, <1>3, <1>4, <1>5, <1>6, RequestsAre DEF Next

LEMMA Invariance == Spec => []Inv
  <1>1. Init => Inv
    BY InitTyped, InitKept DEF Inv
  <1>2. Inv /\ [Next]_vars => Inv'
    BY NextKept
  <1> QED  BY <1>1, <1>2, PTL DEF Spec

-----------------------------------------------------------------------------
(* What the gate lets through *)

\* Only the loop moves the loop on.
LEMMA LoopMoves ==
  ASSUME [Next]_vars, loop' # loop, loop'.at # "idle"
  PROVE  LoopStep
  <1>1. ~(\E p \in Callers : StoreStep(p))
    BY DEF StoreStep, LoadRow, CommitRow, ReadBack, UpdateCache
  <1>2. ~Restart /\ ~UNCHANGED vars
    BY DEF Restart, AtRest, vars
  <1>3. \A p \in Routes, op \in Ops, args \in Args : ~Request(p, op, args)
    BY DEF Request
  <1> QED  BY <1>1, <1>2, <1>3, RequestsAre DEF Next, Ops

LEMMA GateIsPassed ==
  ASSUME [Next]_vars, loop.at = "gate", loop'.at \in {"revive", "prompt"}
  PROVE  PassGate
  <1>1. LoopStep
    BY LoopMoves
  <1> QED
    BY <1>1 DEF LoopStep, TakeMessage, Revived, BuildPrompt, Renewed, Invoke, TimeOut,
                FindStale, Reinvoke, Abandon, RecordRequest, FinishMessage

\* After the pause route has returned, the agent takes no message to the provider
\* until the user asks otherwise or the process restarts, although requests of the
\* agent were being recorded, as long as none of them puts a state in the cache
\* that the row no longer has: the one way in which a pause is lost.
THEOREM PauseIsKept == Spec => PauseHolds
  <1>1. ASSUME Inv, [Next]_vars, TakesMessage, wish = "paused", Unopposed
        PROVE  "state" \in lapsed
    BY <1>1, GateIsPassed DEF Inv, TakesMessage, PassGate, AsAsked, PauseGranted
  <1> QED  BY <1>1, Invariance, PTL DEF Spec, PauseHolds

\* Threshold failed requests in a row stop the agent until the user steps in, whatever
\* requests of the user overlap each other and the agent's, with the same exception.
THEOREM AutoPauseIsKept == Spec => AutoPauseHolds
  <1>1. ASSUME Inv, [Next]_vars, TakesMessage, streak >= Threshold
        PROVE  "state" \in lapsed
    <2>1. PassGate
      BY <1>1, GateIsPassed DEF TakesMessage
    <2>2. ~Recording
      BY <1>1 DEF Inv, Placed, Doing, Recording, TakesMessage
    <2> QED
      BY <1>1, <2>1, <2>2, SessionStoreAssumption DEF Inv, TypeOK, PassGate, AsAsked, CachedPause
  <1> QED  BY <1>1, Invariance, PTL DEF Spec, AutoPauseHolds

\* After the kill route has returned, a message taken up resumes no session from
\* before the kill, although an invocation was under way then, as long as the cache
\* was last given what the row has.
THEOREM KillIsKept == Spec => KillHolds
  <1>1. ASSUME Inv, [Next]_vars, TakesUpKilled, lapsed = {}
        PROVE  cache.session = NoSession \/ cache.session > retired
    <2>1. TypeOK /\ AsAsked
      BY <1>1 DEF Inv
    <2>2. CASE loop.at = "gate"
      <3>1. PassGate
        BY <1>1, <2>1, <2>2, GateIsPassed DEF TakesUpKilled
      <3>2. cache.state = "active"
        <4>1. loop \in Loop /\ cache.state \in SessionState
          BY <2>1 DEF TypeOK, Record
        <4>2. cache.state # "killed"
          BY <1>1, <3>1, <4>1 DEF PassGate, Go, TakesUpKilled, Loop
        <4> QED  BY <3>1, <4>1, <4>2 DEF PassGate, SessionState
      <3> QED  BY <1>1, <2>1, <2>2, <3>2 DEF AsAsked, CachedKill, Passing, TakesUpKilled
    <2>3. CASE loop.at = "revive"
      <3>1. loop' # loop /\ LoopStep
        BY <1>1, <2>3, LoopMoves DEF TakesUpKilled
      <3>2. Returned
        BY <2>3, <3>1
        DEF LoopStep, TakeMessage, PassGate, Revived, BuildPrompt, Renewed, Invoke, TimeOut,
            FindStale, Reinvoke, Abandon, RecordRequest, FinishMessage
      <3> QED  BY <1>1, <2>1, <2>3, <3>2 DEF AsAsked, Emptied, Returned
    <2> QED  BY <1>1, <2>2, <2>3 DEF TakesUpKilled
  <1> QED  BY <1>1, Invariance, PTL DEF Spec, KillHolds

-----------------------------------------------------------------------------
(***************************************************************************)
(* Prompts: for any agents, persons and projects, kinds of memory and      *)
(* rosters, and any number of saves, memories and changes.                 *)
(***************************************************************************)

(* The invariant of Prompts *)

\* A job has what its stage works on.
JobOK(j) ==
  /\ j \in Job
  /\ j.at \in {"build", "rehash"} => j.text \in Text
  /\ j.at \in {"invalidate", "mark"} => j.sent \in Prompt
  /\ j.at \in {"invoke", "store"} /\ j.sent = None => j.session \in Session
  /\ j.at = "save" => j.kind \in Kinds

JobsOK == \A a \in Agents : JobOK(job[a])

\* Saves are numbered as they come.
Numbered == \A k \in Keys : memories[k] \in 0..saves \/ memories[k] = Doubled

\* The memory there was when the message was taken up is carried along.
TellsOf(j) == IF j.sent = None THEN j.recalled ELSE j.sent.memory

Carried(a) ==
  /\ \A kind \in Kinds : job[a].since[kind] <= memories[Key(a, kind)]
  /\ At(a, "build") /\ HasSession(a) =>
       \A kind \in Kinds : job[a].since[kind] <= job[a].recalled[kind]
  /\ job[a].at \in {"invalidate", "invoke"} =>
       \A kind \in Kinds : job[a].since[kind] <= TellsOf(job[a])[kind]

\* The prompt of now.
Current(a) == [text |-> text[a], memory |-> Combined(a)]

\* The session of a command-line provider, the two copies of the hash and the prompt
\* that is under way agree, but for what slipped in between.
Consistent(a) ==
  Readable(a) /\ a \notin ApiAgents =>
    /\ session[a] # None /\ job[a].at \notin {"rehash", "mark"} =>
         session[a].slipped \/ (hash[a] = session[a].told /\ kept[a] = session[a].told)
    /\ session[a] # None /\ At(a, "rehash") =>
         session[a].slipped \/ session[a].told = FullPrompt(a)
    /\ session[a] # None /\ At(a, "mark") =>
         session[a].slipped \/ session[a].told = job[a].sent
    /\ At(a, "build") => job[a].moved \/ job[a].text = text[a]
    /\ job[a].at \in MemoryRead =>
         \/ job[a].moved
         \/ job[a].sent # None /\ job[a].sent = Current(a)
         \/ /\ job[a].sent = None
            /\ job[a].session.slipped \/ job[a].session.told = Current(a)

PromptsInv ==
  /\ PromptsTypeOK /\ JobsOK /\ Numbered
  /\ \A a \in Agents : Carried(a) /\ Consistent(a)

-----------------------------------------------------------------------------
(* Prompts and jobs *)

LEMMA KeysAre ==
  ASSUME NEW a \in Agents, NEW kind \in Kinds  PROVE Key(a, kind) \in Keys
BY PromptsAssumption DEF Key, Keys

LEMMA CombinedIs ==
  ASSUME PromptsTypeOK, NEW a \in Agents, Readable(a)
  PROVE  Combined(a) \in Memory
<1>1. \A kind \in Kinds : memories[Key(a, kind)] \in 0..Doubled
  BY KeysAre DEF PromptsTypeOK
<1> QED  BY <1>1, PromptsAssumption DEF Combined, Memory, Readable, Doubled

LEMMA TextIs ==
  ASSUME PromptsTypeOK, NEW a \in Agents  PROVE TextOf(a) \in Text
<1>1. roster[ProjectOf[a]] \in Rosters
  BY PromptsAssumption DEF PromptsTypeOK
<1> QED  BY <1>1 DEF PromptsTypeOK, TextOf, Rendered, Text

LEMMA FullPromptIs ==
  ASSUME PromptsTypeOK, NEW a \in Agents, Readable(a), job[a].text \in Text
  PROVE  FullPrompt(a) \in Prompt /\ FullPrompt(a) # None
<1>1. Combined(a) \in Memory
  BY CombinedIs
<1> QED  BY <1>1, PromptsAssumption DEF FullPrompt, Prompt

LEMMA NoJobOK == JobOK(NoJob) /\ JobOK([NoJob EXCEPT !.at = "act"])
<1>1. NoMemory \in Memory
  BY PromptsAssumption DEF NoMemory, Memory, Absent
<1>2. NoJob \in Job /\ NoJob.at = "idle"
  BY <1>1 DEF Job, NoJob, Stages
<1> HIDE DEF NoJob
<1>3. [NoJob EXCEPT !.at = "act"] \in Job /\ [NoJob EXCEPT !.at = "act"].at = "act"
  BY <1>2 DEF Job, Stages
<1> QED  BY <1>2, <1>3 DEF JobOK

LEMMA SetIs ==
  ASSUME PromptsTypeOK, JobsOK, NEW a \in Agents, NEW new, JobOK(new), Set(a, new)
  PROVE  /\ job' \in [Agents -> Job] /\ JobsOK' /\ job'[a] = new
         /\ \A b \in Agents \ {a} : job'[b] = job[b]
BY DEF PromptsTypeOK, JobsOK, Set, JobOK

\* A job that is marked as moved is as good as before.
LEMMA MovedIs ==
  ASSUME PromptsTypeOK, JobsOK, NEW affected, NEW stages, NEW b \in Agents
  PROVE  LET new == Moved(job, affected, stages)[b]
         IN  /\ JobOK(new)
             /\ new = job[b] \/ new = [job[b] EXCEPT !.moved = TRUE]
             /\ b \in affected /\ job[b].at \in stages => new.moved
BY DEF PromptsTypeOK, JobsOK, Moved, JobOK, Job

LEMMA MovedAt ==
  ASSUME PromptsTypeOK, JobsOK, NEW affected, NEW stages, NEW b \in Agents
  PROVE  Moved(job, affected, stages)[b].at = job[b].at
BY DEF PromptsTypeOK, Moved, Job

LEMMA StartBuildIs ==
  ASSUME PromptsTypeOK, JobsOK, NEW a \in Agents, NEW new, JobOK(new), StartBuild(a, new)
  PROVE  /\ job' \in [Agents -> Job] /\ JobsOK' /\ text' \in [Agents -> Text]
         /\ job'[a] = [new EXCEPT !.at = "build", !.text = text'[a], !.moved = FALSE]
         /\ \A b \in Agents \ {a} : job'[b] = job[b] /\ text'[b] = text[b]
<1> DEFINE set == [new EXCEPT !.at = "build", !.text = TextOf(a), !.moved = FALSE]
<1>1. TextOf(a) \in Text
  BY TextIs
<1>2. JobOK(set)
  BY <1>1 DEF JobOK, Job, Stages
<1>3. Set(a, set) /\ text' = [text EXCEPT ![a] = TextOf(a)]
  BY DEF StartBuild
<1> HIDE DEF set
<1>4. /\ job' \in [Agents -> Job] /\ JobsOK' /\ job'[a] = set
      /\ \A b \in Agents \ {a} : job'[b] = job[b]
  BY <1>2, <1>3, SetIs
<1>5. text' \in [Agents -> Text] /\ text'[a] = TextOf(a) /\ \A b \in Agents \ {a} : text'[b] = text[b]
  BY <1>1, <1>3 DEF PromptsTypeOK
<1> QED  BY <1>4, <1>5 DEF set

LEMMA BuildText ==
  ASSUME PromptsTypeOK, NEW a \in Agents, NEW new, StartBuild(a, new)
  PROVE  job'[a] = [new EXCEPT !.at = "build", !.text = text'[a], !.moved = FALSE]
BY DEF StartBuild, Set, PromptsTypeOK

LEMMA UsedIs ==
  ASSUME NEW a \in Agents, JobOK(job[a]), job[a].at = "store"  PROVE Used(a) \in Session
<1>1. job[a] \in Job /\ (job[a].sent = None => job[a].session \in Session)
  BY DEF JobOK
<1>2. CASE job[a].sent = None
  BY <1>1, <1>2 DEF Used, Job, Session
<1>3. CASE job[a].sent # None
  BY <1>1, <1>3 DEF Used, Job, Session
<1> QED  BY <1>2, <1>3

LEMMA RaiseIs ==
  ASSUME PromptsTypeOK, JobsOK, NEW a \in Agents, Raise(a)
  PROVE  /\ job' \in [Agents -> Job] /\ JobsOK' /\ job'[a] = NoJob
         /\ \A b \in Agents \ {a} : job'[b] = job[b]
         /\ UNCHANGED <<memory, roster, text, stored>> /\ ~Readable(a)
BY NoJobOK, SetIs DEF Raise, Finish

-----------------------------------------------------------------------------
(* Types *)

LEMMA PromptsTypeStep ==
  ASSUME PromptsTypeOK, JobsOK, [PromptsNext]_promptsVars
  PROVE  PromptsTypeOK' /\ JobsOK'
<1> DEFINE Fine == PromptsTypeOK' /\ JobsOK'
<1>0. \* the state but for the jobs is typed
      ASSUME job' \in [Agents -> Job], JobsOK',
             /\ stateless' = stateless /\ events' \in 0..MaxEvents
             /\ memories' \in [Keys -> 0..Doubled] /\ saves' \in 0..MaxSaves
             /\ shown' \in [Agents -> Memory] /\ roster' \in [Projects -> Rosters]
             /\ text' \in [Agents -> Text]
             /\ session' \in [Agents -> Session \cup {None}]
             /\ hash' \in [Agents -> Prompt \cup {None}]
             /\ kept' \in [Agents -> Prompt \cup {None}]
      PROVE  Fine
  BY <1>0 DEF PromptsTypeOK, JobsOK, JobOK, At
<1> USE DEF memory, stored
<1> HIDE DEF Fine
<1>1. ASSUME NEW a \in Agents, Take(a), UNCHANGED events  PROVE Fine
  <2> DEFINE new == [NoJob EXCEPT !.since = IF Readable(a) THEN Combined(a) ELSE NoMemory]
  <2>1. JobOK(new) /\ JobOK([new EXCEPT !.at = "recall"])
    <3>1. NoJob \in Job /\ NoJob.at = "idle" /\ NoMemory \in Memory
      BY NoJobOK DEF JobOK, Job, NoJob
    <3>2. (IF Readable(a) THEN Combined(a) ELSE NoMemory) \in Memory
      BY <3>1, CombinedIs
    <3>3. new \in Job /\ new.at = "idle"
      BY <3>1, <3>2 DEF Job
    <3> HIDE DEF new
    <3> QED  BY <3>3 DEF JobOK, Job, Stages
  <2> HIDE DEF new
  <2>2. CASE Recalls(a)
    <3>1. Set(a, [new EXCEPT !.at = "recall"]) /\ text' = text
      BY <1>1, <2>2 DEF Take, new
    <3>2. job' \in [Agents -> Job] /\ JobsOK'
      BY <2>1, <3>1, SetIs
    <3> QED  BY <1>0, <1>1, <3>1, <3>2 DEF Take, PromptsTypeOK
  <2>3. CASE ~Recalls(a)
    <3>1. StartBuild(a, new)
      BY <1>1, <2>3 DEF Take, new
    <3>2. job' \in [Agents -> Job] /\ JobsOK' /\ text' \in [Agents -> Text]
      BY <2>1, <3>1, StartBuildIs
    <3> QED  BY <1>0, <1>1, <3>2 DEF Take, PromptsTypeOK
  <2> QED  BY <2>2, <2>3
<1>2. ASSUME NEW a \in Agents, Raise(a), UNCHANGED events  PROVE Fine
  BY <1>0, <1>2, RaiseIs DEF PromptsTypeOK
<1>3. ASSUME NEW a \in Agents, Recall(a), ~Raise(a), UNCHANGED events  PROVE Fine
  <2> DEFINE new == [job[a] EXCEPT !.recalled = Combined(a)]
  <2>1. Combined(a) \in Memory
    BY <1>3, CombinedIs DEF Recall
  <2>2. job[a] \in Job /\ At(a, "recall")
    BY <1>3 DEF Recall, PromptsTypeOK
  <2>3. JobOK(new)
    BY <2>1, <2>2 DEF JobOK, Job, At
  <2> HIDE DEF new
  <2>4. StartBuild(a, new)
    BY <1>3 DEF Recall, new
  <2>5. job' \in [Agents -> Job] /\ JobsOK' /\ text' \in [Agents -> Text]
    BY <2>3, <2>4, StartBuildIs
  <2>6. shown' \in [Agents -> Memory]
    BY <1>3, <2>1 DEF Recall, PromptsTypeOK
  <2> QED  BY <1>0, <1>3, <2>5, <2>6 DEF Recall, PromptsTypeOK
<1>4. ASSUME NEW a \in Agents, Build(a), ~Raise(a), UNCHANGED events  PROVE Fine
  <2> DEFINE resumed == Resumes(a, FullPrompt(a))
             new == [job[a] EXCEPT
                      !.at = IF HasSession(a) /\ ~resumed THEN "invalidate" ELSE "invoke",
                      !.sent = IF resumed THEN None ELSE FullPrompt(a),
                      !.session = IF resumed THEN session[a] ELSE None]
  <2>1. JobOK(job[a]) /\ At(a, "build") /\ Readable(a)
    BY <1>4 DEF Build, JobsOK
  <2>2. Combined(a) \in Memory
    BY <2>1, CombinedIs
  <2>3. FullPrompt(a) \in Prompt /\ FullPrompt(a) # None
    BY <2>1, FullPromptIs DEF JobOK, At
  <2>4. resumed => session[a] \in Session /\ HasSession(a)
    BY DEF Resumes, HasSession, PromptsTypeOK
  <2>5. session[a] \in Session \cup {None}
    BY DEF PromptsTypeOK
  <2> HIDE DEF resumed
  <2>6. JobOK(new)
    BY <2>1, <2>3, <2>4, <2>5 DEF JobOK, Job, Stages
  <2>7. Set(a, new)
    BY <1>4 DEF Build, resumed
  <2> HIDE DEF new
  <2>8. job' \in [Agents -> Job] /\ JobsOK'
    BY <2>6, <2>7, SetIs
  <2>9. shown' \in [Agents -> Memory]
    BY <1>4, <2>2 DEF Build, PromptsTypeOK
  <2> QED  BY <1>0, <1>4, <2>8, <2>9 DEF Build, PromptsTypeOK
<1>5. ASSUME NEW a \in Agents, Drop(a), UNCHANGED events  PROVE Fine
  <2> DEFINE new == [job[a] EXCEPT !.at = "invoke"]
  <2>1. JobOK(new)
    BY <1>5, PromptsAssumption DEF Drop, JobsOK, JobOK, Job, Stages, At
  <2>2. Set(a, new)
    BY <1>5 DEF Drop
  <2> HIDE DEF new
  <2>3. job' \in [Agents -> Job] /\ JobsOK'
    BY <2>1, <2>2, SetIs
  <2> QED  BY <1>0, <1>5, <2>3 DEF Drop, PromptsTypeOK
<1>6. ASSUME NEW a \in Agents, Fail(a), UNCHANGED events  PROVE Fine
  <2>1. job' \in [Agents -> Job] /\ JobsOK'
    BY <1>6, NoJobOK, SetIs DEF Fail, Finish
  <2> QED  BY <1>0, <1>6, <2>1 DEF Fail, PromptsTypeOK
<1>7. ASSUME NEW a \in Agents, Lose(a), UNCHANGED events  PROVE Fine
  <2> DEFINE new == [job[a] EXCEPT !.at = "forget"]
  <2>1. JobOK(new)
    BY <1>7 DEF JobsOK, JobOK, Job, Stages
  <2>2. Set(a, new)
    BY <1>7 DEF Lose
  <2> HIDE DEF new
  <2>3. job' \in [Agents -> Job] /\ JobsOK'
    BY <2>1, <2>2, SetIs
  <2> QED  BY <1>0, <1>7, <2>3 DEF Lose, PromptsTypeOK
<1>8. ASSUME NEW a \in Agents, Forget(a), UNCHANGED events  PROVE Fine
  <2> DEFINE new == [job[a] EXCEPT !.session = None]
  <2>1. JobOK(new)
    BY <1>8 DEF Forget, JobsOK, JobOK, Job, At
  <2>2. StartBuild(a, new)
    BY <1>8 DEF Forget
  <2> HIDE DEF new
  <2>3. job' \in [Agents -> Job] /\ JobsOK' /\ text' \in [Agents -> Text]
    BY <2>1, <2>2, StartBuildIs
  <2> QED  BY <1>0, <1>8, <2>3 DEF Forget, PromptsTypeOK
<1>9. ASSUME NEW a \in Agents, Reply(a), UNCHANGED events  PROVE Fine
  <2>1. JobOK([job[a] EXCEPT !.at = "store"])
    BY <1>9 DEF Reply, JobsOK, JobOK, Job, Stages, At
  <2>2. job' \in [Agents -> Job] /\ JobsOK'
    BY <1>9, <2>1, NoJobOK, SetIs DEF Reply
  <2> QED  BY <1>0, <1>9, <2>2 DEF Reply, PromptsTypeOK
<1>10. ASSUME NEW a \in Agents, Store(a), UNCHANGED events  PROVE Fine
  <2> DEFINE new == [NoJob EXCEPT !.at = "rehash", !.text = text[a]]
  <2>1. text[a] \in Text
    BY DEF PromptsTypeOK
  <2>2. JobOK(new)
    BY <2>1, NoJobOK DEF JobOK, Job, Stages, NoJob
  <2>3. Set(a, new)
    BY <1>10 DEF Store
  <2> HIDE DEF new
  <2>4. job' \in [Agents -> Job] /\ JobsOK'
    BY <2>2, <2>3, SetIs
  <2>5. Used(a) \in Session
    BY <1>10, UsedIs DEF Store, At, JobsOK
  <2> QED  BY <1>0, <1>10, <2>4, <2>5 DEF Store, PromptsTypeOK
<1>11. ASSUME NEW a \in Agents, Rehash(a), ~Raise(a), UNCHANGED events  PROVE Fine
  <2> DEFINE new == [NoJob EXCEPT !.at = "mark", !.sent = FullPrompt(a)]
  <2>1. Readable(a) /\ job[a].text \in Text
    BY <1>11 DEF Rehash, JobsOK, JobOK, At
  <2>2. FullPrompt(a) \in Prompt /\ Combined(a) \in Memory
    BY <2>1, FullPromptIs, CombinedIs
  <2>3. JobOK(new)
    BY <2>2, NoJobOK DEF JobOK, Job, Stages, NoJob
  <2>4. Set(a, new)
    BY <1>11 DEF Rehash
  <2> HIDE DEF new
  <2>5. job' \in [Agents -> Job] /\ JobsOK'
    BY <2>3, <2>4, SetIs
  <2>6. shown' \in [Agents -> Memory]
    BY <1>11, <2>2 DEF Rehash, PromptsTypeOK
  <2> QED  BY <1>0, <1>11, <2>5, <2>6 DEF Rehash, PromptsTypeOK
<1>12. ASSUME NEW a \in Agents, Mark(a), UNCHANGED events  PROVE Fine
  <2>1. job' \in [Agents -> Job] /\ JobsOK'
    BY <1>12, NoJobOK, SetIs DEF Mark
  <2>2. job[a].sent \in Prompt
    BY <1>12 DEF Mark, JobsOK, JobOK, At
  <2> QED  BY <1>0, <1>12, <2>1, <2>2 DEF Mark, PromptsTypeOK
<1>13. ASSUME NEW a \in Agents, NoSave(a), UNCHANGED events  PROVE Fine
  <2>1. job' \in [Agents -> Job] /\ JobsOK'
    BY <1>13, NoJobOK, SetIs DEF NoSave, Finish
  <2> QED  BY <1>0, <1>13, <2>1 DEF NoSave, PromptsTypeOK
<1>14. ASSUME NEW a \in Agents, LookUp(a), UNCHANGED events  PROVE Fine
  <2>1. PICK kind \in Kinds :
          Set(a, IF memories[Key(a, kind)] = Doubled THEN NoJob
                 ELSE [NoJob EXCEPT !.at = "save", !.kind = kind,
                                    !.found = (memories[Key(a, kind)] # Absent)])
    BY <1>14 DEF LookUp
  <2>2. JobOK([NoJob EXCEPT !.at = "save", !.kind = kind,
                            !.found = (memories[Key(a, kind)] # Absent)])
    BY NoJobOK DEF JobOK, Job, Stages, NoJob
  <2>3. job' \in [Agents -> Job] /\ JobsOK'
    BY <2>1, <2>2, NoJobOK, SetIs
  <2> QED  BY <1>0, <1>14, <2>3 DEF LookUp, PromptsTypeOK
<1>15. ASSUME NEW a \in Agents, Commit(a), UNCHANGED events  PROVE Fine
  <2> DEFINE key == Key(a, job[a].kind)
             readers == {b \in Agents : \E kind \in Kinds : Key(b, kind) = key}
             moved == Moved(job, readers, MemoryRead)
  <2>1. key \in Keys
    BY <1>15, KeysAre DEF Commit, JobsOK, JobOK, At
  <2>2. saves + 1 \in 0..MaxSaves
    BY <1>15, PromptsAssumption DEF Commit, PromptsTypeOK
  <2>3. memories' \in [Keys -> 0..Doubled] /\ saves' \in 0..MaxSaves
    BY <1>15, <2>1, <2>2, PromptsAssumption DEF Commit, PromptsTypeOK, Doubled
  <2>4. job' = [moved EXCEPT ![a] = NoJob] /\ moved \in [Agents -> Job]
          /\ \A b \in Agents : JobOK(moved[b])
    <3>1. \A b \in Agents : JobOK(moved[b])
      BY MovedIs
    <3>2. DOMAIN moved = Agents /\ moved = [b \in Agents |-> moved[b]]
      BY DEF Moved
    <3> QED  BY <1>15, <3>1, <3>2 DEF Commit, JobOK
  <2> HIDE DEF moved
  <2>5. job' \in [Agents -> Job] /\ JobsOK'
    BY <2>4, NoJobOK DEF JobsOK, JobOK
  <2>6. session' \in [Agents -> Session \cup {None}]
    BY <1>15 DEF Commit, PromptsTypeOK, Session
  <2> QED  BY <1>0, <1>15, <2>3, <2>5, <2>6 DEF Commit, PromptsTypeOK
<1>16. ASSUME NEW a \in Agents, Reset(a), Event  PROVE Fine
  <2>1. events' \in 0..MaxEvents
    BY <1>16, PromptsAssumption DEF Event, PromptsTypeOK
  <2> QED  BY <1>0, <1>16, <2>1 DEF Reset, PromptsTypeOK, JobsOK
<1>17. ASSUME NEW p \in Projects, Team(p), Event  PROVE Fine
  <2>1. events' \in 0..MaxEvents
    BY <1>17, PromptsAssumption DEF Event, PromptsTypeOK
  <2>2. roster' \in [Projects -> Rosters] /\ roster'[p] \in Rosters
    BY <1>17 DEF Team, PromptsTypeOK
  <2>3. text' \in [Agents -> Text]
    BY <1>17, <2>2 DEF Team, PromptsTypeOK, Rendered, Text
  <2>4. job' \in [Agents -> Job] /\ JobsOK'
    <3>1. PICK members \in SUBSET Agents : job' = Moved(job, members, TextRead)
      BY <1>17 DEF Team
    <3>2. \A b \in Agents : JobOK(job'[b])
      BY <3>1, MovedIs
    <3>3. DOMAIN job' = Agents /\ job' = [b \in Agents |-> job'[b]]
      BY <3>1 DEF Moved
    <3> QED  BY <3>2, <3>3 DEF JobsOK, JobOK
  <2> QED  BY <1>0, <1>17, <2>1, <2>2, <2>3, <2>4 DEF Team, PromptsTypeOK
<1>18. ASSUME NEW p \in Projects, RestartProject(p), Event  PROVE Fine
  <2>1. events' \in 0..MaxEvents
    BY <1>18, PromptsAssumption DEF Event, PromptsTypeOK
  <2>2. NoMemory \in Memory
    BY NoJobOK DEF JobOK, Job, NoJob
  <2>3. shown' \in [Agents -> Memory] /\ text' \in [Agents -> Text]
    BY <1>18, <2>2 DEF RestartProject, PromptsTypeOK, Text
  <2>4. session' \in [Agents -> Session \cup {None}]
    BY <1>18 DEF RestartProject, PromptsTypeOK, Session
  <2>5. hash' \in [Agents -> Prompt \cup {None}]
    BY <1>18 DEF RestartProject, PromptsTypeOK
  <2>6. job' \in [Agents -> Job] /\ JobsOK'
    BY <1>18, NoJobOK DEF RestartProject, PromptsTypeOK, JobsOK, JobOK
  <2> QED  BY <1>0, <1>18, <2>1, <2>3, <2>4, <2>5, <2>6 DEF RestartProject, PromptsTypeOK
<1>19. CASE UNCHANGED promptsVars
  <2>1. /\ job' = job /\ stateless' = stateless /\ events' = events /\ memories' = memories
        /\ saves' = saves /\ shown' = shown /\ roster' = roster /\ text' = text
        /\ session' = session /\ hash' = hash /\ kept' = kept
    BY <1>19 DEF promptsVars
  <2>2. JobsOK'
    BY <2>1 DEF JobsOK, JobOK
  <2>3. PromptsTypeOK'
    BY <2>1 DEF PromptsTypeOK, At
  <2> QED  BY <2>2, <2>3 DEF Fine
<1>20. ASSUME NEW a \in Agents, Recall(a) \/ Build(a) \/ Rehash(a), UNCHANGED events  PROVE Fine
  BY <1>2, <1>3, <1>4, <1>11, <1>20
<1> QED
  BY <1>1, <1>5, <1>6, <1>7, <1>8, <1>9, <1>10, <1>12, <1>13, <1>14, <1>15, <1>16, <1>17, <1>18,
     <1>19, <1>20 DEF PromptsNext, Fine

-----------------------------------------------------------------------------
(* Memories *)

\* A memory that is saved anew has a greater number, and two rows stay two.
LEMMA NumberedStep ==
  ASSUME PromptsTypeOK, JobsOK, Numbered, [PromptsNext]_promptsVars
  PROVE  /\ Numbered' /\ \A k \in Keys : memories[k] <= memories'[k]
         /\ \A a \in Agents : Readable(a)' => Readable(a)
<1> USE DEF memory
<1>1. CASE memories' = memories /\ saves' = saves
  BY <1>1 DEF Numbered, Readable, PromptsTypeOK
<1>2. ASSUME NEW a \in Agents, Commit(a)
      PROVE  Numbered' /\ \A k \in Keys : memories[k] <= memories'[k]
              /\ (memories[k] = Doubled => memories'[k] = Doubled)
  <2> DEFINE key == Key(a, job[a].kind)
  <2>1. key \in Keys
    BY <1>2, KeysAre DEF Commit, JobsOK, JobOK, At
  <2>2. /\ memories'[key] \in {Doubled, saves + 1}
        /\ memories[key] = Doubled => memories'[key] = Doubled
        /\ \A k \in Keys \ {key} : memories'[k] = memories[k]
        /\ saves' = saves + 1 /\ saves < MaxSaves
    BY <1>2, <2>1 DEF Commit, PromptsTypeOK
  <2> HIDE DEF key
  <2>3. saves \in Nat /\ MaxSaves \in Nat /\ \A k \in Keys : memories[k] \in 0..Doubled
    BY PromptsAssumption DEF PromptsTypeOK
  <2> QED  BY <2>1, <2>2, <2>3 DEF Numbered, Doubled
<1>3. ASSUME NEW a \in Agents, Commit(a)  PROVE \A b \in Agents : Readable(b)' => Readable(b)
  BY <1>2, <1>3, KeysAre DEF Readable
<1>4. CASE ~\E a \in Agents : Commit(a)
  <2>1. memories' = memories /\ saves' = saves
    BY <1>4 DEF PromptsNext, Take, Recall, Build, Drop, Fail, Lose, Forget, Reply, Store, Rehash,
                Mark, NoSave, LookUp, Reset, Team, RestartProject, Raise, promptsVars
  <2> QED  BY <1>1, <2>1
<1> QED  BY <1>2, <1>3, <1>4

HasSessionKept(a) == HasSession(a)' => HasSession(a)

\* What has been taken up stays carried while the job and the memory it began
\* with stay, and the session is no other.
LEMMA CarriedStays ==
  ASSUME PromptsTypeOK, NEW a \in Agents, Carried(a), HasSessionKept(a),
         job'[a] = job[a] \/ job'[a] = [job[a] EXCEPT !.moved = TRUE],
         \A k \in Keys : memories[k] <= memories'[k], memories' \in [Keys -> 0..Doubled]
  PROVE  Carried(a)'
<1>1. /\ job'[a].at = job[a].at /\ job'[a].since = job[a].since /\ job'[a].sent = job[a].sent
      /\ job'[a].recalled = job[a].recalled
  BY DEF PromptsTypeOK, Job
<1>2. \A kind \in Kinds : job[a].since[kind] <= memories'[Key(a, kind)]
  <2> SUFFICES ASSUME NEW kind \in Kinds
               PROVE  job[a].since[kind] <= memories'[Key(a, kind)]
    OBVIOUS
  <2>1. job[a].since[kind] \in Nat
    BY PromptsAssumption DEF PromptsTypeOK, Job, Memory
  <2>2. Key(a, kind) \in Keys
    BY KeysAre
  <2>3. memories[Key(a, kind)] \in Nat /\ memories'[Key(a, kind)] \in Nat
    BY <2>2, PromptsAssumption DEF PromptsTypeOK, Doubled
  <2>4. /\ job[a].since[kind] <= memories[Key(a, kind)]
        /\ memories[Key(a, kind)] <= memories'[Key(a, kind)]
    BY <2>2 DEF Carried
  <2> QED  BY <2>1, <2>3, <2>4
<1> QED  BY <1>1, <1>2 DEF Carried, At, TellsOf, HasSessionKept, Key

\* A message that begins, or none.
LEMMA NothingCarried ==
  ASSUME PromptsTypeOK', NEW a \in Agents, job'[a].since = NoMemory,
         job'[a].at \notin {"build", "invalidate", "invoke"}
  PROVE  Carried(a)'
<1>1. \A kind \in Kinds : memories'[Key(a, kind)] \in Nat
  BY KeysAre, PromptsAssumption DEF PromptsTypeOK, Doubled
<1> QED  BY <1>1 DEF Carried, At, NoMemory, Absent, Key

\* What an agent does with its message is its own.
AgentStep(a) ==
  \/ Take(a) \/ Recall(a) \/ Build(a) \/ Drop(a) \/ Fail(a) \/ Lose(a) \/ Forget(a)
  \/ Reply(a) \/ Store(a) \/ Rehash(a) \/ Mark(a) \/ NoSave(a) \/ LookUp(a)

Untouched(b) ==
  /\ job'[b] = job[b] /\ session'[b] = session[b] /\ hash'[b] = hash[b]
  /\ kept'[b] = kept[b] /\ text'[b] = text[b]

LEMMA OthersUntouched ==
  ASSUME PromptsTypeOK, NEW a \in Agents, AgentStep(a)
  PROVE  /\ stateless' = stateless /\ memories' = memories
         /\ \A b \in Agents \ {a} : Untouched(b)
<1> USE DEF PromptsTypeOK, Untouched, memory, stored, Set, Finish
<1>1. CASE Take(a) \/ Forget(a)
  BY <1>1 DEF Take, Forget, StartBuild
<1>2. CASE Recall(a) \/ Build(a) \/ Rehash(a)
  BY <1>2 DEF Recall, Build, Rehash, StartBuild, Raise
<1>3. CASE Drop(a) \/ Fail(a) \/ Lose(a) \/ Reply(a) \/ Store(a) \/ Mark(a) \/ NoSave(a) \/ LookUp(a)
  BY <1>3 DEF Drop, Fail, Lose, Reply, Store, Mark, NoSave, LookUp
<1> QED  BY <1>1, <1>2, <1>3 DEF AgentStep

LEMMA CarriedOwn ==
  ASSUME PromptsTypeOK, JobsOK, PromptsTypeOK', NEW a \in Agents, Carried(a), AgentStep(a)
  PROVE  Carried(a)'
<1> USE DEF Set, Finish, memory, stored
<1>0. job[a] \in Job /\ DOMAIN job = Agents /\ stateless' = stateless /\ memories' = memories
  BY OthersUntouched DEF PromptsTypeOK
<1>1. CASE Take(a)
  <2> DEFINE start == IF Readable(a) THEN Combined(a) ELSE NoMemory
  <2>1. /\ job'[a].since = start /\ job'[a].at \in {"recall", "build"}
        /\ job'[a].at = "build" => ~HasSession(a)
        /\ session' = session
    BY <1>0, <1>1 DEF Take, StartBuild, Recalls, NoJob
  <2>2. \A kind \in Kinds : memories[Key(a, kind)] \in Nat
    BY KeysAre, PromptsAssumption DEF PromptsTypeOK, Doubled
  <2>3. \A kind \in Kinds : start[kind] <= memories[Key(a, kind)]
    BY <2>2 DEF Combined, NoMemory, Absent
  <2> HIDE DEF start
  <2> QED  BY <1>0, <2>1, <2>3 DEF Carried, At, HasSession, Key, IsStateless
<1>2. CASE Raise(a)
  BY <1>0, <1>2, NothingCarried DEF Raise, NoJob
<1>3. CASE Recall(a) /\ ~Raise(a)
  <2>1. job'[a] = [[job[a] EXCEPT !.recalled = Combined(a)]
                      EXCEPT !.at = "build", !.text = text'[a], !.moved = FALSE]
    BY <1>3, BuildText DEF Recall
  <2>2. /\ job'[a].since = job[a].since /\ job'[a].at = "build"
        /\ job'[a].recalled = Combined(a)
    BY <1>0, <2>1 DEF Job
  <2> QED  BY <1>0, <1>3, <2>2 DEF Carried, At, Combined, Key, Recall
<1>4. CASE Build(a) /\ ~Raise(a)
  <2> DEFINE resumed == Resumes(a, FullPrompt(a))
  <2>1. /\ job'[a].since = job[a].since /\ job'[a].at \in {"invalidate", "invoke"}
        /\ job'[a].sent = IF resumed THEN None ELSE FullPrompt(a)
        /\ job'[a].recalled = job[a].recalled
        /\ At(a, "build") /\ Readable(a)
    BY <1>0, <1>4 DEF Build, Job
  <2>2. FullPrompt(a) # None /\ FullPrompt(a).memory = Combined(a)
    BY <2>1, FullPromptIs DEF FullPrompt, JobsOK, JobOK, At
  <2>3. resumed => HasSession(a)
    BY DEF Resumes
  <2> HIDE DEF resumed
  <2>4. \A kind \in Kinds : job[a].since[kind] <= TellsOf(job'[a])[kind]
    BY <2>1, <2>2, <2>3 DEF Carried, TellsOf, Combined
  <2> QED  BY <1>0, <2>1, <2>4 DEF Carried, At, Key, TellsOf
<1>5. CASE Drop(a)
  <2>1. /\ job'[a] = [job[a] EXCEPT !.at = "invoke"] /\ job[a].at = "invalidate"
    BY <1>0, <1>5 DEF Drop, At
  <2>2. /\ job'[a].since = job[a].since /\ job'[a].at = "invoke"
        /\ job'[a].sent = job[a].sent /\ job'[a].recalled = job[a].recalled
    BY <1>0, <2>1 DEF Job
  <2> QED  BY <1>0, <2>1, <2>2 DEF Carried, At, TellsOf, Key
<1>6. CASE Lose(a)
  <2>1. job'[a].since = job[a].since /\ job'[a].at = "forget"
    BY <1>0, <1>6 DEF Lose, Job
  <2> QED  BY <1>0, <2>1 DEF Carried, At, Key
<1>7. CASE Forget(a)
  <2>1. job'[a].since = job[a].since /\ job'[a].at = "build" /\ session'[a] = None
    BY <1>0, <1>7 DEF Forget, StartBuild, Job, PromptsTypeOK
  <2> QED  BY <1>0, <2>1 DEF Carried, At, HasSession, Key
<1>8. CASE Reply(a) /\ ~IsStateless(a)
  <2>1. job'[a].since = job[a].since /\ job'[a].at = "store"
    BY <1>0, <1>8 DEF Reply, Job
  <2> QED  BY <1>0, <2>1 DEF Carried, At, Key
<1>9. CASE Fail(a) \/ (Reply(a) /\ IsStateless(a)) \/ Store(a) \/ Mark(a) \/ NoSave(a)
  <2>1. job'[a].since = NoMemory /\ job'[a].at \in {"idle", "act", "rehash"}
    <3>1. /\ NoJob.since = NoMemory /\ NoJob.at = "idle"
          /\ [NoJob EXCEPT !.at = "act"].since = NoMemory /\ [NoJob EXCEPT !.at = "act"].at = "act"
          /\ [NoJob EXCEPT !.at = "rehash", !.text = text[a]].since = NoMemory
          /\ [NoJob EXCEPT !.at = "rehash", !.text = text[a]].at = "rehash"
      BY DEF NoJob
    <3>2. job'[a] \in {NoJob, [NoJob EXCEPT !.at = "act"],
                      [NoJob EXCEPT !.at = "rehash", !.text = text[a]]}
      BY <1>0, <1>9 DEF Fail, Reply, Store, Mark, NoSave
    <3> QED  BY <3>1, <3>2
  <2> QED  BY <2>1, NothingCarried
<1>10. CASE LookUp(a)
  <2>1. PICK kind \in Kinds :
          Set(a, IF memories[Key(a, kind)] = Doubled THEN NoJob
                 ELSE [NoJob EXCEPT !.at = "save", !.kind = kind,
                                    !.found = (memories[Key(a, kind)] # Absent)])
    BY <1>10 DEF LookUp
  <2>2. job'[a].since = NoMemory /\ job'[a].at \in {"idle", "save"}
    BY <1>0, <2>1 DEF NoJob
  <2> QED  BY <2>2, NothingCarried
<1>11. CASE Rehash(a) /\ ~Raise(a)
  <2>1. job'[a] = [NoJob EXCEPT !.at = "mark", !.sent = FullPrompt(a)]
    BY <1>0, <1>11 DEF Rehash
  <2>2. job'[a].since = NoMemory /\ job'[a].at = "mark"
    BY <2>1 DEF NoJob
  <2> QED  BY <2>2, NothingCarried
<1>12. CASE Recall(a) \/ Build(a) \/ Rehash(a)
  BY <1>2, <1>3, <1>4, <1>11, <1>12
<1>13. CASE Reply(a)
  BY <1>8, <1>9, <1>13
<1> QED  BY <1>1, <1>5, <1>6, <1>7, <1>9, <1>10, <1>12, <1>13 DEF AgentStep

LEMMA CarriedStep ==
  ASSUME PromptsTypeOK, JobsOK, Numbered, \A a \in Agents : Carried(a), [PromptsNext]_promptsVars,
         NEW b \in Agents
  PROVE  Carried(b)'
<1>0. /\ PromptsTypeOK' /\ job[b] \in Job
      /\ memories' \in [Keys -> 0..Doubled] /\ \A k \in Keys : memories[k] <= memories'[k]
  BY PromptsTypeStep, NumberedStep DEF PromptsTypeOK
<1>1. ASSUME NEW a \in Agents, AgentStep(a)  PROVE Carried(b)'
  <2>1. CASE b = a
    BY <1>0, <1>1, <2>1, CarriedOwn
  <2>2. CASE b # a
    <3>1. stateless' = stateless /\ Untouched(b)
      BY <1>1, <2>2, OthersUntouched
    <3> QED  BY <1>0, <3>1, CarriedStays DEF HasSessionKept, HasSession, IsStateless, Untouched
  <2> QED  BY <2>1, <2>2
<1>2. ASSUME NEW a \in Agents, Commit(a)  PROVE Carried(b)'
  <2>1. PICK readers \in SUBSET Agents : job' = [Moved(job, readers, MemoryRead) EXCEPT ![a] = NoJob]
    BY <1>2 DEF Commit
  <2>2. DOMAIN Moved(job, readers, MemoryRead) = Agents
    BY DEF Moved
  <2>3. CASE b = a
    <3>1. job'[b].since = NoMemory /\ job'[b].at = "idle"
      BY <2>1, <2>2, <2>3 DEF NoJob
    <3> QED  BY <1>0, <3>1, NothingCarried
  <2>4. CASE b # a
    <3>1. job'[b] = Moved(job, readers, MemoryRead)[b]
      BY <2>1, <2>2, <2>4
    <3>2. job'[b] = job[b] \/ job'[b] = [job[b] EXCEPT !.moved = TRUE]
      BY <3>1, MovedIs
    <3>3. HasSessionKept(b)
      BY <1>2 DEF Commit, HasSessionKept, HasSession, IsStateless
    <3> QED  BY <1>0, <3>2, <3>3, CarriedStays
  <2> QED  BY <2>3, <2>4
<1>3. ASSUME NEW p \in Projects, Team(p)  PROVE Carried(b)'
  <2>1. PICK members \in SUBSET Agents : job' = Moved(job, members, TextRead)
    BY <1>3 DEF Team
  <2>2. job'[b] = job[b] \/ job'[b] = [job[b] EXCEPT !.moved = TRUE]
    BY <2>1, MovedIs
  <2>3. HasSessionKept(b)
    BY <1>3 DEF Team, HasSessionKept, HasSession, IsStateless, memory, stored
  <2> QED  BY <1>0, <2>2, <2>3, CarriedStays
<1>4. ASSUME NEW a \in Agents, Reset(a)  PROVE Carried(b)'
  <2>1. job'[b] = job[b] /\ HasSessionKept(b)
    BY <1>4 DEF Reset, HasSessionKept, HasSession, IsStateless, memory, PromptsTypeOK
  <2> QED  BY <1>0, <2>1, CarriedStays
<1>5. ASSUME NEW p \in Projects, RestartProject(p)  PROVE Carried(b)'
  <2>1. CASE ProjectOf[b] = p
    <3>1. job'[b].since = NoMemory /\ job'[b].at = "idle"
      BY <1>5, <2>1 DEF RestartProject, NoJob
    <3> QED  BY <1>0, <3>1, NothingCarried
  <2>2. CASE ProjectOf[b] # p
    <3>1. job'[b] = job[b] /\ HasSessionKept(b)
      BY <1>5, <2>2 DEF RestartProject, HasSessionKept, HasSession, IsStateless
    <3> QED  BY <1>0, <3>1, CarriedStays
  <2> QED  BY <2>1, <2>2
<1>6. CASE UNCHANGED promptsVars
  <2>1. job'[b] = job[b] /\ HasSessionKept(b)
    BY <1>6 DEF promptsVars, HasSessionKept, HasSession, IsStateless, memory, stored
  <2> QED  BY <1>0, <2>1, CarriedStays
<1> QED  BY <1>1, <1>2, <1>3, <1>4, <1>5, <1>6 DEF PromptsNext, AgentStep

-----------------------------------------------------------------------------
(* Sessions *)

LEMMA ConsistentOwn ==
  ASSUME PromptsTypeOK, JobsOK, NEW a \in Agents, Consistent(a), AgentStep(a), Readable(a),
         a \notin ApiAgents
  PROVE  Consistent(a)'
<1> USE DEF Set, Finish, memory, stored
<1>0. /\ job[a] \in Job /\ JobOK(job[a]) /\ DOMAIN job = Agents /\ memories' = memories
      /\ Combined(a)' = Combined(a)
  BY OthersUntouched DEF PromptsTypeOK, JobsOK, Combined, Key
<1>1. CASE Take(a)
  <2> DEFINE new == [NoJob EXCEPT !.since = IF Readable(a) THEN Combined(a) ELSE NoMemory]
  <2>1. UNCHANGED <<session, hash, kept>> /\ At(a, "idle")
    BY <1>1 DEF Take
  <2>2. \/ job'[a] = [new EXCEPT !.at = "recall"]
        \/ job'[a] = [new EXCEPT !.at = "build", !.text = text'[a], !.moved = FALSE]
    BY <1>0, <1>1, BuildText DEF Take
  <2>3. \/ job'[a].at = "recall"
        \/ job'[a].at = "build" /\ job'[a].text = text'[a]
    BY <2>2 DEF NoJob
  <2> QED  BY <1>0, <2>1, <2>3 DEF Consistent, At, MemoryRead
<1>2. CASE Recall(a)
  <2>1. /\ UNCHANGED <<session, hash, kept>> /\ At(a, "recall")
    BY <1>2 DEF Recall, Raise
  <2>2. StartBuild(a, [job[a] EXCEPT !.recalled = Combined(a)])
    BY <1>2 DEF Recall, Raise
  <2>3. job'[a] = [[job[a] EXCEPT !.recalled = Combined(a)]
                      EXCEPT !.at = "build", !.text = text'[a], !.moved = FALSE]
    BY <2>2, BuildText
  <2>4. job'[a].at = "build" /\ job'[a].text = text'[a]
    BY <1>0, <2>3 DEF Job
  <2> QED  BY <1>0, <2>1, <2>4 DEF Consistent, At, MemoryRead
<1>3. CASE Build(a)
  <2> DEFINE resumed == Resumes(a, FullPrompt(a))
  <2>1. /\ UNCHANGED <<session, hash, kept, text>> /\ At(a, "build")
        /\ job'[a].at \in {"invalidate", "invoke"} /\ job'[a].moved = job[a].moved
        /\ job'[a].sent = IF resumed THEN None ELSE FullPrompt(a)
        /\ resumed => job'[a].session = session[a]
    <3> DEFINE new == [job[a] EXCEPT
                 !.at = IF HasSession(a) /\ ~resumed THEN "invalidate" ELSE "invoke",
                 !.sent = IF resumed THEN None ELSE FullPrompt(a),
                 !.session = IF resumed THEN session[a] ELSE None]
    <3>1. UNCHANGED <<session, hash, kept, text>> /\ At(a, "build") /\ job'[a] = new
      BY <1>0, <1>3 DEF Build, Raise
    <3>2. /\ new.at \in {"invalidate", "invoke"} /\ new.moved = job[a].moved
          /\ new.sent = IF resumed THEN None ELSE FullPrompt(a)
          /\ new.session = IF resumed THEN session[a] ELSE None
      <4> HIDE DEF resumed
      <4> QED  BY <1>0 DEF Job
    <3> HIDE DEF new, resumed
    <3> QED  BY <3>1, <3>2
  <2>2. /\ FullPrompt(a) # None
        /\ ~job[a].moved => FullPrompt(a) = Current(a)
    BY <1>0, <2>1, FullPromptIs DEF Consistent, FullPrompt, Current, JobOK, At
  <2>3. resumed => session[a] # None /\ hash[a] = FullPrompt(a)
    BY DEF Resumes, HasSession, Unchanged
  <2>4. Current(a)' = Current(a)
    BY <1>0, <2>1 DEF Current
  <2> HIDE DEF resumed
  <2>5. CASE resumed
    BY <1>0, <2>1, <2>2, <2>3, <2>4, <2>5 DEF Consistent, At, MemoryRead
  <2>6. CASE ~resumed
    BY <1>0, <2>1, <2>2, <2>4, <2>6 DEF Consistent, At, MemoryRead
  <2> QED  BY <2>5, <2>6
<1>4. CASE Drop(a)
  <2>1. /\ session'[a] = None /\ text' = text /\ job[a].at = "invalidate"
        /\ job'[a] = [job[a] EXCEPT !.at = "invoke"]
    BY <1>0, <1>4 DEF Drop, At, PromptsTypeOK
  <2>2. /\ job'[a].at = "invoke" /\ job'[a].moved = job[a].moved /\ job'[a].sent = job[a].sent
        /\ job'[a].session = job[a].session
    BY <1>0, <2>1 DEF Job
  <2>3. Current(a)' = Current(a)
    BY <1>0, <2>1 DEF Current
  <2> QED  BY <2>1, <2>2, <2>3 DEF Consistent, At, MemoryRead
<1>5. CASE Fail(a)
  <2>1. /\ session' = session /\ kept' = kept /\ hash'[a] = kept[a] /\ job[a].at = "invoke"
        /\ job'[a].at = "idle"
    BY <1>0, <1>5 DEF Fail, At, PromptsTypeOK, NoJob
  <2> QED  BY <2>1 DEF Consistent, At, MemoryRead
<1>6. CASE Lose(a) \/ NoSave(a) \/ LookUp(a) \/ (Reply(a) /\ IsStateless(a))
  <2>1. /\ UNCHANGED <<session, hash, kept>> /\ job[a].at \in {"invoke", "act"}
    BY <1>0, <1>6 DEF Lose, NoSave, LookUp, Reply, At
  <2>2. job'[a].at \in {"forget", "idle", "save", "act"}
    <3>1. CASE LookUp(a)
      <4>1. PICK kind \in Kinds :
          Set(a, IF memories[Key(a, kind)] = Doubled THEN NoJob
                 ELSE [NoJob EXCEPT !.at = "save", !.kind = kind,
                                    !.found = (memories[Key(a, kind)] # Absent)])
        BY <3>1 DEF LookUp
      <4> QED  BY <1>0, <4>1 DEF NoJob
    <3>2. CASE Lose(a) \/ NoSave(a) \/ (Reply(a) /\ IsStateless(a))
      BY <1>0, <3>2 DEF Lose, NoSave, Reply, NoJob, Job
    <3> QED  BY <1>6, <3>1, <3>2
  <2> QED  BY <2>1, <2>2 DEF Consistent, At, MemoryRead
<1>7. CASE Forget(a)
  <2>1. /\ session'[a] = None /\ job'[a].at = "build" /\ job'[a].text = text'[a]
    BY <1>0, <1>7 DEF Forget, StartBuild, Job, PromptsTypeOK
  <2> QED  BY <2>1 DEF Consistent, At, MemoryRead
<1>8. CASE Reply(a) /\ ~IsStateless(a)
  <2>1. /\ UNCHANGED <<session, hash, kept, text>> /\ job[a].at = "invoke"
        /\ job'[a] = [job[a] EXCEPT !.at = "store"]
    BY <1>0, <1>8 DEF Reply, At
  <2>2. /\ job'[a].at = "store" /\ job'[a].moved = job[a].moved /\ job'[a].sent = job[a].sent
        /\ job'[a].session = job[a].session
    BY <1>0, <2>1 DEF Job
  <2>3. Current(a)' = Current(a)
    BY <1>0, <2>1 DEF Current
  <2> QED  BY <2>1, <2>2, <2>3 DEF Consistent, At, MemoryRead
<1>9. CASE Store(a)
  <2>1. /\ job[a].at = "store" /\ session'[a] = Used(a)
        /\ job'[a] = [NoJob EXCEPT !.at = "rehash", !.text = text[a]]
    BY <1>0, <1>9 DEF Store, At, PromptsTypeOK
  <2>2. job'[a].at = "rehash" /\ job'[a].text = text[a]
    BY <2>1 DEF NoJob
  <2>3. FullPrompt(a)' = Current(a)
    BY <1>0, <2>2 DEF FullPrompt, Current
  <2>4. Used(a).slipped \/ Used(a).told = Current(a)
    BY <2>1 DEF Consistent, Used, MemoryRead
  <2> QED  BY <2>1, <2>2, <2>3, <2>4 DEF Consistent, At, MemoryRead
<1>10. CASE Rehash(a)
  <2>1. /\ UNCHANGED <<session, hash, kept>> /\ job[a].at = "rehash"
        /\ job'[a] = [NoJob EXCEPT !.at = "mark", !.sent = FullPrompt(a)]
    BY <1>0, <1>10 DEF Rehash, Raise, At
  <2>2. job'[a].at = "mark" /\ job'[a].sent = FullPrompt(a)
    BY <2>1 DEF NoJob
  <2> QED  BY <2>1, <2>2 DEF Consistent, At, MemoryRead
<1>11. CASE Mark(a)
  <2>1. /\ session' = session /\ job[a].at = "mark" /\ job'[a].at = "act"
        /\ hash'[a] = job[a].sent /\ kept'[a] = job[a].sent
    BY <1>0, <1>11 DEF Mark, At, NoJob, PromptsTypeOK
  <2> QED  BY <2>1 DEF Consistent, At, MemoryRead
<1> QED
  BY <1>1, <1>2, <1>3, <1>4, <1>5, <1>6, <1>7, <1>8, <1>9, <1>10, <1>11 DEF AgentStep

\* Nothing of the agent's has changed, nor has a memory of its own.
LEMMA ConsistentStays ==
  ASSUME NEW b \in Agents, Consistent(b), Untouched(b), Readable(b), Combined(b)' = Combined(b),
         b \notin ApiAgents
  PROVE  Consistent(b)'
BY DEF Consistent, Untouched, At, FullPrompt, Current, MemoryRead

LEMMA ConsistentStep ==
  ASSUME PromptsTypeOK, JobsOK, Numbered, \A a \in Agents : Consistent(a),
         [PromptsNext]_promptsVars, NEW b \in Agents
  PROVE  Consistent(b)'
<1>0. SUFFICES ASSUME Readable(b)', b \notin ApiAgents  PROVE Consistent(b)'
  BY DEF Consistent
<1>1. Readable(b) /\ b \notin ApiAgents /\ job[b] \in Job /\ DOMAIN job = Agents
  BY <1>0, NumberedStep DEF PromptsTypeOK
<1>2. ASSUME NEW a \in Agents, AgentStep(a)  PROVE Consistent(b)'
  <2>1. CASE b = a
    BY <1>1, <1>2, <2>1, ConsistentOwn
  <2>2. CASE b # a
    <3>1. Untouched(b) /\ memories' = memories
      BY <1>2, <2>2, OthersUntouched
    <3>2. Combined(b)' = Combined(b)
      BY <3>1 DEF Combined, Key
    <3> QED  BY <1>1, <3>1, <3>2, ConsistentStays
  <2> QED  BY <2>1, <2>2
<1>3. ASSUME NEW a \in Agents, Commit(a)  PROVE Consistent(b)'
  <2> DEFINE key == Key(a, job[a].kind)
             readers == {c \in Agents : \E kind \in Kinds : Key(c, kind) = key}
  <2>1. /\ text' = text /\ hash' = hash /\ kept' = kept /\ At(a, "save")
        /\ job' = [Moved(job, readers, MemoryRead) EXCEPT ![a] = NoJob]
        /\ session' = [c \in Agents |->
             IF c \in readers /\ At(c, "rehash") /\ session[c] # None
             THEN [session[c] EXCEPT !.slipped = TRUE] ELSE session[c]]
    BY <1>3 DEF Commit
  <2>2. DOMAIN Moved(job, readers, MemoryRead) = Agents
    BY DEF Moved
  <2>3. \A k \in Keys \ {key} : memories'[k] = memories[k]
    BY <1>3 DEF Commit, PromptsTypeOK
  <2>4. CASE b = a
    <3>1. session'[b] = session[b] /\ job'[b].at = "idle"
      BY <2>1, <2>2, <2>4 DEF At, NoJob
    <3> QED  BY <1>1, <2>1, <2>4, <3>1 DEF Consistent, At, MemoryRead
  <2>5. CASE b # a /\ b \notin readers
    <3>1. job'[b] = job[b] /\ session'[b] = session[b]
      BY <2>1, <2>2, <2>5 DEF Moved
    <3>2. Combined(b)' = Combined(b)
      <4>1. \A kind \in Kinds : Key(b, kind) \in Keys /\ Key(b, kind) # key
        BY <2>5, KeysAre
      <4> QED  BY <2>3, <4>1 DEF Combined, Key
    <3> QED  BY <1>1, <2>1, <3>1, <3>2, ConsistentStays DEF Untouched
  <2>6. CASE b # a /\ b \in readers
    <3>1. job'[b] = Moved(job, readers, MemoryRead)[b]
      BY <2>1, <2>2, <2>6
    <3>2. CASE job[b].at \in MemoryRead
      <4>1. job'[b].at = job[b].at /\ job'[b].moved = TRUE /\ session'[b] = session[b]
        BY <1>1, <2>1, <2>6, <3>1, <3>2 DEF Moved, Job, At, MemoryRead
      <4> QED  BY <1>1, <2>1, <3>2, <4>1 DEF Consistent, At, MemoryRead
    <3>3. CASE job[b].at = "rehash"
      <4>1. job'[b] = job[b]
        BY <2>6, <3>1, <3>3 DEF Moved, MemoryRead
      <4>2. session'[b] = IF session[b] # None THEN [session[b] EXCEPT !.slipped = TRUE] ELSE session[b]
        BY <2>1, <2>6, <3>3 DEF At
      <4>3. session[b] # None => session'[b].slipped = TRUE
        BY <4>2 DEF PromptsTypeOK, Session
      <4> QED  BY <3>3, <4>1, <4>2, <4>3 DEF Consistent, At, MemoryRead
    <3>4. CASE job[b].at \notin MemoryRead \cup {"rehash"}
      <4>1. job'[b] = job[b] /\ session'[b] = session[b]
        BY <2>1, <2>6, <3>1, <3>4 DEF Moved, At
      <4> QED  BY <1>1, <2>1, <3>4, <4>1 DEF Consistent, At
    <3> QED  BY <3>2, <3>3, <3>4
  <2> QED  BY <2>4, <2>5, <2>6
<1>4. ASSUME NEW p \in Projects, Team(p)  PROVE Consistent(b)'
  <2> DEFINE members == {a \in Agents : ProjectOf[a] = p}
  <2>1. /\ session' = session /\ hash' = hash /\ kept' = kept /\ memories' = memories
        /\ job' = Moved(job, members, TextRead)
        /\ b \notin members => text'[b] = text[b]
    BY <1>4 DEF Team, memory, stored
  <2>2. Combined(b)' = Combined(b)
    BY <2>1 DEF Combined, Key
  <2>3. CASE b \notin members \/ job[b].at \notin TextRead
    <3>1. job'[b] = job[b]
      BY <2>1, <2>3 DEF Moved
    <3> QED  BY <1>1, <2>1, <2>2, <2>3, <3>1
             DEF Consistent, At, FullPrompt, Current, MemoryRead, TextRead
  <2>4. CASE b \in members /\ job[b].at \in TextRead
    <3>1. job'[b].moved = TRUE /\ job'[b].at = job[b].at
      BY <1>1, <2>1, <2>4 DEF Moved, Job
    <3> QED  BY <1>1, <2>1, <2>4, <3>1 DEF Consistent, At, TextRead
  <2> QED  BY <2>3, <2>4
<1>5. ASSUME NEW a \in Agents, Reset(a)  PROVE Consistent(b)'
  <2>1. job' = job /\ text' = text /\ memories' = memories
    BY <1>5 DEF Reset, memory
  <2>2. Combined(b)' = Combined(b)
    BY <2>1 DEF Combined, Key
  <2>3. CASE b = a
    <3>1. session'[b] = None
      BY <1>5, <2>3 DEF Reset, PromptsTypeOK
    <3> QED  BY <1>1, <2>1, <2>2, <3>1 DEF Consistent, At, MemoryRead, Current
  <2>4. CASE b # a
    <3>1. Untouched(b)
      BY <1>5, <2>1, <2>4 DEF Reset, Untouched, PromptsTypeOK
    <3> QED  BY <1>1, <2>2, <3>1, ConsistentStays
  <2> QED  BY <2>3, <2>4
<1>6. ASSUME NEW p \in Projects, RestartProject(p)  PROVE Consistent(b)'
  <2>1. memories' = memories /\ kept' = kept
    BY <1>6 DEF RestartProject
  <2>2. CASE ProjectOf[b] = p
    <3>1. /\ job'[b].at = "idle" /\ hash'[b] = kept[b]
          /\ session'[b] = IF job[b].at \in {"rehash", "mark"} /\ session[b] # None
                           THEN [session[b] EXCEPT !.slipped = TRUE] ELSE session[b]
      BY <1>6, <2>2 DEF RestartProject, NoJob
    <3>2. CASE job[b].at \in {"rehash", "mark"} /\ session[b] # None
      <4>1. session'[b].slipped = TRUE
        BY <3>1, <3>2 DEF PromptsTypeOK, Session
      <4> QED  BY <3>1, <4>1 DEF Consistent, At, MemoryRead
    <3>3. CASE ~(job[b].at \in {"rehash", "mark"} /\ session[b] # None)
      BY <1>1, <2>1, <3>1, <3>3 DEF Consistent, At, MemoryRead
    <3> QED  BY <3>2, <3>3
  <2>3. CASE ProjectOf[b] # p
    <3>1. Untouched(b)
      BY <1>6, <2>3 DEF RestartProject, Untouched
    <3>2. Combined(b)' = Combined(b)
      BY <2>1 DEF Combined, Key
    <3> QED  BY <1>1, <3>1, <3>2, ConsistentStays
  <2> QED  BY <2>2, <2>3
<1>7. CASE UNCHANGED promptsVars
  <2>1. Untouched(b) /\ memories' = memories
    BY <1>7 DEF promptsVars, Untouched, memory, stored
  <2>2. Combined(b)' = Combined(b)
    BY <2>1 DEF Combined, Key
  <2> QED  BY <1>1, <2>1, <2>2, ConsistentStays
<1> QED  BY <1>2, <1>3, <1>4, <1>5, <1>6, <1>7 DEF PromptsNext, AgentStep

-----------------------------------------------------------------------------
(* The theorems *)

LEMMA PromptsStart ==
  ASSUME PromptsInit  PROVE PromptsInv
<1> USE DEF PromptsInit
<1>1. NoMemory \in Memory /\ JobOK(NoJob)
  BY NoJobOK DEF JobOK, Job, NoJob
<1>2. JobsOK /\ job \in [Agents -> Job]
  BY <1>1 DEF JobsOK, JobOK
<1>3. text \in [Agents -> Text]
  BY <1>1, PromptsAssumption DEF Rendered, Text
<1>4. \A a \in Agents : job[a].at = "idle" /\ job[a].since = NoMemory
  BY DEF NoJob
<1>5. PromptsTypeOK
  BY <1>1, <1>2, <1>3, <1>4, PromptsAssumption DEF PromptsTypeOK, Absent, Doubled, At
<1>6. Numbered
  BY PromptsAssumption DEF Numbered, Absent
<1>7. \A a \in Agents : Carried(a)
  BY <1>4, KeysAre DEF Carried, At, NoMemory, Absent
<1>8. \A a \in Agents : Consistent(a)
  BY <1>4 DEF Consistent, At, MemoryRead
<1> QED  BY <1>2, <1>5, <1>6, <1>7, <1>8 DEF PromptsInv

LEMMA PromptsInvariant ==
  PromptsSpec => []PromptsInv
<1>1. PromptsInit => PromptsInv
  BY PromptsStart
<1>2. PromptsInv /\ [PromptsNext]_promptsVars => PromptsInv'
  <2> SUFFICES ASSUME PromptsInv, [PromptsNext]_promptsVars  PROVE PromptsInv'
    OBVIOUS
  <2>1. PromptsTypeOK' /\ JobsOK' /\ Numbered'
    BY PromptsTypeStep, NumberedStep DEF PromptsInv
  <2>2. \A a \in Agents : Carried(a)' /\ Consistent(a)'
    BY CarriedStep, ConsistentStep DEF PromptsInv
  <2> QED  BY <2>1, <2>2 DEF PromptsInv
<1> QED  BY <1>1, <1>2, PTL DEF PromptsSpec

\* What the prompt builder, the memory manager and the agents keep has its type at
\* every step, and an agent that is about to resume a session has one to resume.
THEOREM PromptsTypeCorrect == PromptsSpec => []PromptsTypeOK
<1>1. PromptsInv => PromptsTypeOK
  BY DEF PromptsInv
<1> QED  BY <1>1, PromptsInvariant, PTL

\* Whatever PromptBuilder._build_prompt sends, the memory that was saved before the
\* message was taken up is in it, for any number of agents, persons, projects and
\* kinds of memory, and however many saves meet.
THEOREM MemoriesAreTold == PromptsSpec => []MemoryIsTold
<1>1. PromptsInv => MemoryIsTold
  BY DEF PromptsInv, MemoryIsTold, Carried, At, TellsOf
<1> QED  BY <1>1, PromptsInvariant, PTL

\* A session of a command-line provider that was told the very prompt of now is the
\* only one of them that is resumed with a reminder, unless the prompt changed while
\* the last one was sent and hashed: the invalidations of roster and role changes,
\* saves and resets never leave a session that goes by an older prompt and a hash
\* that hides it. Of API providers it says nothing: see ReminderSuffices.
THEOREM RemindersSuffice == PromptsSpec => ResumedKnowsPrompt
<1>1. PromptsInv /\ [PromptsNext]_promptsVars
        => [\A a \in Agents \ ApiAgents : Reminds(a) =>
              session[a].slipped \/ session[a].told = FullPrompt(a)]_promptsVars
  <2> SUFFICES ASSUME PromptsInv, PromptsNext, NEW a \in Agents, a \notin ApiAgents,
                      At(a, "build"), job'[a].at = "invoke", job'[a].sent = None
               PROVE  session[a].slipped \/ session[a].told = FullPrompt(a)
    BY DEF Reminds
  <2>0. PromptsTypeOK /\ JobsOK /\ job[a] \in Job /\ DOMAIN job = Agents
    BY DEF PromptsInv, PromptsTypeOK
  <2>1. ASSUME NEW b \in Agents, AgentStep(b)  PROVE Build(a) /\ ~Raise(a)
    <3>1. b = a
      BY <2>0, <2>1, OthersUntouched DEF Untouched, At
    <3>2. ~Raise(a)
      BY <2>0 DEF Raise, Finish, Set, NoJob
    <3> QED  BY <2>1, <3>1, <3>2 DEF AgentStep, Take, Recall, Drop, Fail, Lose, Forget, Reply,
                                     Store, Rehash, Mark, NoSave, LookUp, At
  <2>2. ASSUME NEW b \in Agents, Commit(b)  PROVE FALSE
    <3>1. PICK readers \in SUBSET Agents : job' = [Moved(job, readers, MemoryRead) EXCEPT ![b] = NoJob]
      BY <2>2 DEF Commit
    <3>2. DOMAIN Moved(job, readers, MemoryRead) = Agents
      BY DEF Moved
    <3>3. Moved(job, readers, MemoryRead)[a].at = job[a].at
      BY <2>0, MovedAt
    <3> QED  BY <3>1, <3>2, <3>3 DEF At, NoJob
  <2>3. ASSUME NEW p \in Projects, Team(p)  PROVE FALSE
    <3>1. PICK members \in SUBSET Agents : job' = Moved(job, members, TextRead)
      BY <2>3 DEF Team
    <3>2. job'[a].at = job[a].at
      BY <2>0, <3>1, MovedAt
    <3> QED  BY <3>2 DEF At
  <2>4. ~(\E b \in Agents : Reset(b)) /\ ~(\E p \in Projects : RestartProject(p))
    BY <2>0 DEF Reset, RestartProject, At, NoJob
  <2>5. Build(a) /\ ~Raise(a)
    BY <2>1, <2>2, <2>3, <2>4 DEF PromptsNext, AgentStep
  <2>6. Readable(a) /\ job[a].text \in Text
    BY <2>0, <2>5 DEF Build, JobsOK, JobOK, At
  <2>7. FullPrompt(a) # None
    BY <2>0, <2>6, FullPromptIs
  <2>8. job'[a].sent = IF Resumes(a, FullPrompt(a)) THEN None ELSE FullPrompt(a)
    <3> DEFINE resumed == Resumes(a, FullPrompt(a))
               new == [job[a] EXCEPT
                 !.at = IF HasSession(a) /\ ~resumed THEN "invalidate" ELSE "invoke",
                 !.sent = IF resumed THEN None ELSE FullPrompt(a),
                 !.session = IF resumed THEN session[a] ELSE None]
    <3>1. job'[a] = new
      BY <2>0, <2>5 DEF Build, Set
    <3>2. new.sent = IF resumed THEN None ELSE FullPrompt(a)
      <4> HIDE DEF resumed
      <4> QED  BY <2>0 DEF Job
    <3> HIDE DEF new
    <3> QED  BY <3>1, <3>2
  <2>9. session[a] # None /\ hash[a] = FullPrompt(a)
    BY <2>7, <2>8 DEF Resumes, HasSession, Unchanged
  <2> QED  BY <2>6, <2>9 DEF PromptsInv, Consistent, At
<1> QED  BY <1>1, PromptsInvariant, PTL DEF PromptsSpec, ResumedKnowsPrompt

-----------------------------------------------------------------------------
(***************************************************************************)
(* McpServers: for any agents and servers, and any number of deployments,  *)
(* requests, removals, stops and rows.                                     *)
(***************************************************************************)

(* The invariant of McpServers *)

\* A removal at an agent's file has the agent on its list.
Listed == \A j \in Removers : removal[j].at = "write" => removal[j].agent \in removal[j].todo

\* A deployment is of a server to an agent who is there, while the project runs,
\* and past the request it has a row.
Directed ==
  deploy.at # "none" =>
    /\ up /\ deploy.agent \in staff /\ deploy.server \in Servers
    /\ deploy.at # "create" => deploy.row \in Ids

OnItsRow == deploy.row \in DOMAIN rows /\ rows[deploy.row].server = deploy.server

NamesIt == OnItsRow /\ deploy.agent \in rows[deploy.row].agents

ServesIt == NamesIt /\ rows[deploy.row].status = "installed"

\* What the steps of a deployment have done stays done: the row serves the agent
\* from the time it is installed, the build read it, and the file shows it.
Kept ==
  \/ deploy.lost
  \/ /\ deploy.at \in {"read", "mark", "install", "name"} => OnItsRow
     /\ deploy.at = "installed" => NamesIt
     /\ deploy.at \in {"build", "write", "drop"} => ServesIt
     /\ deploy.at = "write" => deploy.server \in deploy.read
     /\ deploy.at = "drop" =>
          path[deploy.agent] /\ (deploy.agent \in stale \/ deploy.server \in config[deploy.agent])

McpInv == McpTypeOK /\ Listed /\ Directed /\ RemovedIsGone /\ Kept

-----------------------------------------------------------------------------

LEMMA GreatestNumber ==
  ASSUME NEW n \in Nat, NEW S \in SUBSET (1..n), S # {}
  PROVE  Max(S) \in S /\ \A m \in S : m <= Max(S)
<1> DEFINE Less == {pair \in Nat \X Nat : pair[1] < pair[2]}
           Left == {n - m : m \in S}
<1>1. OpToRel(<, Nat) = Less
  BY DEF OpToRel
<1>2. IsWellFoundedOn(Less, Nat)
  BY <1>1, NatLessThanWellFounded
<1>3. Left \in SUBSET Nat /\ Left # {}
  <2>1. \A m \in S : n - m \in Nat
    OBVIOUS
  <2> QED  BY <2>1
<1>4. PICK k \in Left : \A l \in Left : <<l, k>> \notin Less
  <2> HIDE DEF Less, Left
  <2> QED  BY <1>2, <1>3, WFMin
<1>5. PICK m \in S : k = n - m
  BY <1>4
<1>6. \A l \in S : l <= m
  <2> SUFFICES ASSUME NEW l \in S  PROVE l <= m
    OBVIOUS
  <2>1. <<n - l, k>> \notin Less /\ n - l \in Nat /\ k \in Nat
    BY <1>3, <1>4
  <2> QED  BY <1>5, <2>1
<1> QED
  BY <1>5, <1>6 DEF Max

LEMMA NewIdIsNew ==
  ASSUME McpTypeOK
  PROVE  NewId \in Nat \ {0} /\ NewId \notin DOMAIN rows
<1>1. CASE DOMAIN rows = {}
  BY <1>1 DEF NewId
<1>2. CASE DOMAIN rows # {}
  <2>1. DOMAIN rows \subseteq 1..MaxRows /\ MaxRows \in Nat
    BY McpAssumption DEF McpTypeOK, Ids
  <2>2. Max(DOMAIN rows) \in DOMAIN rows /\ \A m \in DOMAIN rows : m <= Max(DOMAIN rows)
    BY <1>2, <2>1, GreatestNumber
  <2> QED  BY <1>2, <2>1, <2>2 DEF NewId
<1> QED  BY <1>1, <1>2

\* What the steps of the repository do to the rows.
RowsTyped ==
  DOMAIN rows \subseteq Ids /\ \A i \in DOMAIN rows : rows[i] \in Row /\ rows[i].agents \subseteq staff

LEMMA CreateIs ==
  ASSUME McpTypeOK, NewId \in Ids, staff \subseteq staff', NEW server \in Servers,
         NEW package \in BOOLEAN, Create(server, package)
  PROVE  /\ RowsTyped' /\ DOMAIN rows' = DOMAIN rows \cup {NewId}
         /\ rows'[NewId].server = server
         /\ \A i \in DOMAIN rows : rows'[i] = rows[i]
<1>1. NewId \notin DOMAIN rows
  BY NewIdIsNew
<1> QED  BY <1>1 DEF McpTypeOK, RowsTyped, Create, Row, Ids

LEMMA UpdateStatusIs ==
  ASSUME McpTypeOK, staff' = staff, NEW r,
         NEW status \in {"pending", "deploying", "installed", "failed"}, UpdateStatus(r, status)
  PROVE  /\ RowsTyped' /\ DOMAIN rows' = DOMAIN rows
         /\ \A i \in DOMAIN rows :
              /\ rows'[i].server = rows[i].server /\ rows'[i].agents = rows[i].agents
              /\ rows'[i].status = IF i = r THEN status ELSE rows[i].status
BY DEF McpTypeOK, RowsTyped, UpdateStatus, Row, Ids

LEMMA AddAgentIs ==
  ASSUME McpTypeOK, staff' = staff, NEW r, NEW a \in staff, AddAgent(r, a)
  PROVE  /\ RowsTyped' /\ DOMAIN rows' = DOMAIN rows
         /\ \A i \in DOMAIN rows :
              /\ rows'[i].server = rows[i].server /\ rows'[i].status = rows[i].status
              /\ rows'[i].agents = rows[i].agents \cup (IF i = r THEN {a} ELSE {})
BY DEF McpTypeOK, RowsTyped, AddAgent, Row, Ids

LEMMA DeleteIs ==
  ASSUME McpTypeOK, staff' = staff, NEW r, Delete(r)
  PROVE  /\ RowsTyped' /\ DOMAIN rows' = DOMAIN rows \ {r}
         /\ \A i \in DOMAIN rows \ {r} : rows'[i] = rows[i]
BY DEF McpTypeOK, RowsTyped, Delete, Row, Ids

LEMMA ServedIs ==
  ASSUME McpTypeOK, NEW a
  PROVE  Served(a) \subseteq NamedFor(a) /\ NamedFor(a) \subseteq Servers
BY DEF McpTypeOK, Served, NamedFor, Row

\* Rows that keep their server and their agents name what they named.
LEMMA NamesStay ==
  ASSUME McpTypeOK, NEW a, 
         \A i \in DOMAIN rows : a \in rows[i].agents =>
            i \in DOMAIN rows' /\ rows'[i].server = rows[i].server /\ a \in rows'[i].agents
  PROVE  NamedFor(a) \subseteq NamedFor(a)'
BY DEF NamedFor

DeployStep ==
  \/ DeployCreate \/ DeployRead \/ DeployMark \/ DeployInstall
  \/ DeployFails \/ DeployFailed
  \/ DeployName \/ DeployInstalled \/ DeployBuild \/ DeployWrite \/ DeployDone

LEMMA RebuildingIs ==
  ASSUME McpTypeOK, Listed, NEW j \in Removers, NEW todo \in SUBSET removal[j].todo, Rebuilding(j, todo)
  PROVE  /\ removal' \in [Removers -> Removal] /\ Listed'
         /\ todo # {} => removal'[j].at = "build" /\ removal'[j].todo = todo
         /\ \A k \in Removers \ {j} : removal'[k] = removal[k]
<1>1. removal[j] \in Removal /\ NoRemoval \in Removal
  BY DEF McpTypeOK, Removal, NoRemoval
<1>2. CASE todo = {}
  BY <1>1, <1>2 DEF McpTypeOK, Rebuilding, NoRemoval, Listed
<1>3. CASE todo # {}
  <2>1. removal' = [removal EXCEPT ![j] = [removal[j] EXCEPT !.at = "build", !.todo = todo]]
    BY <1>3 DEF McpTypeOK, Rebuilding
  <2>2. [removal[j] EXCEPT !.at = "build", !.todo = todo] \in Removal
    BY <1>1 DEF Removal
  <2>3. /\ removal' \in [Removers -> Removal]
        /\ removal'[j] = [removal[j] EXCEPT !.at = "build", !.todo = todo]
        /\ \A k \in Removers \ {j} : removal'[k] = removal[k]
    BY <2>1, <2>2 DEF McpTypeOK
  <2> QED  BY <1>1, <2>3 DEF Removal, Listed
<1> QED  BY <1>2, <1>3

LEMMA McpTyped ==
  ASSUME McpTypeOK, Listed, Directed, [McpNext]_mcpVars
  PROVE  McpTypeOK' /\ Listed' /\ Directed'
<1> USE DEF McpTypeOK, Listed, Directed, Deployment, team, files
<1>1. ASSUME NEW a \in Clients, Recruit(a)  PROVE McpTypeOK' /\ Listed' /\ Directed'
  BY <1>1 DEF Recruit, Contained
<1>2. ASSUME NEW a \in Clients, CreateRequest(a)  PROVE McpTypeOK' /\ Listed' /\ Directed'
  <2>1. RowsTyped'
    BY <1>2, CreateIs DEF CreateRequest
  <2> QED  BY <1>2, <2>1 DEF CreateRequest, RowsTyped
<1>3. ASSUME NEW a \in Clients, NEW s \in Servers, RequestCapability(a, s)
      PROVE  McpTypeOK' /\ Listed' /\ Directed'
  BY <1>3, McpAssumption DEF RequestCapability
<1>4. ASSUME NEW a \in Clients, NEW s \in Servers, DeployMcp(a, s)
      PROVE  McpTypeOK' /\ Listed' /\ Directed'
  <2>1. Existing(s) \subseteq Ids \cup {NoRow}
    BY DEF Existing, Found
  <2>2. calls' \in [deploys: 0..MaxDeploys, asks: 0..MaxAsks,
                   removals: 0..MaxRemovals, stops: 0..MaxStops]
    BY <1>4, McpAssumption DEF DeployMcp
  <2>3. PICK id \in Existing(s) :
          deploy' = [NoDeploy EXCEPT !.at = IF id = NoRow THEN "create" ELSE "read",
                                     !.agent = a, !.server = s, !.row = id]
    BY <1>4 DEF DeployMcp
  <2>4. deploy' \in Deployment /\ Directed'
    BY <1>4, <2>1, <2>3 DEF DeployMcp, NoDeploy, NoRow, DeployStages
  <2> QED  BY <1>4, <2>2, <2>4 DEF DeployMcp
<1>5. CASE DeployCreate
  <2>1. RowsTyped'
    BY <1>5, CreateIs DEF DeployCreate
  <2> QED  BY <1>5, <2>1 DEF DeployCreate, RowsTyped, DeployStages
<1>6. CASE DeployRead
  BY <1>6 DEF DeployRead, DeployStages, NoDeploy, Row
<1>7. CASE DeployMark
  <2>1. RowsTyped'
    BY <1>7, UpdateStatusIs DEF DeployMark
  <2>2. deploy' \in Deployment /\ Directed'
    BY <1>7 DEF DeployMark, DeployStages
  <2> QED  BY <1>7, <2>1, <2>2 DEF DeployMark, RowsTyped
<1>8. CASE DeployInstall \/ DeployFails
  <2>1. PICK stage \in {"name", "failed"} : deploy' = [deploy EXCEPT !.at = stage]
    BY <1>8 DEF DeployInstall, DeployFails
  <2>2. deploy.at \notin {"none", "create"}
    BY <1>8 DEF DeployInstall, DeployFails
  <2>3. staff' = staff /\ up' = up
    BY <1>8 DEF DeployInstall, DeployFails
  <2>4. deploy' \in Deployment /\ Directed'
    BY <2>1, <2>2, <2>3 DEF DeployStages
  <2> QED  BY <1>8, <2>4 DEF DeployInstall, DeployFails
<1>21. CASE DeployDone
  BY <1>21 DEF DeployDone, DeployStages, NoDeploy
<1>9. CASE DeployFailed
  <2>1. RowsTyped'
    BY <1>9, UpdateStatusIs DEF DeployFailed
  <2> QED  BY <1>9, <2>1 DEF DeployFailed, RowsTyped, DeployStages, NoDeploy
<1>10. CASE DeployName
  <2>1. RowsTyped'
    BY <1>10, AddAgentIs DEF DeployName
  <2> QED  BY <1>10, <2>1 DEF DeployName, RowsTyped, DeployStages, After
<1>11. CASE DeployInstalled
  <2>1. RowsTyped'
    BY <1>11, UpdateStatusIs DEF DeployInstalled
  <2> QED  BY <1>11, <2>1 DEF DeployInstalled, RowsTyped, DeployStages, After
<1>12. CASE DeployBuild
  <2>1. Served(deploy.agent) \subseteq Servers
    BY ServedIs
  <2> QED  BY <1>12, <2>1 DEF DeployBuild, DeployStages, After
<1>13. CASE DeployWrite
  BY <1>13 DEF DeployWrite, WriteConfig, DeployStages, After
<1>14. ASSUME NEW j \in Removers, NEW r \in Ids, RemoveServer(j, r)
       PROVE  McpTypeOK' /\ Listed' /\ Directed'
  <2>1. [NoRemoval EXCEPT !.at = "delete", !.row = r, !.todo = rows[r].agents] \in Removal
    BY <1>14 DEF RemoveServer, NoRemoval, Row, Removal
  <2>2. removal' \in [Removers -> Removal] /\ Listed'
    BY <1>14, <2>1 DEF RemoveServer, NoRemoval
  <2>3. calls' \in [deploys: 0..MaxDeploys, asks: 0..MaxAsks,
                   removals: 0..MaxRemovals, stops: 0..MaxStops]
    BY <1>14, McpAssumption DEF RemoveServer
  <2> QED  BY <1>14, <2>2, <2>3 DEF RemoveServer
<1>15. ASSUME NEW j \in Removers, RemoveRecord(j)  PROVE McpTypeOK' /\ Listed' /\ Directed'
  <2>1. RowsTyped'
    BY <1>15, DeleteIs DEF RemoveRecord
  <2>2. removal' \in [Removers -> Removal] /\ Listed'
    BY <1>15, RebuildingIs DEF RemoveRecord
  <2>3. stale' \subseteq Clients /\ deploy' \in Deployment /\ Directed'
    BY <1>15 DEF RemoveRecord, Row
  <2> QED  BY <1>15, <2>1, <2>2, <2>3 DEF RemoveRecord, RowsTyped
<1>16. ASSUME NEW j \in Removers, RemoveWrite(j)  PROVE McpTypeOK' /\ Listed' /\ Directed'
  <2>1. removal' \in [Removers -> Removal] /\ Listed'
    BY <1>16, RebuildingIs DEF RemoveWrite
  <2>2. removal[j].agent \in Clients /\ removal[j].read \subseteq Servers
    BY <1>16 DEF RemoveWrite, Removal
  <2> QED  BY <1>16, <2>1, <2>2 DEF RemoveWrite, WriteConfig
<1>17. ASSUME NEW j \in Removers, NEW a \in Clients, RemoveBuild(j, a)
       PROVE  McpTypeOK' /\ Listed' /\ Directed'
  <2> DEFINE new == [removal[j] EXCEPT !.at = "write", !.agent = a, !.read = Served(a)]
  <2>1. Served(a) \subseteq Servers
    BY ServedIs
  <2>2. new \in Removal /\ new.at = "write" /\ new.agent = a /\ new.todo = removal[j].todo
    BY <1>17, <2>1 DEF RemoveBuild, Removal
  <2>3. removal' = [removal EXCEPT ![j] = new]
    BY <1>17 DEF RemoveBuild
  <2>4. a \in removal[j].todo
    BY <1>17 DEF RemoveBuild
  <2> HIDE DEF new
  <2>5. removal' \in [Removers -> Removal] /\ Listed'
    BY <2>2, <2>3, <2>4
  <2> QED  BY <1>17, <2>5 DEF RemoveBuild
<1>18. ASSUME NEW crash \in BOOLEAN, Stop(crash)  PROVE McpTypeOK' /\ Listed' /\ Directed'
  <2>1. deploy' \in Deployment /\ Directed'
    BY <1>18 DEF Stop, NoDeploy, DeployStages
  <2>2. removal' \in [Removers -> Removal] /\ Listed'
    BY <1>18 DEF Stop, NoRemoval, Removal
  <2>3. \A j \in Removers : removal[j].todo \subseteq Clients
    BY DEF Removal
  <2>4. stale' \subseteq Clients
    BY <1>18, <2>3 DEF Stop
  <2>5. calls' \in [deploys: 0..MaxDeploys, asks: 0..MaxAsks,
                   removals: 0..MaxRemovals, stops: 0..MaxStops]
    BY <1>18, McpAssumption DEF Stop
  <2> QED  BY <1>18, <2>1, <2>2, <2>4, <2>5 DEF Stop, NoContainer
<1>19. CASE Start
  BY <1>19 DEF Start
<1>20. CASE UNCHANGED mcpVars
  BY <1>20 DEF mcpVars
<1> QED
  BY <1>1, <1>2, <1>3, <1>4, <1>5, <1>6, <1>7, <1>8, <1>9, <1>10, <1>11, <1>12, <1>13, <1>14,
     <1>15, <1>16, <1>17, <1>18, <1>19, <1>20, <1>21 DEF McpNext

-----------------------------------------------------------------------------
(* What is removed *)

\* An agent's file is settled, or will be by a removal.
Settled(a) ==
  \/ a \in stale
  \/ \E j \in Removers : removal[j].at \in {"build", "write"} /\ a \in removal[j].todo
  \/ config[a] \subseteq NamedFor(a)

\* A step that keeps files, removals and exceptions, and what the rows name.
LEMMA SettledStays ==
  ASSUME McpTypeOK, NEW a \in Clients, Settled(a), config' = config, stale \subseteq stale',
         \A j \in Removers : removal[j].at \in {"build", "write"} /\ a \in removal[j].todo =>
           removal'[j].at \in {"build", "write"} /\ a \in removal'[j].todo,
         \A i \in DOMAIN rows : a \in rows[i].agents =>
           i \in DOMAIN rows' /\ rows'[i].server = rows[i].server /\ a \in rows'[i].agents
  PROVE  Settled(a)'
<1>1. NamedFor(a) \subseteq NamedFor(a)'
  BY NamesStay
<1> QED  BY <1>1 DEF Settled

\* Whoever writes a file from rows of now settles it, else leaves it stale.
LEMMA WriteSettles ==
  ASSUME McpTypeOK, NEW a \in Clients, NEW servers, WriteConfig(a, servers), rows' = rows
  PROVE  /\ Settled(a)'
         /\ \A b \in Clients \ {a} : config'[b] = config[b] /\ (b \in stale => b \in stale')
<1>1. config'[a] = servers /\ NamedFor(a)' = NamedFor(a)
  BY DEF McpTypeOK, WriteConfig, NamedFor
<1>2. a \in stale' \/ servers = Served(a)
  BY DEF WriteConfig
<1>3. Served(a) \subseteq NamedFor(a)
  BY ServedIs
<1> QED  BY <1>1, <1>2, <1>3 DEF McpTypeOK, WriteConfig, Settled

LEMMA McpSettled ==
  ASSUME McpTypeOK, Listed, Directed, \A a \in Clients : Settled(a), [McpNext]_mcpVars, 
         NEW a \in Clients
  PROVE  Settled(a)'
<1>1. CASE \E b \in Clients : Recruit(b)
  BY <1>1, SettledStays DEF Recruit, files
<1>2. ASSUME NEW b \in Clients, CreateRequest(b)  PROVE Settled(a)'
  <2>1. \A i \in DOMAIN rows : i \in DOMAIN rows' /\ rows'[i] = rows[i]
    BY <1>2, CreateIs DEF CreateRequest, McpTypeOK, team
  <2> QED  BY <1>2, <2>1, SettledStays DEF CreateRequest, files
<1>3. CASE \E b \in Clients, s \in Servers : RequestCapability(b, s) \/ DeployMcp(b, s)
  BY <1>3, SettledStays DEF RequestCapability, DeployMcp, files
<1>4. CASE DeployCreate
  <2>1. \A i \in DOMAIN rows : i \in DOMAIN rows' /\ rows'[i] = rows[i]
    BY <1>4, CreateIs DEF DeployCreate, Directed, team
  <2> QED  BY <1>4, <2>1, SettledStays DEF DeployCreate, files
<1>5. CASE DeployRead \/ DeployInstall \/ DeployFails \/ DeployDone \/ DeployBuild
  BY <1>5, SettledStays DEF DeployRead, DeployInstall, DeployFails, DeployDone, DeployBuild, files
<1>6. CASE DeployMark \/ DeployFailed \/ DeployInstalled
  <2>1. \A i \in DOMAIN rows : /\ i \in DOMAIN rows' /\ rows'[i].server = rows[i].server
                               /\ rows'[i].agents = rows[i].agents
    BY <1>6, UpdateStatusIs DEF DeployMark, DeployFailed, DeployInstalled, team
  <2> QED  BY <1>6, <2>1, SettledStays DEF DeployMark, DeployFailed, DeployInstalled, files
<1>7. CASE DeployName
  <2>1. \A i \in DOMAIN rows : /\ i \in DOMAIN rows' /\ rows'[i].server = rows[i].server
                               /\ rows[i].agents \subseteq rows'[i].agents
    BY <1>7, AddAgentIs DEF DeployName, Directed, team
  <2> QED  BY <1>7, <2>1, SettledStays DEF DeployName, files
<1>8. CASE DeployWrite
  <2>1. deploy.agent \in Clients
    BY <1>8 DEF DeployWrite, Directed, McpTypeOK
  <2>2. CASE a = deploy.agent
    BY <1>8, <2>1, <2>2, WriteSettles DEF DeployWrite
  <2>3. CASE a # deploy.agent
    <3>1. config'[a] = config[a] /\ (a \in stale => a \in stale')
      BY <1>8, <2>1, <2>3, WriteSettles DEF DeployWrite
    <3> QED  BY <1>8, <3>1 DEF DeployWrite, Settled, NamedFor
  <2> QED  BY <2>2, <2>3
<1>9. ASSUME NEW j \in Removers, NEW r \in Ids, RemoveServer(j, r)  PROVE Settled(a)'
  <2>1. \A k \in Removers : removal[k].at \in {"build", "write"} => removal'[k] = removal[k]
    BY <1>9 DEF RemoveServer, McpTypeOK
  <2> QED  BY <1>9, <2>1, SettledStays DEF RemoveServer, files
<1>10. ASSUME NEW j \in Removers, RemoveRecord(j)  PROVE Settled(a)'
  <2> DEFINE r == removal[j].row
  <2>1. /\ \A k \in Removers \ {j} : removal'[k] = removal[k]
        /\ a \in removal[j].todo => removal'[j].at = "build" /\ a \in removal'[j].todo
    BY <1>10, RebuildingIs DEF RemoveRecord
  <2>2. removal[j].at = "delete" /\ config' = config /\ stale \subseteq stale'
    BY <1>10 DEF RemoveRecord, files
  <2>3. /\ DOMAIN rows' = DOMAIN rows \ {r}
        /\ \A i \in DOMAIN rows \ {r} : rows'[i] = rows[i]
    BY <1>10, DeleteIs DEF RemoveRecord, team
  <2>4. CASE a \in removal[j].todo
    BY <2>1, <2>4 DEF Settled
  <2>5. CASE a \notin removal[j].todo /\ r \in DOMAIN rows /\ a \in rows[r].agents
    BY <1>10, <2>5 DEF RemoveRecord, Settled
  <2>6. CASE ~(r \in DOMAIN rows /\ a \in rows[r].agents)
    BY <2>1, <2>2, <2>3, <2>6, SettledStays
  <2> QED  BY <2>4, <2>5, <2>6
<1>11. ASSUME NEW j \in Removers, RemoveWrite(j)  PROVE Settled(a)'
  <2>1. removal[j].agent \in Clients
    BY <1>11 DEF RemoveWrite, Listed, McpTypeOK, Removal
  <2>2. CASE a = removal[j].agent
    BY <1>11, <2>1, <2>2, WriteSettles DEF RemoveWrite
  <2>3. CASE a # removal[j].agent
    <3>1. config'[a] = config[a] /\ (a \in stale => a \in stale')
      BY <1>11, <2>1, <2>3, WriteSettles DEF RemoveWrite
    <3>2. /\ \A k \in Removers \ {j} : removal'[k] = removal[k]
          /\ a \in removal[j].todo => removal'[j].at = "build" /\ a \in removal'[j].todo
      BY <1>11, <2>3, RebuildingIs DEF RemoveWrite
    <3> QED  BY <1>11, <3>1, <3>2 DEF RemoveWrite, Settled, NamedFor
  <2> QED  BY <2>2, <2>3
<1>12. ASSUME NEW j \in Removers, NEW b \in Clients, RemoveBuild(j, b)  PROVE Settled(a)'
  <2>1. \A k \in Removers : removal[k].at \in {"build", "write"} =>
          removal'[k].at \in {"build", "write"} /\ removal'[k].todo = removal[k].todo
    BY <1>12 DEF RemoveBuild, McpTypeOK, Removal
  <2> QED  BY <1>12, <2>1, SettledStays DEF RemoveBuild, files
<1>13. ASSUME NEW crash \in BOOLEAN, Stop(crash)  PROVE Settled(a)'
  BY <1>13 DEF Stop, Settled, NamedFor
<1>14. CASE Start \/ UNCHANGED mcpVars
  BY <1>14, SettledStays DEF Start, mcpVars, files
<1> QED
  BY <1>1, <1>2, <1>3, <1>4, <1>5, <1>6, <1>7, <1>8, <1>9, <1>10, <1>11, <1>12, <1>13, <1>14
  DEF McpNext

-----------------------------------------------------------------------------
(* What is deployed *)

\* Another build of the deployment's file lists the server as well, unless it leaves
\* the file stale.
LEMMA Rewritten ==
  ASSUME McpTypeOK, NEW a \in Clients, NEW servers, WriteConfig(a, servers), ServesIt,
         deploy.agent \in Clients,
         deploy.agent \in stale \/ deploy.server \in config[deploy.agent]
  PROVE  deploy.agent \in stale' \/ deploy.server \in config'[deploy.agent]
<1>1. deploy.server \in Served(deploy.agent)
  BY DEF ServesIt, NamesIt, OnItsRow, Served
<1> QED  BY <1>1 DEF WriteConfig, McpTypeOK

\* What others do: the deployment stays where it is, its row serves whom it
\* served, and its file is as it was.
LEMMA KeptStays ==
  ASSUME Kept, deploy' = deploy, path' = path,
         deploy.row \in DOMAIN rows =>
            /\ deploy.row \in DOMAIN rows'
            /\ rows'[deploy.row].server = rows[deploy.row].server
            /\ rows'[deploy.row].agents = rows[deploy.row].agents
            /\ rows'[deploy.row].status = rows[deploy.row].status,
         deploy.at = "drop" /\ ServesIt
           /\ (deploy.agent \in stale \/ deploy.server \in config[deploy.agent])
             => deploy.agent \in stale' \/ deploy.server \in config'[deploy.agent]
  PROVE  Kept'
BY DEF Kept, ServesIt, NamesIt, OnItsRow

LEMMA McpKept ==
  ASSUME McpTypeOK, Listed, Directed, Kept, [McpNext]_mcpVars
  PROVE  Kept'
<1>0. McpTypeOK'
  BY McpTyped
<1>1. CASE \E a \in Clients : Recruit(a)
  BY <1>1, KeptStays DEF Recruit, files
<1>2. ASSUME NEW a \in Clients, CreateRequest(a)  PROVE Kept'
  <2>1. \A i \in DOMAIN rows : i \in DOMAIN rows' /\ rows'[i] = rows[i]
    BY <1>2, CreateIs DEF CreateRequest, McpTypeOK, team
  <2> QED  BY <1>2, <2>1, KeptStays DEF CreateRequest, files
<1>3. CASE \E a \in Clients, s \in Servers : RequestCapability(a, s)
  BY <1>3, KeptStays DEF RequestCapability, files
<1>4. ASSUME NEW a \in Clients, NEW s \in Servers, DeployMcp(a, s)  PROVE Kept'
  <2>1. PICK id \in Existing(s) :
          deploy' = [NoDeploy EXCEPT !.at = IF id = NoRow THEN "create" ELSE "read",
                                     !.agent = a, !.server = s, !.row = id]
    BY <1>4 DEF DeployMcp
  <2>2. CASE id = NoRow
    BY <2>1, <2>2 DEF Kept, NoDeploy
  <2>3. CASE id # NoRow
    <3>1. id \in DOMAIN rows /\ rows[id].server = s
      BY <2>3 DEF Existing, Found
    <3>2. deploy'.at = "read" /\ deploy'.row = id /\ deploy'.server = s
      BY <2>1, <2>3 DEF NoDeploy
    <3>3. rows' = rows
      BY <1>4 DEF DeployMcp
    <3> QED  BY <3>1, <3>2, <3>3 DEF Kept, OnItsRow
  <2> QED  BY <2>2, <2>3
<1>5. CASE DeployCreate
  <2>1. NewId \in DOMAIN rows' /\ rows'[NewId].server = deploy.server
    BY <1>5, CreateIs DEF DeployCreate, Directed, team
  <2>2. deploy'.at = "read" /\ deploy'.row = NewId /\ deploy'.server = deploy.server
    BY <1>5 DEF DeployCreate, McpTypeOK, Deployment
  <2> QED  BY <2>1, <2>2 DEF Kept, OnItsRow
<1>6. CASE DeployRead
  BY <1>6 DEF DeployRead, Kept, OnItsRow, NoDeploy, McpTypeOK, Deployment
<1>7. CASE DeployMark
  <2>1. /\ DOMAIN rows' = DOMAIN rows
        /\ \A i \in DOMAIN rows : rows'[i].server = rows[i].server
    BY <1>7, UpdateStatusIs DEF DeployMark, team
  <2>2. /\ deploy'.at \in {"install", "name"} /\ deploy'.lost = deploy.lost
        /\ deploy'.row = deploy.row /\ deploy'.server = deploy.server
    BY <1>7 DEF DeployMark, McpTypeOK, Deployment
  <2>3. deploy.at = "mark"
    BY <1>7 DEF DeployMark
  <2> QED  BY <2>1, <2>2, <2>3 DEF Kept, OnItsRow
<1>8. CASE DeployInstall
  <2>1. /\ deploy'.at = "name" /\ deploy'.lost = deploy.lost
        /\ deploy'.row = deploy.row /\ deploy'.server = deploy.server
    BY <1>8 DEF DeployInstall, McpTypeOK, Deployment
  <2> QED  BY <1>8, <2>1 DEF DeployInstall, Kept, OnItsRow
<1>9. CASE DeployFails \/ DeployFailed \/ DeployDone
  <2>1. deploy'.at \in {"failed", "none"}
    BY <1>9 DEF DeployFails, DeployFailed, DeployDone, NoDeploy, McpTypeOK, Deployment
  <2> QED  BY <2>1 DEF Kept
<1>10. CASE DeployName
  <2>1. /\ DOMAIN rows' = DOMAIN rows
        /\ \A i \in DOMAIN rows : rows'[i].server = rows[i].server
        /\ deploy.row \in DOMAIN rows => deploy.agent \in rows'[deploy.row].agents
    BY <1>10, AddAgentIs DEF DeployName, Directed, team
  <2>2. /\ deploy'.at = "installed" /\ deploy'.lost = deploy.lost
        /\ deploy'.row = deploy.row /\ deploy'.server = deploy.server /\ deploy'.agent = deploy.agent
    BY <1>10 DEF DeployName, After, McpTypeOK, Deployment
  <2>3. deploy.at = "name"
    BY <1>10 DEF DeployName
  <2> QED  BY <2>1, <2>2, <2>3 DEF Kept, NamesIt, OnItsRow
<1>11. CASE DeployInstalled
  <2>1. /\ DOMAIN rows' = DOMAIN rows
        /\ \A i \in DOMAIN rows : /\ rows'[i].server = rows[i].server
                                  /\ rows'[i].agents = rows[i].agents
                                  /\ i = deploy.row => rows'[i].status = "installed"
    BY <1>11, UpdateStatusIs DEF DeployInstalled, team
  <2>2. /\ deploy'.at = "build" /\ deploy'.lost = deploy.lost
        /\ deploy'.row = deploy.row /\ deploy'.server = deploy.server /\ deploy'.agent = deploy.agent
    BY <1>11 DEF DeployInstalled, After, McpTypeOK, Deployment
  <2>3. deploy.at = "installed"
    BY <1>11 DEF DeployInstalled
  <2> QED  BY <2>1, <2>2, <2>3 DEF Kept, ServesIt, NamesIt, OnItsRow
<1>12. CASE DeployBuild
  <2>1. /\ deploy'.at = "write" /\ deploy'.lost = deploy.lost /\ deploy'.read = Served(deploy.agent)
        /\ deploy'.row = deploy.row /\ deploy'.server = deploy.server /\ deploy'.agent = deploy.agent
    BY <1>12 DEF DeployBuild, After, McpTypeOK, Deployment
  <2>2. deploy.at = "build" /\ rows' = rows
    BY <1>12 DEF DeployBuild
  <2>3. ServesIt => deploy.server \in Served(deploy.agent)
    BY DEF ServesIt, NamesIt, OnItsRow, Served
  <2> QED  BY <2>1, <2>2, <2>3 DEF Kept, ServesIt, NamesIt, OnItsRow
<1>13. CASE DeployWrite
  <2>1. /\ deploy'.at = "drop" /\ deploy'.lost = deploy.lost
        /\ deploy'.row = deploy.row /\ deploy'.server = deploy.server /\ deploy'.agent = deploy.agent
    BY <1>13 DEF DeployWrite, After, McpTypeOK, Deployment
  <2>2. deploy.at = "write" /\ rows' = rows /\ deploy.agent \in Clients
    BY <1>13 DEF DeployWrite, Directed, McpTypeOK
  <2>3. /\ config'[deploy.agent] = deploy.read
        /\ deploy.server \in deploy.read => path'[deploy.agent] = TRUE
    BY <1>13, <2>2 DEF DeployWrite, WriteConfig, McpTypeOK
  <2> QED  BY <2>1, <2>2, <2>3 DEF Kept, ServesIt, NamesIt, OnItsRow
<1>14. CASE \E j \in Removers, r \in Ids : RemoveServer(j, r)
  BY <1>14, KeptStays DEF RemoveServer, files
<1>15. ASSUME NEW j \in Removers, RemoveRecord(j)  PROVE Kept'
  <2> DEFINE r == removal[j].row
  <2>1. deploy' = [deploy EXCEPT !.lost = deploy.lost \/ deploy.row = r]
    BY <1>15 DEF RemoveRecord
  <2>2. deploy \in Deployment
    BY DEF McpTypeOK
  <2>3. CASE deploy.row = r
    BY <2>1, <2>2, <2>3 DEF Kept, Deployment
  <2>4. CASE deploy.row # r
    <3>1. deploy' = deploy
      BY <2>1, <2>2, <2>4 DEF Deployment
    <3>2. \A i \in DOMAIN rows \ {r} : i \in DOMAIN rows' /\ rows'[i] = rows[i]
      BY <1>15, DeleteIs DEF RemoveRecord, team
    <3>3. path' = path /\ config' = config /\ stale \subseteq stale'
      BY <1>15 DEF RemoveRecord, files
    <3> QED  BY <2>4, <3>1, <3>2, <3>3, KeptStays
  <2> QED  BY <2>3, <2>4
<1>16. ASSUME NEW j \in Removers, RemoveWrite(j)  PROVE Kept'
  <2>1. removal[j].agent \in Clients
    BY <1>16 DEF RemoveWrite, Listed, McpTypeOK, Removal
  <2>2. deploy.at = "drop" => deploy.agent \in Clients
    BY DEF Directed, McpTypeOK
  <2>3. deploy' = deploy /\ path' = path /\ rows' = rows
    BY <1>16 DEF RemoveWrite
  <2> QED  BY <1>16, <2>1, <2>2, <2>3, KeptStays, Rewritten DEF RemoveWrite
<1>17. CASE \E j \in Removers, a \in Clients : RemoveBuild(j, a)
  BY <1>17, KeptStays DEF RemoveBuild, files
<1>18. CASE \E crash \in BOOLEAN : Stop(crash)
  <2>1. deploy'.at = "none"
    BY <1>18 DEF Stop, NoDeploy
  <2> QED  BY <2>1 DEF Kept
<1>19. CASE Start
  <2>1. deploy.at = "none" /\ deploy' = deploy
    BY <1>19 DEF Start, Directed
  <2> QED  BY <2>1 DEF Kept
<1>20. CASE UNCHANGED mcpVars
  BY <1>20, KeptStays DEF mcpVars, files
<1> QED
  BY <1>1, <1>2, <1>3, <1>4, <1>5, <1>6, <1>7, <1>8, <1>9, <1>10, <1>11, <1>12, <1>13, <1>14,
     <1>15, <1>16, <1>17, <1>18, <1>19, <1>20 DEF McpNext

-----------------------------------------------------------------------------
(* The theorems *)

LEMMA McpStarts ==
  ASSUME McpInit  PROVE McpInv
<1> USE DEF McpInit
<1>1. 0 \in 0..MaxDeploys /\ 0 \in 0..MaxAsks /\ 0 \in 0..MaxRemovals /\ 0 \in 0..MaxStops
  BY McpAssumption
<1>2. DOMAIN rows = {}
  OBVIOUS
<1>3. McpTypeOK
  BY <1>1, <1>2, McpAssumption
  DEF McpTypeOK, Deployment, Removal, NoDeploy, NoRemoval, DeployStages
<1> QED
  BY <1>3 DEF McpInv, Listed, Directed, Kept, RemovedIsGone, NoDeploy, NoRemoval

\* The invariant holds of every state of the MCP manager.
LEMMA McpInvariant ==
  McpSpec => []McpInv
<1>1. McpInit => McpInv
  BY McpStarts
<1>2. McpInv /\ [McpNext]_mcpVars => McpInv'
  <2> SUFFICES ASSUME McpInv, [McpNext]_mcpVars  PROVE McpInv'
    OBVIOUS
  <2>1. McpTypeOK' /\ Listed' /\ Directed'
    BY McpTyped DEF McpInv
  <2>2. Kept'
    BY McpKept DEF McpInv
  <2>3. \A a \in Clients : Settled(a)'
    BY McpSettled DEF McpInv, RemovedIsGone, Settled
  <2> QED  BY <2>1, <2>2, <2>3 DEF McpInv, RemovedIsGone, Settled
<1> QED  BY <1>1, <1>2, PTL DEF McpSpec

\* What the MCP manager keeps has its type at every step: in particular a row has an
\* id that no other row had when it was inserted.
THEOREM McpTypeCorrect == McpSpec => []McpTypeOK
<1>1. McpInv => McpTypeOK
  BY DEF McpInv
<1> QED  BY <1>1, McpInvariant, PTL

\* remove_server takes the server out of every file that listed it, but for the
\* agents it has still to come to and for the windows that `stale` records, for any
\* number of agents, servers, removals and deployments at once.
THEOREM RemovalsReachFiles == McpSpec => []RemovedIsGone
<1>1. McpInv => RemovedIsGone
  BY DEF McpInv
<1> QED  BY <1>1, McpInvariant, PTL

\* A deployment that deploy_mcp reports as done has left the agent with the path of
\* a file that lists the server, unless its row was removed or its file overtaken by
\* an older build.
THEOREM DeploymentsAreServed == McpSpec => DeployedIsServed
<1>1. McpInv /\ [McpNext]_mcpVars
        => [(deploy.at = "drop" /\ deploy'.at = "none" /\ up')
              => \/ deploy.lost \/ deploy.agent \in stale
                 \/ path[deploy.agent] /\ deploy.server \in config[deploy.agent]]_mcpVars
  BY DEF McpInv, Kept
<1> QED  BY <1>1, McpInvariant, PTL DEF McpSpec, DeployedIsServed
=============================================================================
