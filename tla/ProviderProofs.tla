--------------------------- MODULE ProviderProofs ---------------------------
(***************************************************************************)
(* What holds of the components between an agent and its model, for every  *)
(* value of their constants: Subprocess and Transcript, one part each. The *)
(* parts do not use one another.                                           *)
(***************************************************************************)
EXTENDS Subprocess, Transcript, TLAPS

-----------------------------------------------------------------------------
(***************************************************************************)
(* Subprocess: for any number of agents, in any order of the registry, all *)
(* of them Troubled or none.                                               *)
(***************************************************************************)

(* The invariant of Subprocess *)

\* Only the holder of the lock checks the login.
Checker == \A a \in Agents : At(a, "check") => HasLock(a)

\* The flag of a cancelled task does not outlive its message.
Awake == \A a \in cancelled : ~At(a, "idle")

\* While the flag stands the user is asked, and nobody is held without it. While a
\* login is handed out there is no flag, and who is held is still to be looked at.
Noticed ==
  ~muted =>
    /\ reauth.at # "resuming" =>
         /\ flag => dialog
         /\ \A a \in pending : At(a, "held") => flag
    /\ reauth.at = "resuming" =>
         /\ ~flag
         /\ \A a \in pending : At(a, "held") => a \in ToSet(reauth.left)

Inv == TypeOK /\ Checker /\ Awake /\ Noticed

-----------------------------------------------------------------------------
(* Queues *)

LEMMA TailIs ==
  ASSUME NEW S, NEW s \in Seq(S), s # <<>>
  PROVE  /\ Tail(s) \in Seq(S) /\ Head(s) \in ToSet(s)
         /\ ToSet(Tail(s)) \subseteq ToSet(s)
         /\ \A x \in ToSet(s) : x = Head(s) \/ x \in ToSet(Tail(s))
         /\ IsInjective(s) => IsInjective(Tail(s)) /\ Head(s) \notin ToSet(Tail(s))
  <1>1. /\ Tail(s) \in Seq(S) /\ Len(Tail(s)) = Len(s) - 1 /\ Len(s) \in Nat \ {0}
        /\ DOMAIN s = 1..Len(s) /\ DOMAIN Tail(s) = 1..(Len(s) - 1)
        /\ \A i \in 1..(Len(s) - 1) : Tail(s)[i] = s[i + 1]
    OBVIOUS
  <1>2. Head(s) = s[1] /\ 1 \in 1..Len(s)
    BY <1>1
  <1>3. \A i \in 1..Len(s) : i = 1 \/ (i - 1 \in 1..(Len(s) - 1) /\ (i - 1) + 1 = i)
    BY <1>1
  <1>4. ToSet(Tail(s)) \subseteq ToSet(s)
    BY <1>1 DEF ToSet
  <1>5. ASSUME NEW x \in ToSet(s)  PROVE x = Head(s) \/ x \in ToSet(Tail(s))
    <2>1. PICK i \in 1..Len(s) : x = s[i]
      BY <1>1 DEF ToSet
    <2>2. CASE i = 1
      BY <1>2, <2>1, <2>2
    <2>3. CASE i # 1
      <3>1. Tail(s)[i - 1] = x
        BY <1>1, <1>3, <2>1, <2>3
      <3> QED  BY <1>1, <1>3, <2>3, <3>1 DEF ToSet
    <2> QED  BY <2>2, <2>3
  <1>6. ASSUME IsInjective(s)  PROVE IsInjective(Tail(s)) /\ Head(s) \notin ToSet(Tail(s))
    <2>1. \A i, j \in 1..Len(s) : s[i] = s[j] => i = j
      BY <1>1, <1>6 DEF IsInjective
    <2>2. \A i \in 1..(Len(s) - 1) : i + 1 \in 1..Len(s) /\ i + 1 # 1
      BY <1>1
    <2>3. IsInjective(Tail(s))
      <3> SUFFICES ASSUME NEW i \in 1..(Len(s) - 1), NEW j \in 1..(Len(s) - 1),
                          Tail(s)[i] = Tail(s)[j]
                   PROVE  i = j
        BY <1>1 DEF IsInjective
      <3>1. i + 1 = j + 1
        BY <1>1, <2>1, <2>2
      <3> QED  BY <3>1
    <2>4. Head(s) \notin ToSet(Tail(s))
      BY <1>1, <1>2, <2>1, <2>2 DEF ToSet
    <2> QED  BY <2>3, <2>4
  <1> QED  BY <1>1, <1>2, <1>4, <1>5, <1>6 DEF ToSet

LEMMA AppendIs ==
  ASSUME NEW S, NEW s \in Seq(S), NEW x \in S
  PROVE  /\ Append(s, x) \in Seq(S)
         /\ \A y : y \in ToSet(Append(s, x)) <=> y = x \/ y \in ToSet(s)
         /\ s # <<>> => Head(Append(s, x)) = Head(s)
         /\ IsInjective(s) /\ x \notin ToSet(s) => IsInjective(Append(s, x))
  <1>1. /\ Append(s, x) \in Seq(S) /\ Len(s) \in Nat
        /\ DOMAIN s = 1..Len(s) /\ DOMAIN Append(s, x) = 1..(Len(s) + 1)
        /\ \A i \in 1..Len(s) : Append(s, x)[i] = s[i]
        /\ Append(s, x)[Len(s) + 1] = x
    OBVIOUS
  <1>2. \A i \in 1..(Len(s) + 1) : i = Len(s) + 1 \/ i \in 1..Len(s)
    BY <1>1
  <1>3. Len(s) + 1 \in 1..(Len(s) + 1) /\ \A i \in 1..Len(s) : i \in 1..(Len(s) + 1)
    BY <1>1
  <1>4. \A y : y \in ToSet(Append(s, x)) <=> y = x \/ y \in ToSet(s)
    BY <1>1, <1>2, <1>3 DEF ToSet
  <1>5. s # <<>> => Head(Append(s, x)) = Head(s)
    OBVIOUS
  <1>6. IsInjective(s) /\ x \notin ToSet(s) => IsInjective(Append(s, x))
    BY <1>1, <1>2 DEF IsInjective, ToSet
  <1> QED  BY <1>1, <1>4, <1>5, <1>6

-----------------------------------------------------------------------------
(* The steps of an agent *)

Processes == {"none", "running", "killed"} \cup Outputs

Locking(point) == point \in {"lock", "check"}

\* What a step of a does to a and to the queue for the lock: c is where a is then, p
\* its process.
Turn(a, c, p) ==
  /\ c \in Calls /\ p \in Processes
  /\ call' = [call EXCEPT ![a] = c] /\ proc' = [proc EXCEPT ![a] = p]
  /\ p # "none" => c.at = "run"
  /\ cancelled' \in {cancelled, cancelled \cup {a}, cancelled \ {a}}
  /\ c.at = "idle" => a \notin cancelled'
  /\ a \in cancelled /\ c.at = "spawn" =>
       call[a].at = "spawn" \/ c.retry \/ c.stage \in {"fresh", "correct"}
  /\ c.at = "check" => call[a].at = "check" \/ (HasLock(a) /\ ~refreshed /\ ~failed)
  /\ \/ waiting' = waiting /\ (Locking(call[a].at) <=> Locking(c.at))
     \/ waiting' = Append(waiting, a) /\ ~Locking(call[a].at) /\ c.at = "lock"
     \/ waiting' = Tail(waiting) /\ HasLock(a) /\ ~Locking(c.at)

\* What process_message does with a result, which never runs a cancelled task.
LEMMA AnswerIs ==
  ASSUME TypeOK, NEW a \in Agents, NEW r, Answer(a, r)
  PROVE  \E c \in Calls :
           /\ call' = [call EXCEPT ![a] = c]
           /\ c.at \in {"idle", "spawn", "unset", "record", "auth"}
           /\ cancelled' \in {cancelled, cancelled \ {a}}
           /\ c.at = "idle" => a \notin cancelled'
           /\ c.at = "spawn" => a \notin cancelled
  <1>0. call[a] \in Calls /\ call \in [Agents -> Calls]
    BY DEF TypeOK
  <1>1. CASE Done(a)
    <2>1. Idle \in Calls /\ Idle.at = "idle"
      BY DEF Idle, Calls, Points, Stages
    <2> QED  BY <1>1, <2>1 DEF Done
  <1>2. ASSUME NEW stage \in Stages, Start(a, stage), a \notin cancelled
        PROVE  \E c \in Calls : /\ call' = [call EXCEPT ![a] = c] /\ c.at = "spawn"
                                /\ cancelled' = cancelled
    <2> DEFINE c == [at |-> "spawn", stage |-> stage, retry |-> FALSE]
    <2>1. c \in Calls /\ c.at = "spawn"
      BY DEF Calls, Points
    <2> QED  BY <1>2, <2>1 DEF Start
  <1>3. ASSUME NEW point \in {"unset", "record", "auth"}, Go(a, point), UNCHANGED cancelled
        PROVE  \E c \in Calls : /\ call' = [call EXCEPT ![a] = c] /\ c.at = point
                                /\ cancelled' = cancelled
    <2> DEFINE c == [call[a] EXCEPT !.at = point]
    <2>1. c \in Calls /\ c.at = point
      BY <1>0 DEF Calls, Points
    <2> QED  BY <1>0, <1>3, <2>1 DEF Go
  <1>4. CASE \E stage \in Stages : Start(a, stage) /\ a \notin cancelled
    BY <1>2, <1>4
  <1>5. CASE \E point \in {"unset", "record", "auth"} : Go(a, point) /\ UNCHANGED cancelled
    BY <1>3, <1>5
  <1>6. \/ Done(a)
        \/ \E stage \in Stages : Start(a, stage) /\ a \notin cancelled
        \/ \E point \in {"unset", "record", "auth"} : Go(a, point) /\ UNCHANGED cancelled
    BY DEF Answer, Skips, Stages
  <1> QED  BY <1>1, <1>4, <1>5, <1>6

LEMMA AgentTyped ==
  ASSUME TypeOK, NEW a \in Agents
  PROVE  /\ call[a] \in Calls /\ proc[a] \in Processes
         /\ call[a].at \in Points /\ call[a].stage \in Stages
         /\ proc[a] # "none" => call[a].at = "run"
         /\ call' = [call EXCEPT ![a] = call[a]] <=> call' = call
         /\ proc' = [proc EXCEPT ![a] = proc[a]] <=> proc' = proc
  BY DEF TypeOK, Calls, Processes

\* An answer ends what the agent's process was run for.
LEMMA AnswerTurns ==
  ASSUME TypeOK, NEW a \in Agents, NEW r, Answer(a, r),
         proc' = [proc EXCEPT ![a] = "none"],
         \/ waiting' = waiting /\ ~Locking(call[a].at)
         \/ waiting' = Tail(waiting) /\ HasLock(a)
  PROVE  \E c \in Calls : Turn(a, c, "none") /\ c.at # "held"
  <1>1. PICK c \in Calls :
          /\ call' = [call EXCEPT ![a] = c]
          /\ c.at \in {"idle", "spawn", "unset", "record", "auth"}
          /\ cancelled' \in {cancelled, cancelled \ {a}}
          /\ c.at = "idle" => a \notin cancelled'
          /\ c.at = "spawn" => a \notin cancelled
    BY AnswerIs
  <1>2. ~Locking(c.at)
    BY <1>1 DEF Locking
  <1> QED  BY <1>1, <1>2 DEF Turn, Processes

LEMMA StartTurns ==
  ASSUME TypeOK, NEW a \in Agents, NEW stage \in Stages, NEW retry \in BOOLEAN,
         call' = [call EXCEPT ![a] = [at |-> "spawn", stage |-> stage, retry |-> retry]],
         a \in cancelled => retry \/ stage \in {"fresh", "correct"}, UNCHANGED cancelled,
         proc' = [proc EXCEPT ![a] = "none"],
         \/ waiting' = waiting /\ ~Locking(call[a].at)
         \/ waiting' = Tail(waiting) /\ HasLock(a)
  PROVE  \E c \in Calls : Turn(a, c, "none") /\ c.at # "held"
  <1> DEFINE c == [at |-> "spawn", stage |-> stage, retry |-> retry]
  <1>1. c \in Calls /\ c.at = "spawn" /\ c.retry = retry /\ c.stage = stage
    BY DEF Calls, Points
  <1>2. ~Locking(c.at)
    BY <1>1 DEF Locking
  <1>3. Turn(a, c, "none")
    BY <1>1, <1>2 DEF Turn, Processes
  <1> QED  BY <1>1, <1>3

LEMMA GoTurns ==
  ASSUME TypeOK, NEW a \in Agents, NEW point \in Points, NEW p \in Processes, Go(a, point),
         proc' = [proc EXCEPT ![a] = p], p # "none" => point = "run",
         point \notin {"idle", "spawn", "held"}, UNCHANGED cancelled,
         point = "check" => HasLock(a) /\ ~refreshed /\ ~failed,
         \/ waiting' = waiting /\ (Locking(call[a].at) <=> Locking(point))
         \/ waiting' = Append(waiting, a) /\ ~Locking(call[a].at) /\ point = "lock"
  PROVE  \E c \in Calls : Turn(a, c, p) /\ c.at # "held"
  <1> DEFINE c == [call[a] EXCEPT !.at = point]
  <1>1. c \in Calls /\ c.at = point
    BY AgentTyped DEF Calls
  <1>2. call' = [call EXCEPT ![a] = c]
    BY AgentTyped DEF Go, Calls, TypeOK
  <1>3. Turn(a, c, p)
    BY <1>1, <1>2 DEF Turn
  <1> QED  BY <1>1, <1>3

LEMMA DoneTurns ==
  ASSUME TypeOK, NEW a \in Agents, Done(a), UNCHANGED <<proc, waiting>>, proc[a] = "none",
         ~Locking(call[a].at)
  PROVE  \E c \in Calls : Turn(a, c, "none") /\ c.at # "held"
  <1>1. Idle \in Calls /\ Idle.at = "idle" /\ ~Locking("idle")
    BY DEF Idle, Calls, Points, Stages, Locking
  <1>2. proc' = [proc EXCEPT ![a] = "none"]
    BY DEF TypeOK
  <1>3. Turn(a, Idle, "none")
    BY <1>1, <1>2 DEF Done, Turn, Processes
  <1> QED  BY <1>1, <1>3

LEMMA StepTurns ==
  ASSUME TypeOK, Checker, Awake, NEW a \in Agents, Invoke(a) \/ Cancel(a) \/ Step(a), ~Announce(a)
  PROVE  \E c \in Calls, p \in Processes :
           Turn(a, c, p) /\ (c.at = "held" => call' = call /\ pending' = pending)
  <1>0. /\ call[a] \in Calls /\ proc[a] \in Processes
        /\ call[a].at \in Points /\ call[a].stage \in Stages
        /\ proc[a] # "none" => call[a].at = "run"
        /\ call' = [call EXCEPT ![a] = call[a]] <=> call' = call
        /\ proc' = [proc EXCEPT ![a] = proc[a]] <=> proc' = proc
        /\ "none" \in Processes
    BY AgentTyped DEF Processes
  <1>1. SUFFICES ASSUME ~(\E c \in Calls : Turn(a, c, "none") /\ c.at # "held")
                 PROVE  \E c \in Calls, p \in Processes :
                   Turn(a, c, p) /\ (c.at = "held" => call' = call /\ pending' = pending)
    BY <1>0
  <1>2. call[a].at # "run" /\ UNCHANGED proc => proc' = [proc EXCEPT ![a] = "none"]
    BY <1>0
  <1>3. CASE Invoke(a)
    <2>1. a \notin cancelled
      BY <1>3 DEF Invoke, Awake
    <2> QED
      BY <1>1, <1>2, <1>3, <2>1, StartTurns DEF Invoke, Start, At, Stages, checking, Locking
  <1>4. CASE Spawn(a)
    <2>1. ~Locking(call[a].at) /\ call[a].at # "run" /\ waiting' = waiting /\ ~Locking("run")
      BY <1>4 DEF Spawn, At, Locking, checking
    <2>2. CASE Answer(a, "error") /\ UNCHANGED proc
      BY <1>1, <1>2, <2>1, <2>2, AnswerTurns
    <2>3. CASE /\ Go(a, "run") /\ proc' = [proc EXCEPT ![a] = "running"] /\ UNCHANGED cancelled
      <3>1. \E c \in Calls : Turn(a, c, "running") /\ c.at # "held"
        BY <2>1, <2>3, GoTurns DEF Points, Processes
      <3> QED  BY <3>1 DEF Processes
    <2> QED  BY <1>4, <2>2, <2>3 DEF Spawn
  <1>5. CASE Exit(a)
    <2>1. PICK out \in Outputs : proc' = [proc EXCEPT ![a] = out]
      BY <1>5 DEF Exit, Outputs
    <2>2. call[a].at = "run" /\ UNCHANGED <<call, cancelled, waiting>>
      BY <1>0, <1>5 DEF Exit, checking
    <2>3. out \in Processes
      BY DEF Processes
    <2>4. Turn(a, call[a], out)
      BY <1>0, <2>1, <2>2, <2>3 DEF Turn
    <2> QED  BY <1>0, <2>2, <2>3, <2>4
  <1>6. CASE Timeout(a)
    BY <1>0, <1>1, <1>6, AnswerTurns DEF Timeout, Locking, checking
  <1>7. CASE Read(a)
    <2>1. /\ call[a].at = "run" /\ ~Locking(call[a].at) /\ Locking("lock")
          /\ proc' = [proc EXCEPT ![a] = "none"]
      BY <1>0, <1>7 DEF Read, Locking
    <2>2. CASE \E r \in Results : Answer(a, r) /\ UNCHANGED waiting
      BY <1>1, <2>1, <2>2, AnswerTurns
    <2>3. CASE Retry(a) /\ UNCHANGED <<cancelled, waiting>>
      BY <1>0, <1>1, <2>1, <2>3, StartTurns DEF Retry
    <2>4. CASE Go(a, "lock") /\ waiting' = Append(waiting, a) /\ UNCHANGED cancelled
      BY <1>0, <1>1, <2>1, <2>4, GoTurns DEF Points
    <2>5. \/ \E r \in Results : Answer(a, r) /\ UNCHANGED waiting
          \/ Retry(a) /\ UNCHANGED <<cancelled, waiting>>
          \/ Go(a, "lock") /\ waiting' = Append(waiting, a) /\ UNCHANGED cancelled
      BY <1>0, <1>7 DEF Read, Results, Outputs, Processes
    <2> QED  BY <2>2, <2>3, <2>4, <2>5
  <1>8. CASE Unset(a)
    BY <1>1, <1>2, <1>8, StartTurns DEF Unset, Start, At, Stages, checking, Locking
  <1>9. CASE Record(a)
    <2>1. ~Locking(call[a].at) /\ call[a].at # "run" /\ UNCHANGED <<proc, waiting>>
      BY <1>9 DEF Record, At, Locking, checking
    <2>2. CASE Done(a)
      BY <1>0, <1>1, <2>1, <2>2, DoneTurns
    <2>3. CASE Start(a, "correct")
      BY <1>1, <1>2, <2>1, <2>3, StartTurns DEF Start, Stages
    <2> QED  BY <1>9, <2>2, <2>3 DEF Record
  <1>10. CASE Cancel(a)
    <2> DEFINE p == IF proc[a] = "running" THEN "killed" ELSE proc[a]
    <2>1. proc' = [proc EXCEPT ![a] = p] /\ p \in Processes /\ UNCHANGED <<call, waiting, pending>>
      BY <1>0, <1>10 DEF Cancel, Processes, checking, login
    <2>2. call[a].at # "idle" /\ cancelled' = cancelled \cup {a}
      BY <1>10 DEF Cancel, At
    <2>3. Turn(a, call[a], p)
      BY <1>0, <2>1, <2>2 DEF Turn
    <2> QED  BY <1>0, <2>1, <2>3
  <1>11. CASE Lock(a)
    <2>1. HasLock(a) /\ Locking(call[a].at) /\ call[a].at # "run" /\ UNCHANGED proc
          /\ Locking("check")
      BY <1>11 DEF Lock, At, Locking
    <2>2. CASE waiting' = Tail(waiting) /\ Retry(a) /\ UNCHANGED cancelled
      BY <1>0, <1>1, <1>2, <2>1, <2>2, StartTurns DEF Retry
    <2>3. CASE waiting' = Tail(waiting) /\ Answer(a, "auth")
      BY <1>1, <1>2, <2>1, <2>3, AnswerTurns
    <2>4. CASE ~refreshed /\ ~failed /\ Go(a, "check") /\ UNCHANGED <<waiting, cancelled>>
      BY <1>0, <1>1, <1>2, <2>1, <2>4, GoTurns DEF Points
    <2> QED  BY <1>11, <2>2, <2>3, <2>4 DEF Lock
  <1>12. CASE Check(a)
    <2>1. HasLock(a) /\ call[a].at # "run" /\ UNCHANGED proc /\ waiting' = Tail(waiting)
      BY <1>12 DEF Check, At, Checker
    <2>2. CASE Retry(a) /\ UNCHANGED cancelled
      BY <1>0, <1>1, <1>2, <2>1, <2>2, StartTurns DEF Retry
    <2>3. CASE Answer(a, "auth")
      BY <1>1, <1>2, <2>1, <2>3, AnswerTurns
    <2> QED  BY <1>12, <2>2, <2>3 DEF Check
  <1>13. CASE Suspend(a)
    <2>1. ~Locking(call[a].at) /\ call[a].at # "run" /\ UNCHANGED <<proc, waiting>>
          /\ ~Locking("pending")
      BY <1>13 DEF Suspend, At, Locking, checking
    <2>2. CASE Done(a)
      BY <1>0, <1>1, <2>1, <2>2, DoneTurns
    <2>3. CASE Go(a, "pending") /\ UNCHANGED cancelled
      BY <1>0, <1>1, <1>2, <2>1, <2>3, GoTurns DEF Points
    <2> QED  BY <1>13, <2>2, <2>3 DEF Suspend
  <1>14. CASE Resume(a)
    <2>1. ~Locking(call[a].at) /\ call[a].at # "run" /\ UNCHANGED <<proc, waiting>>
      BY <1>14 DEF Resume, At, Locking, checking
    <2> QED  BY <1>0, <1>1, <1>14, <2>1, DoneTurns DEF Resume
  <1> QED
    BY <1>3, <1>4, <1>5, <1>6, <1>7, <1>8, <1>9, <1>10, <1>11, <1>12, <1>13, <1>14 DEF Step

-----------------------------------------------------------------------------
(* What a turn keeps *)

LEMMA TurnKeeps ==
  ASSUME TypeOK, Checker, Awake, NEW a \in Agents, NEW c, NEW p, Turn(a, c, p)
  PROVE  /\ call' \in [Agents -> Calls] /\ proc' \in [Agents -> Processes]
         /\ \A b \in Agents : proc'[b] # "none" => call'[b].at = "run"
         /\ cancelled' \subseteq Agents
         /\ waiting' \in Seq(Agents) /\ IsInjective(waiting')
         /\ \A b \in Agents : b \in ToSet(waiting') <=> call'[b].at \in {"lock", "check"}
         /\ Checker' /\ Awake'
  <1>1. /\ call \in [Agents -> Calls] /\ proc \in [Agents -> Processes]
        /\ \A b \in Agents : proc[b] # "none" => call[b].at = "run"
        /\ cancelled \subseteq Agents
        /\ waiting \in Seq(Agents) /\ IsInjective(waiting)
        /\ \A b \in Agents : b \in ToSet(waiting) <=> Locking(call[b].at)
    BY DEF TypeOK, Processes, Locking
  <1>2. /\ call' \in [Agents -> Calls] /\ proc' \in [Agents -> Processes]
        /\ call'[a] = c /\ proc'[a] = p
        /\ \A b \in Agents \ {a} : call'[b] = call[b] /\ proc'[b] = proc[b]
    BY <1>1 DEF Turn
  <1>3. \A b \in Agents : proc'[b] # "none" => call'[b].at = "run"
    BY <1>1, <1>2 DEF Turn
  <1>4. cancelled' \subseteq Agents /\ Awake'
    BY <1>1, <1>2 DEF Turn, Awake, At
  <1>5. waiting # <<>> => Head(waiting) \in ToSet(waiting)
    BY <1>1, TailIs
  <1>6. CASE waiting' = waiting /\ (Locking(call[a].at) <=> Locking(c.at))
    <2>1. \A b \in Agents : b \in ToSet(waiting') <=> Locking(call'[b].at)
      BY <1>1, <1>2, <1>6
    <2>2. Checker'
      BY <1>2, <1>6 DEF Turn, Checker, At, HasLock
    <2> QED  BY <1>1, <1>2, <1>3, <1>4, <1>6, <2>1, <2>2 DEF Locking
  <1>7. CASE waiting' = Append(waiting, a) /\ ~Locking(call[a].at) /\ c.at = "lock"
    <2>1. waiting' \in Seq(Agents) /\ IsInjective(waiting')
      BY <1>1, <1>7, AppendIs
    <2>2. \A b \in Agents : b \in ToSet(waiting') <=> Locking(call'[b].at)
      BY <1>1, <1>2, <1>7, AppendIs DEF Locking
    <2>3. Checker'
      <3> SUFFICES ASSUME NEW b \in Agents, call'[b].at = "check"
                   PROVE  waiting' # <<>> /\ Head(waiting') = b
        BY DEF Checker, At, HasLock
      <3>1. waiting # <<>> /\ Head(waiting) = b
        BY <1>2, <1>7 DEF Checker, At, HasLock
      <3> QED  BY <1>1, <1>7, <3>1, AppendIs
    <2> QED  BY <1>2, <1>3, <1>4, <2>1, <2>2, <2>3 DEF Locking
  <1>8. CASE waiting' = Tail(waiting) /\ HasLock(a) /\ ~Locking(c.at)
    <2>1. waiting # <<>> /\ Head(waiting) = a
      BY <1>8 DEF HasLock
    <2>2. waiting' \in Seq(Agents) /\ IsInjective(waiting')
      BY <1>1, <1>8, <2>1, TailIs
    <2>3. \A b \in Agents : b \in ToSet(waiting') <=> Locking(call'[b].at)
      BY <1>1, <1>2, <1>8, <2>1, TailIs
    <2>4. Checker'
      BY <1>2, <1>8, <2>1 DEF Checker, At, HasLock, Locking
    <2> QED  BY <1>2, <1>3, <1>4, <2>2, <2>3, <2>4 DEF Locking
  <1> QED  BY <1>6, <1>7, <1>8 DEF Turn

\* What the steps of an agent other than Announce make of the login.
LEMMA StepLogin ==
  ASSUME NEW a \in Agents, Invoke(a) \/ Cancel(a) \/ Step(a), ~Announce(a), TypeOK
  PROVE  /\ pending' \in {pending, pending \cup {a}}
         /\ UNCHANGED <<flag, dialog, reauth, muted>>
         /\ {refreshed', failed', token'} \subseteq BOOLEAN
  <1>1. UNCHANGED <<refreshed, failed, token>> \/ Check(a)
    BY DEF Step, Invoke, Cancel, Spawn, Exit, Timeout, Read, Unset, Record, Lock, Suspend,
           Resume, checking
  <1>2. Check(a) => {refreshed', failed', token'} \subseteq BOOLEAN
    BY DEF Check, TypeOK
  <1>3. pending' \in {pending, pending \cup {a}} /\ UNCHANGED <<flag, dialog, reauth, muted>>
    BY DEF Step, Invoke, Cancel, Spawn, Exit, Timeout, Read, Unset, Record, Lock, Check, Suspend,
           Resume, login
  <1> QED  BY <1>1, <1>2, <1>3 DEF TypeOK

LEMMA StepKeeps ==
  ASSUME Inv, NEW a \in Agents, Invoke(a) \/ Cancel(a) \/ Step(a)
  PROVE  Inv'
  <1>1. CASE ~Announce(a)
    <2>1. PICK c \in Calls, p \in Processes :
            Turn(a, c, p) /\ (c.at = "held" => call' = call /\ pending' = pending)
      BY <1>1, StepTurns DEF Inv
    <2>2. /\ pending' \in {pending, pending \cup {a}}
          /\ UNCHANGED <<flag, dialog, reauth, muted>>
          /\ {refreshed', failed', token'} \subseteq BOOLEAN
      BY <1>1, StepLogin DEF Inv
    <2>3. /\ call' \in [Agents -> Calls] /\ proc' \in [Agents -> Processes]
          /\ \A b \in Agents : proc'[b] # "none" => call'[b].at = "run"
          /\ cancelled' \subseteq Agents
          /\ waiting' \in Seq(Agents) /\ IsInjective(waiting')
          /\ \A b \in Agents : b \in ToSet(waiting') <=> call'[b].at \in {"lock", "check"}
          /\ Checker' /\ Awake'
      BY <2>1, TurnKeeps DEF Inv
    <2>4. TypeOK'
      BY <2>2, <2>3 DEF Inv, TypeOK, Processes
    <2>5. \A b \in pending' : At(b, "held")' => b \in pending /\ At(b, "held")
      <3>1. /\ call'[a].at = "held" => call' = call /\ pending' = pending
            /\ \A b \in Agents \ {a} : call'[b] = call[b]
        BY <2>1 DEF Turn, Inv, TypeOK
      <3> QED  BY <2>2, <3>1 DEF At, Inv, TypeOK
    <2>6. Noticed'
      BY <2>2, <2>5 DEF Inv, Noticed
    <2> QED  BY <2>3, <2>4, <2>6 DEF Inv
  <1>2. CASE Announce(a)
    <2> DEFINE c == [call[a] EXCEPT !.at = "held"]
    <2>0. call[a] \in Calls /\ proc[a] = "none" /\ call[a].at = "pending"
      BY <1>2, AgentTyped DEF Inv, Announce, At
    <2>1. c \in Calls /\ c.at = "held" /\ ~Locking(c.at) /\ ~Locking(call[a].at)
      BY <2>0 DEF Calls, Points, Locking
    <2>2. call' = [call EXCEPT ![a] = c] /\ proc' = [proc EXCEPT ![a] = "none"]
      BY <1>2, <2>0 DEF Inv, TypeOK, Announce, Go, Calls
    <2>3. Turn(a, c, "none")
      BY <1>2, <2>1, <2>2 DEF Turn, Announce, Processes, checking
    <2>4. /\ call' \in [Agents -> Calls] /\ proc' \in [Agents -> Processes]
          /\ \A b \in Agents : proc'[b] # "none" => call'[b].at = "run"
          /\ cancelled' \subseteq Agents
          /\ waiting' \in Seq(Agents) /\ IsInjective(waiting')
          /\ \A b \in Agents : b \in ToSet(waiting') <=> call'[b].at \in {"lock", "check"}
          /\ Checker' /\ Awake'
      BY <2>3, TurnKeeps DEF Inv
    <2>5. TypeOK'
      BY <1>2, <2>4 DEF Inv, TypeOK, Processes, Announce, checking
    <2>6. Noticed'
      BY <1>2 DEF Inv, Noticed, Announce
    <2> QED  BY <2>4, <2>5, <2>6 DEF Inv
  <1> QED  BY <1>1, <1>2

-----------------------------------------------------------------------------
(* The login *)

\* Nobody who is held is passed over.
LEMMA ResumeFromIs ==
  ASSUME pending \subseteq Agents, NEW agents \in Seq(Agents), dialog \in BOOLEAN,
         ResumeFrom(agents)
  PROVE  /\ pending' \subseteq pending /\ dialog' \in BOOLEAN
         /\ \/ reauth' = NoReauth /\ pending' \cap ToSet(agents) = {}
            \/ /\ reauth'.at = "resuming"
               /\ reauth' \in [at: {"none", "login", "resuming"}, left: Seq(Agents)]
               /\ pending' \cap ToSet(agents) \subseteq ToSet(reauth'.left)
  <1> DEFINE held == {i \in DOMAIN agents : agents[i] \in pending}
  <1>1. CASE held = {} /\ dialog' = FALSE /\ reauth' = NoReauth /\ UNCHANGED pending
    BY <1>1 DEF ToSet
  <1>2. CASE \E i \in held :
          /\ \A j \in held : i <= j
          /\ pending' = pending \ {agents[i]}
          /\ reauth' = [at |-> "resuming", left |-> SubSeq(agents, i + 1, Len(agents))]
          /\ UNCHANGED dialog
    <2>1. PICK i \in held :
            /\ \A j \in held : i <= j
            /\ pending' = pending \ {agents[i]}
            /\ reauth' = [at |-> "resuming", left |-> SubSeq(agents, i + 1, Len(agents))]
            /\ UNCHANGED dialog
      BY <1>2
    <2> DEFINE left == SubSeq(agents, i + 1, Len(agents))
    <2>2. DOMAIN agents = 1..Len(agents) /\ Len(agents) \in Nat /\ i \in 1..Len(agents)
      BY <2>1
    <2>3. /\ left \in Seq(Agents) /\ DOMAIN left = 1..(Len(agents) - i)
          /\ \A j \in 1..(Len(agents) - i) : left[j] = agents[i + j]
      BY <2>2
    <2>4. ASSUME NEW b \in pending', b \in ToSet(agents)  PROVE b \in ToSet(left)
      <3>1. PICK j \in 1..Len(agents) : b = agents[j]
        BY <2>2, <2>4 DEF ToSet
      <3>2. j \in held /\ j # i
        BY <2>1, <2>2, <3>1
      <3>3. j - i \in 1..(Len(agents) - i) /\ i + (j - i) = j
        BY <2>1, <2>2, <3>2
      <3> QED  BY <2>3, <3>1, <3>3 DEF ToSet
    <2> HIDE DEF left
    <2>5. reauth' = [at |-> "resuming", left |-> left]
      BY <2>1 DEF left
    <2>6. /\ reauth'.at = "resuming" /\ reauth'.left = left
          /\ reauth' \in [at: {"none", "login", "resuming"}, left: Seq(Agents)]
      BY <2>3, <2>5 DEF left
    <2>7. pending' \subseteq pending /\ dialog' \in BOOLEAN
      BY <2>1
    <2> QED  BY <2>4, <2>6, <2>7
  <1> QED  BY <1>1, <1>2 DEF ResumeFrom

LEMMA LoginKeeps ==
  ASSUME Inv, Reauth \/ LoginFails \/ Login \/ ResumeNext \/ Lapse
  PROVE  Inv'
  <1>1. UNCHANGED <<call, proc, cancelled, waiting>>
    BY DEF Reauth, LoginFails, Login, ResumeNext, Lapse, coroutines, checking
  <1>2. Checker' /\ Awake'
    BY <1>1 DEF Inv, Checker, Awake, At, HasLock
  <1>3. /\ pending \subseteq Agents /\ dialog \in BOOLEAN
        /\ Registry \in Seq(Agents) /\ ToSet(Registry) = Agents
        /\ reauth.left \in Seq(Agents)
        /\ {refreshed, failed, flag, dialog, token, muted} \subseteq BOOLEAN
        /\ reauth \in [at: {"none", "login", "resuming"}, left: Seq(Agents)]
    BY SubprocessAssumption DEF Inv, TypeOK
  <1>4. /\ NoReauth \in [at: {"none", "login", "resuming"}, left: Seq(Agents)]
        /\ NoReauth.at = "none"
    BY DEF NoReauth
  <1>5. ASSUME pending' \subseteq Agents,
               {refreshed', failed', flag', dialog', token', muted'} \subseteq BOOLEAN,
               reauth' \in [at: {"none", "login", "resuming"}, left: Seq(Agents)]
        PROVE  TypeOK'
    BY <1>1, <1>5 DEF Inv, TypeOK
  <1>6. CASE Reauth
    <2>1. reauth'.at = "login" /\ reauth' \in [at: {"none", "login", "resuming"}, left: Seq(Agents)]
      BY <1>6 DEF Reauth
    <2>2. TypeOK'
      BY <1>3, <1>5, <1>6, <2>1 DEF Reauth, checking
    <2>3. Noticed'
      BY <1>1, <1>6, <2>1 DEF Reauth, Inv, Noticed, At
    <2> QED  BY <1>2, <2>2, <2>3 DEF Inv
  <1>7. CASE LoginFails
    <2>1. TypeOK'
      BY <1>3, <1>4, <1>5, <1>7 DEF LoginFails, checking
    <2>2. Noticed'
      BY <1>1, <1>4, <1>7 DEF LoginFails, Inv, Noticed, At
    <2> QED  BY <1>2, <2>1, <2>2 DEF Inv
  <1>8. CASE Login
    <2>1. /\ pending' \subseteq pending /\ dialog' \in BOOLEAN
          /\ \/ reauth' = NoReauth /\ pending' \cap ToSet(Registry) = {}
             \/ /\ reauth'.at = "resuming"
                /\ reauth' \in [at: {"none", "login", "resuming"}, left: Seq(Agents)]
                /\ pending' \cap ToSet(Registry) \subseteq ToSet(reauth'.left)
      BY <1>3, <1>8, ResumeFromIs DEF Login
    <2>2. TypeOK'
      BY <1>3, <1>4, <1>5, <1>8, <2>1 DEF Login
    <2>3. flag' = FALSE
      BY <1>8 DEF Login
    <2>4. Noticed'
      BY <1>3, <1>4, <2>1, <2>3 DEF Noticed
    <2> QED  BY <1>2, <2>2, <2>4 DEF Inv
  <1>9. CASE ResumeNext
    <2>1. /\ pending' \subseteq pending /\ dialog' \in BOOLEAN
          /\ \/ reauth' = NoReauth /\ pending' \cap ToSet(reauth.left) = {}
             \/ /\ reauth'.at = "resuming"
                /\ reauth' \in [at: {"none", "login", "resuming"}, left: Seq(Agents)]
                /\ pending' \cap ToSet(reauth.left) \subseteq ToSet(reauth'.left)
      BY <1>3, <1>9, ResumeFromIs DEF ResumeNext
    <2>2. TypeOK'
      BY <1>3, <1>4, <1>5, <1>9, <2>1 DEF ResumeNext, checking
    <2>3. UNCHANGED <<flag, muted>> /\ reauth.at = "resuming"
      BY <1>9 DEF ResumeNext
    <2>4. Noticed'
      BY <1>1, <1>4, <2>1, <2>3 DEF Inv, Noticed, At
    <2> QED  BY <1>2, <2>2, <2>4 DEF Inv
  <1>10. CASE Lapse
    <2>1. {refreshed', failed', token'} \subseteq BOOLEAN /\ UNCHANGED login
      BY <1>3, <1>10 DEF Lapse
    <2>2. TypeOK'
      BY <1>3, <1>5, <2>1 DEF login
    <2>3. Noticed'
      BY <1>1, <2>1 DEF login, Inv, Noticed, At
    <2> QED  BY <1>2, <2>2, <2>3 DEF Inv
  <1> QED  BY <1>6, <1>7, <1>8, <1>9, <1>10

-----------------------------------------------------------------------------
(* The theorems *)

LEMMA InitHolds == Init => Inv
  <1> SUFFICES ASSUME Init  PROVE Inv
    OBVIOUS
  <1>1. Idle \in Calls /\ Idle.at = "idle"
    BY DEF Idle, Calls, Points, Stages
  <1>2. ToSet(<<>>) = {} /\ IsInjective(<<>>)
    BY DEF ToSet, IsInjective
  <1>3. TypeOK
    <2>1. /\ call \in [Agents -> Calls] /\ proc \in [Agents -> {"none"}]
          /\ \A a \in Agents : proc[a] = "none" /\ call[a].at = "idle"
      BY <1>1 DEF Init
    <2>2. waiting \in Seq(Agents) /\ waiting = <<>> /\ cancelled = {} /\ pending = {}
      BY DEF Init
    <2>3. reauth \in [at: {"none", "login", "resuming"}, left: Seq(Agents)]
      BY DEF Init, NoReauth
    <2>4. /\ refreshed \in BOOLEAN /\ failed \in BOOLEAN /\ flag \in BOOLEAN
          /\ dialog \in BOOLEAN /\ token \in BOOLEAN /\ muted \in BOOLEAN
      BY DEF Init
    <2> QED  BY <1>2, <2>1, <2>2, <2>3, <2>4 DEF TypeOK
  <1>4. Checker /\ Awake /\ Noticed
    BY <1>1 DEF Init, Checker, Awake, Noticed, At, NoReauth
  <1> QED  BY <1>3, <1>4 DEF Inv

LEMMA NextKeeps ==
  ASSUME Inv, [Next]_vars
  PROVE  Inv'
  <1>1. CASE UNCHANGED vars
    BY <1>1 DEF vars, coroutines, checking, login, Inv, TypeOK, Checker, Awake, Noticed, At,
                HasLock
  <1> QED  BY <1>1, StepKeeps, LoginKeeps DEF Next

LEMMA Invariance == Spec => []Inv
  <1>1. Inv /\ [Next]_vars => Inv'
    BY NextKeeps
  <1> QED  BY InitHolds, <1>1, PTL DEF Spec

\* However processes hang, end, lose their session or are refused, and whoever is
\* cancelled or waits for the lock: types hold, and the queue has each agent once.
THEOREM TypeCorrect == Spec => []TypeOK
  <1>1. Inv => TypeOK
    BY DEF Inv
  <1> QED  BY Invariance, <1>1, PTL

\* An agent that is held has the user asked to log in.
THEOREM HeldAreAsked == Spec => []HeldIsAsked
  <1>1. Inv => HeldIsAsked
    BY DEF Inv, Noticed, HeldIsAsked
  <1> QED  BY Invariance, <1>1, PTL

\* Who moves, and by which step.
LEMMA WhoMoves ==
  ASSUME Inv, [Next]_vars, NEW b \in Agents, call'[b] # call[b]
  PROVE  \/ Announce(b)
         \/ \E c \in Calls, p \in Processes : Turn(b, c, p)
  <1>1. UNCHANGED call \/ \E a \in Agents : Invoke(a) \/ Cancel(a) \/ Step(a)
    BY DEF Next, Reauth, LoginFails, Login, ResumeNext, Lapse, coroutines, vars
  <1>2. PICK a \in Agents : Invoke(a) \/ Cancel(a) \/ Step(a)
    BY <1>1
  <1>3. CASE Announce(a)
    BY <1>3 DEF Announce, Go, Inv, TypeOK
  <1>4. CASE ~Announce(a)
    <2>1. PICK c \in Calls, p \in Processes : Turn(a, c, p)
      BY <1>2, <1>4, StepTurns DEF Inv
    <2>2. a = b
      BY <2>1 DEF Turn, Inv, TypeOK
    <2> QED  BY <2>1, <2>2
  <1> QED  BY <1>3, <1>4

\* Agents share the check: none is started within the TTL of a success or the
\* cooldown of a failure, nor beside another, however many waited for the lock.
THEOREM ChecksAreShared == Spec => CheckIsShared
  <1>1. ASSUME Inv, [Next]_vars, NEW a \in Agents, call[a].at # "check", call'[a].at = "check"
        PROVE  ~refreshed /\ ~failed /\ \A b \in Agents : call[b].at # "check"
    <2>1. ~Announce(a)
      BY <1>1 DEF Announce, Go, Inv, TypeOK, Calls
    <2>2. PICK c \in Calls, p \in Processes : Turn(a, c, p)
      BY <1>1, <2>1, WhoMoves
    <2>3. HasLock(a) /\ ~refreshed /\ ~failed
      BY <1>1, <2>2 DEF Turn, Inv, TypeOK
    <2> QED  BY <1>1, <2>3 DEF Inv, Checker, At, HasLock
  <1>2. Inv /\ [Next]_vars =>
          \A a \in Agents : call[a].at # "check" /\ call'[a].at = "check" =>
            ~refreshed /\ ~failed /\ \A b \in Agents : call[b].at # "check"
    BY <1>1
  <1> QED  BY <1>2, Invariance, PTL DEF Spec, CheckIsShared

\* A task that is cancelled is not worth another run, but where the code does not
\* look at the flag.
THEOREM CancelsHold == Spec => CancelHolds
  <1>1. ASSUME Inv, [Next]_vars, NEW a \in cancelled,
               call[a].at # "spawn", call'[a].at = "spawn"
        PROVE  call'[a].retry \/ call'[a].stage \in {"fresh", "correct"}
    <2>1. a \in Agents /\ ~Announce(a)
      BY <1>1 DEF Announce, Go, Inv, TypeOK, Calls
    <2>2. PICK c \in Calls, p \in Processes : Turn(a, c, p)
      BY <1>1, <2>1, WhoMoves
    <2> QED  BY <1>1, <2>1, <2>2 DEF Turn, Inv, TypeOK
  <1>2. Inv /\ [Next]_vars =>
          \A a \in cancelled : call[a].at # "spawn" /\ call'[a].at = "spawn" =>
            call'[a].retry \/ call'[a].stage \in {"fresh", "correct"}
    BY <1>1
  <1> QED  BY <1>2, Invariance, PTL DEF Spec, CancelHolds

-----------------------------------------------------------------------------
(***************************************************************************)
(* Transcript: for any tools, actions and batches of calls, any pair of    *)
(* providers, and any number of sessions and rounds.                       *)
(***************************************************************************)

(* The invariant of Transcript *)

\* The rows there are, and the invocation.
Messages ==
  {Prompt} \cup {Asked(calls) : calls \in Batches}
    \cup {Result(tool, tagged) : tool \in Tools \cup Actions, tagged \in BOOLEAN}
    \cup {Text(actions) : actions \in Seq(Actions)}

Run == [at: RunPoints, kind: Kinds \cup {None}, sid: Nat \cup {None}, second: BOOLEAN,
        spent: BOOLEAN, messages: Seq(Messages), calls: Batches \cup {<<>>}, done: Nat, round: Nat]

TranscriptTyped ==
  /\ TranscriptTypeOK
  /\ rows \in [Sessions -> Seq(Messages)] /\ run \in Run

\* There is room for the sessions that the invocation may still open, and it goes
\* through the loop with what it has.
Room ==
  /\ run.at \notin {"idle", "done"} /\ ~run.second => opened + 1 <= MaxSessions
  /\ run.at = "load" =>
       /\ run.sid # CliId /\ run.messages = <<>> /\ run.calls = <<>>
       /\ opened + (IF run.second THEN 1 ELSE 2) <= MaxSessions
  /\ run.at \in {"load", "prompt", "call", "tools"} => run.round < MaxIterations
  /\ run.at = "tools" => run.calls \in Batches

\* What is sent is what is on record, if results have ids.
Recorded ==
  run.at \in {"prompt", "call", "tools"} /\ ~Untagged(run.sid) => run.messages = rows[run.sid]

\* Calls are answered, but for those of one row.
AnsweredAt(messages, i, asked) ==
  /\ messages[i].is = "calls" /\ i # asked =>
       \A k \in DOMAIN messages[i].calls :
         /\ i + k <= Len(messages)
         /\ messages[i + k] = Result(messages[i].calls[k], TRUE)
  /\ messages[i].is = "result" =>
       \E j \in 1..(i - 1) : messages[j].is = "calls" /\ i - j <= Len(messages[j].calls)

AnsweredBut(messages, asked) == \A i \in DOMAIN messages : AnsweredAt(messages, i, asked)

\* The row whose calls are being carried out, and the first `done` results.
AnsweredSoFar(messages, calls, done) ==
  LET asked == Len(messages) - done
  IN  /\ asked \in DOMAIN messages /\ messages[asked] = Asked(calls)
      /\ \A k \in 1..done : messages[asked + k] = Result(calls[k], TRUE)
      /\ AnsweredBut(messages, asked)

InTools(s) == run.at = "tools" /\ run.sid = s

Transcribed ==
  \A s \in Sessions : s \notin torn /\ ~Untagged(s) =>
    IF InTools(s) THEN AnsweredSoFar(rows[s], run.calls, run.done) ELSE Answered(rows[s])

\* The blocks are the actions queued since the prompt.
PutAside ==
  /\ run.at \in {"load", "prompt"} => blocks = <<>>
  /\ run.at \in {"call", "tools"} => Lists(blocks, rows[run.sid])

TranscriptInv ==
  /\ TranscriptTyped /\ Room /\ Recorded /\ Transcribed /\ PutAside /\ QueuedIsHandled

-----------------------------------------------------------------------------
(* Rows *)

LEMMA RowsAre ==
  /\ Prompt \in Messages
  /\ \A calls \in Batches : Asked(calls) \in Messages
  /\ \A tool \in Tools \cup Actions, tagged \in BOOLEAN : Result(tool, tagged) \in Messages
  /\ \A actions \in Seq(Actions) : Text(actions) \in Messages
BY DEF Messages

LEMMA BatchesAre ==
  ASSUME NEW calls \in Batches
  PROVE  calls \in Seq(Tools \cup Actions) /\ Len(calls) \in Nat \ {0}
BY TranscriptAssumption

LEMMA RowAppended ==
  ASSUME NEW S, NEW m \in Seq(S), NEW r \in S
  PROVE  /\ Append(m, r) \in Seq(S) /\ Len(Append(m, r)) = Len(m) + 1
         /\ DOMAIN Append(m, r) = DOMAIN m \cup {Len(m) + 1}
         /\ \A i \in DOMAIN m : Append(m, r)[i] = m[i]
         /\ Append(m, r)[Len(m) + 1] = r
         /\ DOMAIN m = 1..Len(m) /\ Len(m) \in Nat
OBVIOUS

LEMMA CallsAre ==
  ASSUME NEW r \in Messages, r.is = "calls"
  PROVE  r.calls \in Batches /\ r = Asked(r.calls) /\ DOMAIN r.calls = 1..Len(r.calls)
<1>1. CASE r = Prompt
  BY <1>1 DEF Prompt
<1>2. CASE r \in {Asked(calls) : calls \in Batches}
  BY <1>2, BatchesAre DEF Asked
<1>3. CASE r \in {Result(tool, tagged) : tool \in Tools \cup Actions, tagged \in BOOLEAN}
  BY <1>3 DEF Result
<1>4. CASE r \in {Text(actions) : actions \in Seq(Actions)}
  BY <1>4 DEF Text
<1> QED  BY <1>1, <1>2, <1>3, <1>4 DEF Messages

LEMMA AllAnswered ==
  ASSUME NEW m \in Seq(Messages)  PROVE Answered(m) <=> AnsweredBut(m, 0)
<1>1. \A i \in DOMAIN m : i # 0
  OBVIOUS
<1> QED  BY <1>1 DEF Answered, AnsweredBut, AnsweredAt

\* What is answered stays so when a row comes after it.
LEMMA AnsweredAtStays ==
  ASSUME NEW m \in Seq(Messages), NEW r \in Messages, NEW i \in DOMAIN m, NEW asked,
         AnsweredAt(m, i, asked)
  PROVE  AnsweredAt(Append(m, r), i, asked)
<1> DEFINE new == Append(m, r)
<1>1. /\ Len(new) = Len(m) + 1 /\ \A j \in DOMAIN m : new[j] = m[j]
      /\ DOMAIN m = 1..Len(m) /\ Len(m) \in Nat
  BY RowAppended
<1> HIDE DEF new
<1>2. ASSUME new[i].is = "calls", i # asked, NEW k \in DOMAIN new[i].calls
      PROVE  i + k <= Len(new) /\ new[i + k] = Result(new[i].calls[k], TRUE)
  <2>1. new[i] = m[i] /\ m[i] \in Messages
    BY <1>1
  <2>2. k \in 1..Len(m[i].calls) /\ m[i].calls \in Batches
    BY <1>2, <2>1, CallsAre
  <2>3. k \in Nat \ {0}
    BY <2>2, BatchesAre
  <2>4. i + k <= Len(m) /\ m[i + k] = Result(m[i].calls[k], TRUE)
    BY <1>2, <2>1 DEF AnsweredAt
  <2>5. i + k \in DOMAIN m
    BY <1>1, <2>3, <2>4
  <2>6. new[i + k] = m[i + k]
    BY <1>1, <2>5
  <2>7. i + k <= Len(new)
    BY <1>1, <2>3, <2>4
  <2> QED  BY <2>1, <2>4, <2>6, <2>7
<1>3. ASSUME new[i].is = "result"
      PROVE  \E j \in 1..(i - 1) : new[j].is = "calls" /\ i - j <= Len(new[j].calls)
  <2>1. PICK j \in 1..(i - 1) : m[j].is = "calls" /\ i - j <= Len(m[j].calls)
    BY <1>1, <1>3 DEF AnsweredAt
  <2>2. j \in DOMAIN m
    BY <1>1, <2>1
  <2> QED  BY <1>1, <2>1, <2>2
<1> QED  BY <1>2, <1>3 DEF AnsweredAt, new

\* A row that neither asks nor answers.
LEMMA AnsweredStays ==
  ASSUME NEW m \in Seq(Messages), NEW r \in Messages, r.is \notin {"calls", "result"}, Answered(m)
  PROVE  Answered(Append(m, r))
<1> DEFINE new == Append(m, r)
<1>1. /\ new \in Seq(Messages) /\ DOMAIN new = DOMAIN m \cup {Len(m) + 1} /\ new[Len(m) + 1] = r
  BY RowAppended
<1>2. AnsweredBut(m, 0)
  BY AllAnswered
<1>3. \A i \in DOMAIN m : AnsweredAt(new, i, 0)
  BY <1>2, AnsweredAtStays DEF AnsweredBut
<1> HIDE DEF new
<1>4. AnsweredAt(new, Len(m) + 1, 0)
  BY <1>1 DEF AnsweredAt
<1>5. AnsweredBut(new, 0)
  BY <1>1, <1>3, <1>4 DEF AnsweredBut
<1> QED  BY <1>1, <1>5, AllAnswered DEF new

LEMMA AnsweredAsked ==
  ASSUME NEW m \in Seq(Messages), NEW calls \in Batches, Answered(m)
  PROVE  AnsweredSoFar(Append(m, Asked(calls)), calls, 0)
<1> DEFINE new == Append(m, Asked(calls))
<1>1. Asked(calls) \in Messages /\ Asked(calls).is = "calls" /\ Asked(calls).calls = calls
  BY RowsAre DEF Asked
<1>2. /\ Len(new) = Len(m) + 1 /\ DOMAIN new = DOMAIN m \cup {Len(m) + 1}
      /\ \A i \in DOMAIN m : new[i] = m[i]
      /\ new[Len(m) + 1] = Asked(calls) /\ DOMAIN m = 1..Len(m) /\ Len(m) \in Nat
  BY <1>1, RowAppended
<1>3. \A i \in DOMAIN m : AnsweredAt(m, i, Len(new))
  BY AllAnswered DEF AnsweredBut, AnsweredAt, Answered
<1>4. \A i \in DOMAIN m : AnsweredAt(new, i, Len(new))
  BY <1>1, <1>3, AnsweredAtStays
<1> HIDE DEF new
<1>5. AnsweredBut(new, Len(new))
  BY <1>1, <1>2, <1>4 DEF AnsweredBut, AnsweredAt
<1> QED  BY <1>2, <1>5 DEF AnsweredSoFar, new

LEMMA AnsweredNext ==
  ASSUME NEW m \in Seq(Messages), NEW calls \in Batches, NEW done \in Nat, done < Len(calls),
         AnsweredSoFar(m, calls, done)
  PROVE  AnsweredSoFar(Append(m, Result(calls[done + 1], TRUE)), calls, done + 1)
<1> DEFINE r == Result(calls[done + 1], TRUE)
           new == Append(m, r)
           asked == Len(m) - done
<1>1. calls \in Seq(Tools \cup Actions) /\ calls[done + 1] \in Tools \cup Actions
  BY BatchesAre
<1>2. r \in Messages /\ r.is = "result"
  BY <1>1, RowsAre DEF Result
<1> HIDE DEF r
<1>3. /\ Len(new) = Len(m) + 1 /\ DOMAIN new = DOMAIN m \cup {Len(m) + 1}
      /\ \A i \in DOMAIN m : new[i] = m[i]
      /\ new[Len(m) + 1] = r /\ DOMAIN m = 1..Len(m) /\ Len(m) \in Nat
  BY <1>2, RowAppended
<1> HIDE DEF new
<1>4. /\ asked \in DOMAIN m /\ m[asked] = Asked(calls)
      /\ \A k \in 1..done : m[asked + k] = Result(calls[k], TRUE)
      /\ AnsweredBut(m, asked)
  BY DEF AnsweredSoFar
<1>5. Asked(calls).is = "calls" /\ Asked(calls).calls = calls
  BY DEF Asked
<1>6. \A k \in 1..(done + 1) : new[asked + k] = Result(calls[k], TRUE)
  <2> SUFFICES ASSUME NEW k \in 1..(done + 1)  PROVE new[asked + k] = Result(calls[k], TRUE)
    OBVIOUS
  <2>1. CASE k = done + 1
    <3>1. asked + k = Len(m) + 1
      BY <1>3, <2>1
    <3> QED  BY <1>3, <2>1, <3>1 DEF r
  <2>2. CASE k \in 1..done
    <3>1. asked + k \in DOMAIN m
      BY <1>3, <1>4, <2>2
    <3>2. m[asked + k] = Result(calls[k], TRUE)
      BY <1>4, <2>2
    <3>3. new[asked + k] = m[asked + k]
      BY <1>3, <3>1
    <3> QED  BY <3>2, <3>3
  <2>3. k = done + 1 \/ k \in 1..done
    OBVIOUS
  <2> QED  BY <2>1, <2>2, <2>3
<1>7. AnsweredBut(new, asked)
  <2>1. \A i \in DOMAIN m : AnsweredAt(new, i, asked)
    BY <1>2, <1>4, AnsweredAtStays DEF AnsweredBut, new
  <2>2. AnsweredAt(new, Len(m) + 1, asked)
    <3>1. /\ asked \in 1..(Len(m) + 1 - 1) /\ new[asked].is = "calls"
          /\ Len(m) + 1 - asked <= Len(new[asked].calls)
      BY <1>1, <1>3, <1>4, <1>5
    <3>2. new[Len(m) + 1].is = "result"
      BY <1>2, <1>3
    <3> HIDE DEF asked
    <3> QED  BY <3>1, <3>2 DEF AnsweredAt
  <2> QED  BY <1>3, <2>1, <2>2 DEF AnsweredBut
<1>8. Len(new) - (done + 1) = asked
  BY <1>3
<1> QED
  BY <1>3, <1>4, <1>6, <1>7, <1>8 DEF AnsweredSoFar, new, r

LEMMA AnsweredAll ==
  ASSUME NEW m \in Seq(Messages), NEW calls \in Batches, AnsweredSoFar(m, calls, Len(calls))
  PROVE  Answered(m)
<1> DEFINE asked == Len(m) - Len(calls)
<1>1. /\ asked \in DOMAIN m /\ m[asked] = Asked(calls)
      /\ \A k \in 1..Len(calls) : m[asked + k] = Result(calls[k], TRUE)
      /\ AnsweredBut(m, asked)
  BY DEF AnsweredSoFar
<1>2. calls \in Seq(Tools \cup Actions) /\ Len(calls) \in Nat /\ DOMAIN calls = 1..Len(calls)
  BY BatchesAre
<1>3. Len(m) \in Nat /\ DOMAIN m = 1..Len(m)
  OBVIOUS
<1>4. m[asked].calls = calls /\ m[asked].is = "calls"
  BY <1>1 DEF Asked
<1>5. \A k \in DOMAIN m[asked].calls :
        asked + k <= Len(m) /\ m[asked + k] = Result(m[asked].calls[k], TRUE)
  <2> SUFFICES ASSUME NEW k \in 1..Len(calls)
               PROVE  asked + k <= Len(m) /\ m[asked + k] = Result(calls[k], TRUE)
    BY <1>2, <1>4
  <2>1. asked + k <= Len(m)
    BY <1>2, <1>3
  <2> QED  BY <1>1, <2>1
<1> HIDE DEF asked
<1>6. AnsweredAt(m, asked, 0)
  BY <1>4, <1>5 DEF AnsweredAt
<1>7. \A i \in DOMAIN m : AnsweredAt(m, i, 0)
  BY <1>1, <1>6 DEF AnsweredBut, AnsweredAt
<1> QED  BY <1>7, AllAnswered DEF AnsweredBut

-----------------------------------------------------------------------------
(* Queued actions *)

LEMMA NothingQueued ==
  ASSUME NEW m \in Seq(Messages)  PROVE Lists(<<>>, Append(m, Prompt))
<1> DEFINE new == Append(m, Prompt)
<1>1. /\ Len(new) = Len(m) + 1 /\ DOMAIN new = 1..Len(new) /\ Len(new) \in Nat
      /\ new[Len(new)] = Prompt
  BY RowAppended, RowsAre
<1>2. \A i \in DOMAIN new : Len(new) \in i..Len(new) /\ IsPrompt(new[Len(new)])
  BY <1>1 DEF IsPrompt, Prompt
<1>3. QueuedAt(new) = {}
  BY <1>1, <1>2 DEF QueuedAt
<1>4. <<>> \in [{} -> {}] /\ DOMAIN <<>> = {}
  OBVIOUS
<1> QED  BY <1>3, <1>4 DEF Lists

LEMMA QueuedAppend ==
  ASSUME NEW m \in Seq(Messages), NEW r \in Messages, ~IsPrompt(r)
  PROVE  QueuedAt(Append(m, r)) = QueuedAt(m) \cup (IF IsAction(r) THEN {Len(m) + 1} ELSE {})
BY RowAppended DEF QueuedAt

LEMMA ListsStay ==
  ASSUME NEW m \in Seq(Messages), NEW r \in Messages, NEW actions \in Seq(Actions),
         ~IsPrompt(r), ~IsAction(r), Lists(actions, m)
  PROVE  Lists(actions, Append(m, r))
<1> DEFINE new == Append(m, r)
<1>1. QueuedAt(new) = QueuedAt(m) /\ QueuedAt(m) \subseteq DOMAIN m
  BY QueuedAppend DEF QueuedAt
<1>2. \A i \in DOMAIN m : new[i] = m[i]
  BY RowAppended
<1> HIDE DEF new
<1>3. PICK at \in [DOMAIN actions -> QueuedAt(m)] :
        /\ \A k, n \in DOMAIN actions : k < n => at[k] < at[n]
        /\ \A i \in QueuedAt(m) : \E n \in DOMAIN actions : at[n] = i
        /\ \A n \in DOMAIN actions : actions[n] = m[at[n]].tool
  BY DEF Lists
<1>4. \A n \in DOMAIN actions : actions[n] = new[at[n]].tool
  BY <1>1, <1>2, <1>3
<1> QED  BY <1>1, <1>3, <1>4 DEF Lists, new

LEMMA ListsMore ==
  ASSUME NEW m \in Seq(Messages), NEW actions \in Seq(Actions), NEW tool \in Actions,
         NEW tagged \in BOOLEAN, Lists(actions, m)
  PROVE  Lists(Append(actions, tool), Append(m, Result(tool, tagged)))
<1> DEFINE r == Result(tool, tagged)
           new == Append(m, r)
           more == Append(actions, tool)
<1>1. r \in Messages /\ ~IsPrompt(r) /\ IsAction(r) /\ r.tool = tool
  BY RowsAre DEF Result, IsPrompt, IsAction
<1> HIDE DEF r
<1>2. QueuedAt(new) = QueuedAt(m) \cup {Len(m) + 1} /\ QueuedAt(m) \subseteq DOMAIN m
  BY <1>1, QueuedAppend DEF QueuedAt
<1>3. /\ \A i \in DOMAIN m : new[i] = m[i]
      /\ new[Len(m) + 1] = r /\ DOMAIN m = 1..Len(m) /\ Len(m) \in Nat
  BY <1>1, RowAppended
<1>4. /\ DOMAIN more = DOMAIN actions \cup {Len(actions) + 1}
      /\ \A n \in DOMAIN actions : more[n] = actions[n]
      /\ more[Len(actions) + 1] = tool
      /\ DOMAIN actions = 1..Len(actions) /\ Len(actions) \in Nat
  BY RowAppended
<1> HIDE DEF new, more
<1>5. PICK at \in [DOMAIN actions -> QueuedAt(m)] :
        /\ \A k, n \in DOMAIN actions : k < n => at[k] < at[n]
        /\ \A i \in QueuedAt(m) : \E n \in DOMAIN actions : at[n] = i
        /\ \A n \in DOMAIN actions : actions[n] = m[at[n]].tool
  BY DEF Lists
<1> DEFINE now == [n \in DOMAIN more |-> IF n \in DOMAIN actions THEN at[n] ELSE Len(m) + 1]
<1>6. /\ now \in [DOMAIN more -> QueuedAt(new)]
      /\ \A n \in DOMAIN actions : now[n] = at[n]
      /\ now[Len(actions) + 1] = Len(m) + 1
  BY <1>2, <1>4, <1>5
<1> HIDE DEF now
<1>7. \A k, n \in DOMAIN more : k < n => now[k] < now[n]
  BY <1>2, <1>3, <1>4, <1>5, <1>6
<1>8. \A i \in QueuedAt(new) : \E n \in DOMAIN more : now[n] = i
  BY <1>2, <1>4, <1>5, <1>6
<1>9. \A n \in DOMAIN more : more[n] = new[now[n]].tool
  BY <1>1, <1>2, <1>3, <1>4, <1>5, <1>6
<1>10. Lists(more, new)
  BY <1>6, <1>7, <1>8, <1>9 DEF Lists
<1> QED  BY <1>10 DEF more, new, r

-----------------------------------------------------------------------------
(* Types *)

LEMMA SessionsAre ==
  ASSUME TranscriptTypeOK
  PROVE  /\ opened \in Nat /\ MaxSessions \in Nat /\ opened <= MaxSessions /\ None \notin Nat
         /\ 1..opened \subseteq Sessions /\ 0..opened \subseteq Nat
         /\ primary \in Kinds /\ fallback \in Kinds \cup {None}
BY TranscriptAssumption DEF TranscriptTypeOK, Sessions

LEMMA NoRunIs ==
  NoRun \in Run /\ NoRun.at = "idle" /\ NoRun.sid = None /\ NoRun.round = 0 /\ NoRun.calls = <<>>
BY DEF NoRun, Run, RunPoints

LEMMA NothingIs ==
  /\ <<>> \in Seq(Messages) /\ <<>> \in Batches \cup {<<>>} /\ 0 \in Nat
  /\ {"idle", "load", "prompt", "call", "tools", "cli", "failed", "done"} \subseteq RunPoints
BY DEF RunPoints

LEMMA EnterIs ==
  ASSUME TranscriptTypeOK, NEW kind \in Kinds, NEW id \in 0..opened \cup {None},
         NEW second \in BOOLEAN, NEW spent \in BOOLEAN, Enter(kind, id, second, spent)
  PROVE  /\ run' \in Run /\ run'.at \in {"cli", "load"} /\ run'.kind = kind
         /\ run'.sid \in 1..opened \cup {None} /\ run'.second = second
         /\ run'.messages = <<>> /\ run'.calls = <<>> /\ run'.done = 0 /\ run'.round = 0
<1>1. (IF id = CliId THEN None ELSE id) \in 1..opened \cup {None}
  BY SessionsAre DEF CliId
<1> DEFINE sid == IF id = CliId THEN None ELSE id
<1>2. run' = [NoRun EXCEPT !.at = IF kind = "claude-cli" THEN "cli" ELSE "load",
                      !.kind = kind, !.sid = sid, !.second = second, !.spent = spent]
  BY DEF Enter
<1>3. sid \in Nat \cup {None}
  BY <1>1, SessionsAre
<1> DEFINE point == IF kind = "claude-cli" THEN "cli" ELSE "load"
<1>4. point \in {"cli", "load"}
  OBVIOUS
<1> HIDE DEF sid, point
<1>5. /\ run'.at = point /\ run'.kind = kind /\ run'.sid = sid /\ run'.second = second
      /\ run'.messages = <<>> /\ run'.calls = <<>> /\ run'.done = 0 /\ run'.round = 0
  BY <1>2 DEF NoRun, point
<1>6. run' = [at |-> point, kind |-> kind, sid |-> sid, second |-> second, spent |-> spent,
              messages |-> <<>>, calls |-> <<>>, done |-> 0, round |-> 0]
  BY <1>2 DEF NoRun, point
<1>7. run' \in Run
  BY <1>3, <1>4, <1>6, NothingIs DEF Run
<1> QED  BY <1>1, <1>4, <1>5, <1>7 DEF sid

LEMMA LeaveIs ==
  ASSUME run \in Run, NEW point \in RunPoints, Leave(point)
  PROVE  /\ run' \in Run /\ run'.at = point /\ run'.sid = run.sid /\ run'.second = run.second
         /\ run'.kind = run.kind /\ run'.round = 0
BY NothingIs DEF Leave, Run

LEMMA AddIs ==
  ASSUME TranscriptTyped, NEW s \in Sessions, NEW row \in Messages, Add(s, row)
  PROVE  /\ rows' \in [Sessions -> Seq(Messages)] /\ DOMAIN rows' = Sessions
         /\ rows'[s] = Append(rows[s], row)
         /\ \A t \in Sessions \ {s} : rows'[t] = rows[t]
         /\ rows[s] \in Seq(Messages)
<1>1. rows \in [Sessions -> Seq(Messages)] /\ rows[s] \in Seq(Messages)
  BY DEF TranscriptTyped
<1>2. Append(rows[s], row) \in Seq(Messages)
  BY <1>1, RowAppended
<1> QED  BY <1>1, <1>2 DEF Add

LEMMA ConvertIs ==
  ASSUME NEW m \in Seq(Messages)
  PROVE  /\ Convert(m) \in Seq(Messages)
         /\ (~\E i \in DOMAIN m : m[i].is = "result" /\ ~m[i].tagged) => Convert(m) = m
<1>1. DOMAIN m = 1..Len(m) /\ Len(m) \in Nat /\ \A i \in DOMAIN m : m[i] \in Messages
  OBVIOUS
<1>2. Convert(m) \in [1..Len(m) -> Messages]
  BY <1>1, RowsAre DEF Convert
<1>3. Convert(m) \in Seq(Messages)
  BY <1>1, <1>2
<1>4. ASSUME ~\E i \in DOMAIN m : m[i].is = "result" /\ ~m[i].tagged  PROVE Convert(m) = m
  <2>1. Convert(m) = [i \in DOMAIN m |-> m[i]]
    BY <1>4 DEF Convert
  <2>2. m \in [1..Len(m) -> Messages]
    OBVIOUS
  <2> QED  BY <1>1, <2>1, <2>2
<1> QED  BY <1>3, <1>4

LEMMA RunSession ==
  ASSUME TranscriptTyped, run.at \in {"prompt", "call", "tools", "text"}
  PROVE  run.sid \in 1..opened /\ run.sid \in Sessions
BY SessionsAre DEF TranscriptTyped, TranscriptTypeOK

\* What a step that adds no row and opens no session leaves to be seen.
LEMMA SameSessions ==
  ASSUME TranscriptTyped, rows' = rows, opened' = opened,
         stored' \in 0..opened \cup {None}, <<primary', fallback'>> \in Setups,
         switching' \in BOOLEAN, run' \in Run,
         run'.sid \in 0..opened \cup {None}, run'.round \in 0..MaxIterations,
         run'.at \in {"prompt", "call", "tools", "text"} => run'.sid \in 1..opened,
         run'.at = "tools" => run'.round < MaxIterations /\ run'.done < Len(run'.calls),
         blocks' \in Seq(Actions), answer'.actions \in Seq(Actions), torn' \subseteq 1..opened
  PROVE  TranscriptTyped'
<1>1. run'.at \in RunPoints /\ run'.kind \in Kinds \cup {None}
  BY DEF Run
<1> QED  BY <1>1 DEF TranscriptTyped, TranscriptTypeOK

\* What a step that adds a row does.
LEMMA OneMoreRow ==
  ASSUME TranscriptTyped, NEW row \in Messages, run.sid \in 1..opened, Add(run.sid, row),
         opened' = opened, stored' = stored, UNCHANGED providers, run' \in Run,
         run'.sid = run.sid, run'.round \in 0..MaxIterations,
         run'.at = "tools" => run'.round < MaxIterations /\ run'.done < Len(run'.calls),
         blocks' \in Seq(Actions), answer'.actions \in Seq(Actions), torn' = torn
  PROVE  TranscriptTyped'
<1>1. run'.at \in RunPoints /\ run'.kind \in Kinds \cup {None}
  BY DEF Run
<1>2. run.sid \in Sessions /\ \A s \in Sessions : s > opened => s # run.sid
  BY SessionsAre DEF TranscriptTyped, Sessions
<1>3. /\ rows' \in [Sessions -> Seq(Messages)] /\ DOMAIN rows' = Sessions
      /\ \A t \in Sessions \ {run.sid} : rows'[t] = rows[t]
  BY <1>2, AddIs
<1> QED  BY <1>1, <1>2, <1>3 DEF TranscriptTyped, TranscriptTypeOK, providers

LEMMA TranscriptTypeStep ==
  ASSUME TranscriptTyped, Room, [TranscriptNext]_transcriptVars
  PROVE  TranscriptTyped' /\ Room'
<1> DEFINE Fine == TranscriptTyped' /\ Room'
<1> USE DEF database, providers, bounds, RunAt
<1>0. /\ TranscriptTypeOK /\ run \in Run /\ opened \in Nat /\ MaxSessions \in Nat
      /\ opened <= MaxSessions /\ None \notin Nat /\ MaxIterations \in Nat \ {0}
      /\ primary \in Kinds /\ fallback \in Kinds \cup {None}
      /\ stored \in 0..opened \cup {None} /\ blocks \in Seq(Actions)
      /\ answer.actions \in Seq(Actions) /\ torn \subseteq 1..opened /\ <<>> \in Seq(Actions)
      /\ run.sid \in 0..opened \cup {None} /\ run.round \in 0..MaxIterations
      /\ <<primary, fallback>> \in Setups /\ switching \in BOOLEAN
  BY SessionsAre, TranscriptAssumption DEF TranscriptTyped, TranscriptTypeOK
<1>1. CASE Begin
  <2>1. /\ run' \in Run /\ run'.at \in {"cli", "load"} /\ run'.sid \in 1..opened \cup {None}
        /\ run'.second = FALSE /\ run'.messages = <<>> /\ run'.calls = <<>> /\ run'.round = 0
    BY <1>0, <1>1, EnterIs DEF Begin
  <2>2. TranscriptTyped'
    BY <1>0, <1>1, <2>1, SameSessions DEF Begin, NoBlocks
  <2> QED  BY <1>0, <1>1, <2>1, <2>2 DEF Begin, Room, CliId
<1>2. CASE Load
  <2>1. run.messages = <<>> /\ run.sid # CliId /\ run.at = "load"
    BY <1>2 DEF Load, Room
  <2>2. CASE run.sid # None /\ run' = [run EXCEPT !.at = "prompt", !.messages = Convert(rows[run.sid])]
             /\ opened' = opened
    <3>1. run.sid \in 1..opened
      BY <1>0, <2>1, <2>2 DEF CliId
    <3>2. Convert(rows[run.sid]) \in Seq(Messages)
      BY <1>0, <3>1, SessionsAre, ConvertIs DEF TranscriptTyped
    <3>3. /\ run' \in Run /\ run'.at = "prompt" /\ run'.sid = run.sid /\ run'.round = run.round
          /\ run'.second = run.second /\ run'.calls = run.calls
      BY <1>0, <2>2, <3>2 DEF Run, RunPoints
    <3>4. TranscriptTyped'
      BY <1>0, <1>2, <2>2, <3>1, <3>3, SameSessions DEF Load
    <3> QED  BY <1>0, <2>1, <2>2, <3>3, <3>4 DEF Room
  <2>3. CASE run.sid = None /\ opened' = opened + 1
             /\ run' = [run EXCEPT !.at = "prompt", !.sid = opened + 1]
    <3>0. opened + 1 \in Nat \cup {None} /\ "prompt" \in RunPoints
      BY <1>0, NothingIs
    <3>1. /\ run' \in Run /\ run'.at = "prompt" /\ run'.sid = opened + 1 /\ run'.round = run.round
          /\ run'.second = run.second /\ run'.calls = run.calls /\ run'.kind = run.kind
      BY <1>0, <2>3, <3>0 DEF Run
    <3>2. opened + 1 <= MaxSessions /\ (~run.second => opened + 2 <= MaxSessions)
      BY <1>0, <2>1 DEF Room
    <3>3. TranscriptTyped'
      BY <1>0, <1>2, <2>3, <3>1, <3>2 DEF Load, TranscriptTyped, TranscriptTypeOK, Sessions, RunPoints, Run
    <3> QED  BY <1>0, <2>1, <2>3, <3>1, <3>2, <3>3 DEF Room
  <2> QED  BY <1>2, <2>2, <2>3 DEF Load
<1>3. CASE PersistPrompt
  <2>1. run.sid \in 1..opened /\ Prompt \in Messages /\ run.at = "prompt"
    BY <1>3, RunSession, RowsAre DEF PersistPrompt
  <2>2. Append(run.messages, Prompt) \in Seq(Messages)
    BY <1>0, <2>1, RowAppended DEF Run
  <2>3. /\ run' \in Run /\ run'.at = "call" /\ run'.sid = run.sid /\ run'.round = run.round
        /\ run'.second = run.second
    BY <1>0, <1>3, <2>2 DEF PersistPrompt, Run, RunPoints
  <2>4. TranscriptTyped'
    BY <1>0, <1>3, <2>1, <2>3, OneMoreRow DEF PersistPrompt
  <2> QED  BY <1>3, <2>1, <2>3, <2>4 DEF PersistPrompt, Room
<1>4. CASE CallFails
  <2>1. run' \in Run /\ run'.at = "failed" /\ run'.sid = run.sid /\ run'.second = run.second
          /\ run'.round = 0
    BY <1>0, <1>4, LeaveIs DEF CallFails, RunPoints
  <2>2. TranscriptTyped'
    BY <1>0, <1>4, <2>1, SameSessions DEF CallFails
  <2> QED  BY <1>4, <2>1, <2>2 DEF CallFails, Room
<1>5. CASE Ask
  <2>1. PICK calls \in Batches :
          /\ Add(run.sid, Asked(calls))
          /\ run' = [run EXCEPT !.at = "tools", !.calls = calls, !.done = 0,
                                !.messages = Append(run.messages, Asked(calls))]
    BY <1>5 DEF Ask
  <2>2. run.sid \in 1..opened /\ Asked(calls) \in Messages /\ run.at = "call"
    BY <1>5, RunSession, RowsAre DEF Ask
  <2>3. Append(run.messages, Asked(calls)) \in Seq(Messages)
    BY <1>0, <2>2, RowAppended DEF Run
  <2>4. /\ run' \in Run /\ run'.at = "tools" /\ run'.sid = run.sid /\ run'.round = run.round
        /\ run'.second = run.second /\ run'.calls = calls /\ run'.done = 0
    BY <1>0, <2>1, <2>3 DEF Run, RunPoints
  <2>5. run.round < MaxIterations /\ 0 < Len(calls)
    BY <2>2, BatchesAre DEF Room
  <2>6. TranscriptTyped'
    BY <1>0, <1>5, <2>1, <2>2, <2>4, <2>5, OneMoreRow DEF Ask
  <2> QED  BY <1>5, <2>2, <2>4, <2>5, <2>6 DEF Ask, Room
<1>6. CASE CarryOut
  <2> DEFINE tool == run.calls[run.done + 1]
  <2>1. run.sid \in 1..opened /\ run.at = "tools" /\ run.calls \in Batches
          /\ run.done < Len(run.calls) /\ run.round < MaxIterations /\ run.done \in Nat
    BY <1>0, <1>6, RunSession DEF CarryOut, Room, TranscriptTypeOK, Run
  <2>2. tool \in Tools \cup Actions
    BY <2>1, BatchesAre
  <2>3. Result(tool, Tagged) \in Messages /\ Result(tool, TRUE) \in Messages
    BY <2>2, RowsAre DEF Tagged
  <2> DEFINE said == Append(run.messages, Result(tool, TRUE))
  <2>4. said \in Seq(Messages)
    BY <1>0, <2>3, RowAppended DEF Run
  <2>5. /\ Put(tool) /\ Add(run.sid, Result(tool, Tagged))
        /\ \/ /\ run.done + 1 < Len(run.calls)
              /\ run' = [run EXCEPT !.done = run.done + 1, !.messages = said]
           \/ /\ run.done + 1 = Len(run.calls)
              /\ IF LastRound THEN Leave("failed")
                 ELSE run' = [run EXCEPT !.at = "call", !.round = run.round + 1,
                                !.messages = said, !.calls = <<>>, !.done = 0]
    BY <1>6 DEF CarryOut
  <2>6. blocks' \in Seq(Actions)
    BY <1>0, <2>5, RowAppended DEF Put
  <2> HIDE DEF said, tool
  <2>7. CASE run.done + 1 < Len(run.calls) /\ run' = [run EXCEPT !.done = run.done + 1, !.messages = said]
    <3>1. /\ run' \in Run /\ run'.at = "tools" /\ run'.sid = run.sid /\ run'.round = run.round
          /\ run'.second = run.second /\ run'.calls = run.calls /\ run'.done = run.done + 1
      <4>1. run.done + 1 \in Nat
        BY <2>1
      <4> QED  BY <1>0, <2>1, <2>4, <2>7, <4>1 DEF Run
    <3>2. TranscriptTyped'
      BY <1>0, <1>6, <2>1, <2>3, <2>5, <2>6, <2>7, <3>1, OneMoreRow DEF CarryOut
    <3> QED  BY <1>6, <2>1, <3>1, <3>2 DEF CarryOut, Room
  <2>8. CASE Leave("failed")
    <3>1. run' \in Run /\ run'.at = "failed" /\ run'.sid = run.sid /\ run'.second = run.second
            /\ run'.round = 0
      BY <1>0, <2>8, LeaveIs DEF RunPoints
    <3>2. TranscriptTyped'
      BY <1>0, <1>6, <2>1, <2>3, <2>5, <2>6, <3>1, OneMoreRow DEF CarryOut
    <3> QED  BY <1>6, <2>1, <3>1, <3>2 DEF CarryOut, Room
  <2>9. CASE ~LastRound /\ run' = [run EXCEPT !.at = "call", !.round = run.round + 1,
                                          !.messages = said, !.calls = <<>>, !.done = 0]
    <3>1. /\ run' \in Run /\ run'.at = "call" /\ run'.sid = run.sid /\ run'.round = run.round + 1
          /\ run'.second = run.second
      <4>1. run.round + 1 \in Nat
        BY <1>0
      <4> QED  BY <1>0, <2>4, <2>9, <4>1, NothingIs DEF Run
    <3>2. run.round + 1 < MaxIterations
      BY <1>0, <2>1, <2>9 DEF LastRound
    <3>3. run'.round \in 0..MaxIterations /\ run'.at # "tools"
      BY <1>0, <3>1, <3>2
    <3>4. TranscriptTyped'
      BY <1>0, <1>6, <2>1, <2>3, <2>5, <2>6, <3>1, <3>3, OneMoreRow DEF CarryOut
    <3> QED  BY <1>6, <2>1, <3>1, <3>2, <3>4 DEF CarryOut, Room
  <2> QED  BY <2>5, <2>7, <2>8, <2>9
<1>7. CASE Conclude
  <2>1. run.sid \in 1..opened /\ Text(blocks) \in Messages
    BY <1>0, <1>7, RunSession, RowsAre DEF Conclude
  <2>2. run' \in Run /\ run'.at = "done" /\ run'.sid = run.sid /\ run'.round = 0
    BY <1>0, <1>7, LeaveIs DEF Conclude, RunPoints
  <2>3. TranscriptTyped'
    BY <1>0, <1>7, <2>1, <2>2, OneMoreRow DEF Conclude
  <2> QED  BY <2>2, <2>3 DEF Room
<1>8. CASE RowFails
  <2>1. run' \in Run /\ run'.at = "failed" /\ run'.sid = run.sid /\ run'.second = run.second
          /\ run'.round = 0
    BY <1>0, <1>8, LeaveIs DEF RowFails, RunPoints
  <2>2. run.sid \in 1..opened
    BY <1>8, RunSession DEF RowFails
  <2>3. torn' = torn \cup {run.sid}
    BY <1>8 DEF RowFails
  <2>4. torn' \subseteq 1..opened
    BY <1>0, <2>2, <2>3
  <2>5. run'.round \in 0..MaxIterations
    BY <1>0, <2>1
  <2>6. TranscriptTyped'
    BY <1>0, <1>8, <2>1, <2>4, <2>5, SameSessions DEF RowFails
  <2> QED  BY <1>8, <2>1, <2>6 DEF RowFails, Room
<1>9. CASE CliAnswers
  <2>1. run' \in Run /\ run'.at = "done" /\ run'.sid = CliId /\ run'.round = run.round
    BY <1>0, <1>9, NothingIs DEF CliAnswers, Run, CliId
  <2>2. answer'.actions = <<>>
    BY <1>9 DEF CliAnswers
  <2>3. TranscriptTyped'
    BY <1>0, <1>9, <2>1, <2>2, SameSessions DEF CliAnswers, CliId
  <2> QED  BY <2>1, <2>3 DEF Room
<1>10. CASE CliFails
  <2>1. run' \in Run /\ run'.at = "failed" /\ run'.sid = run.sid /\ run'.round = run.round
          /\ run'.second = run.second
    BY <1>0, <1>10 DEF CliFails, Run, RunPoints
  <2>2. TranscriptTyped'
    BY <1>0, <1>10, <2>1, SameSessions DEF CliFails
  <2> QED  BY <1>10, <2>1, <2>2 DEF CliFails, Room
<1>11. CASE FallBack
  <2>1. fallback \in Kinds /\ run.spent \in BOOLEAN
    BY <1>0, <1>11 DEF FallBack, Run
  <2>2. /\ run' \in Run /\ run'.at \in {"cli", "load"} /\ run'.sid \in 1..opened \cup {None}
        /\ run'.second = TRUE /\ run'.messages = <<>> /\ run'.calls = <<>> /\ run'.round = 0
    BY <1>0, <1>11, <2>1, EnterIs DEF FallBack
  <2>3. TranscriptTyped'
    BY <1>0, <1>11, <2>2, SameSessions DEF FallBack, NoBlocks
  <2> QED  BY <1>0, <1>11, <2>2, <2>3 DEF FallBack, Room, CliId
<1>12. CASE GiveUp
  <2>1. run' \in Run /\ run'.at = "done" /\ run'.sid = run.sid /\ run'.round = 0
    BY <1>0, <1>12, LeaveIs DEF GiveUp, RunPoints
  <2>2. TranscriptTyped'
    BY <1>0, <1>12, <2>1, SameSessions DEF GiveUp
  <2> QED  BY <2>1, <2>2 DEF Room
<1>13. CASE Return
  <2>1. Store \in 0..opened \cup {None}
    BY <1>0 DEF Store
  <2>2. TranscriptTyped'
    BY <1>0, <1>13, <2>1, NoRunIs, SameSessions DEF Return, NoAnswer
  <2> QED  BY <1>13, <2>2, NoRunIs DEF Return, Room
<1>14. ASSUME NEW setup \in Setups, Switch(setup)  PROVE Fine
  <2>1. <<primary', fallback'>> \in Setups
    <3>1. setup = <<setup[1], setup[2]>>
      BY TranscriptAssumption
    <3> QED  BY <1>14, <3>1 DEF Switch
  <2>2. TranscriptTyped'
    BY <1>0, <1>14, <2>1, SameSessions DEF Switch, TranscriptTypeOK
  <2> QED  BY <1>14, <2>2 DEF Switch, Room
<1>15. CASE Invalidate
  <2>1. TranscriptTyped'
    BY <1>0, <1>15, SameSessions DEF Invalidate, TranscriptTypeOK
  <2> QED  BY <1>15, <2>1 DEF Invalidate, Room
<1>16. CASE Cut
  <2>1. torn' \subseteq 1..opened
    BY <1>0, <1>16, RunSession DEF Cut
  <2>2. /\ run' = NoRun /\ blocks' = <<>> /\ answer'.actions = <<>> /\ switching' = FALSE
        /\ rows' = rows /\ opened' = opened /\ stored' = stored
        /\ primary' = primary /\ fallback' = fallback
    BY <1>16 DEF Cut, NoAnswer
  <2>3. run' \in Run /\ run'.at = "idle" /\ run'.sid = None /\ run'.round \in 0..MaxIterations
    BY <1>0, <2>2, NoRunIs
  <2>4. TranscriptTyped'
    BY <1>0, <2>1, <2>2, <2>3, SameSessions
  <2> QED  BY <2>3, <2>4 DEF Room
<1>17. CASE UNCHANGED transcriptVars
  BY <1>17 DEF transcriptVars, TranscriptTyped, TranscriptTypeOK, Room
<1> QED
  BY <1>1, <1>2, <1>3, <1>4, <1>5, <1>6, <1>7, <1>8, <1>9, <1>10, <1>11, <1>12, <1>13, <1>14,
     <1>15, <1>16, <1>17 DEF TranscriptNext

-----------------------------------------------------------------------------
(* What is on record *)

\* A session whose results have ids, with one more row.
LEMMA UntaggedGrows ==
  ASSUME TranscriptTyped, NEW s \in Sessions, NEW row \in Messages, Add(s, row)
  PROVE  /\ Untagged(s) => Untagged(s)'
         /\ ~Untagged(s)' => (row.is = "result" => row.tagged)
         /\ \A t \in Sessions \ {s} : Untagged(t)' <=> Untagged(t)
<1>1. /\ rows'[s] = Append(rows[s], row) /\ rows[s] \in Seq(Messages)
      /\ \A t \in Sessions \ {s} : rows'[t] = rows[t]
  BY AddIs
<1>2. /\ DOMAIN rows'[s] = DOMAIN rows[s] \cup {Len(rows[s]) + 1}
      /\ \A i \in DOMAIN rows[s] : rows'[s][i] = rows[s][i]
      /\ rows'[s][Len(rows[s]) + 1] = row
  BY <1>1, RowAppended
<1> QED  BY <1>1, <1>2 DEF Untagged

\* What CarryOut does, in the three ways it goes on.
CarriesOn(said) ==
  \/ /\ run.done + 1 < Len(run.calls) /\ run'.at = "tools" /\ run'.calls = run.calls
     /\ run'.done = run.done + 1 /\ run'.messages = said /\ run'.sid = run.sid
  \/ run.done + 1 = Len(run.calls) /\ run'.at = "failed" /\ run'.sid = run.sid
  \/ run.done + 1 = Len(run.calls) /\ run'.at = "call" /\ run'.messages = said /\ run'.sid = run.sid

LEMMA CarryOutIs ==
  ASSUME TranscriptTyped, Room, CarryOut
  PROVE  LET tool == run.calls[run.done + 1]
         IN  /\ run.sid \in Sessions /\ run.at = "tools" /\ run.calls \in Batches
             /\ run.done \in Nat /\ run.done < Len(run.calls)
             /\ tool \in Tools \cup Actions /\ Put(tool)
             /\ Result(tool, TRUE) \in Messages /\ Result(tool, Tagged) \in Messages
             /\ Add(run.sid, Result(tool, Tagged))
             /\ CarriesOn(Append(run.messages, Result(tool, TRUE)))
<1> DEFINE tool == run.calls[run.done + 1]
           said == Append(run.messages, Result(tool, TRUE))
<1>1. run \in Run /\ run.at = "tools" /\ run.sid \in Sessions /\ run.calls \in Batches
        /\ run.done \in Nat /\ run.done < Len(run.calls)
  BY RunSession DEF CarryOut, RunAt, Room, TranscriptTyped, TranscriptTypeOK, Run
<1>2. tool \in Tools \cup Actions
  BY <1>1, BatchesAre
<1>3. Result(tool, TRUE) \in Messages /\ Result(tool, Tagged) \in Messages
  BY <1>2, RowsAre DEF Tagged
<1>4. /\ Put(tool) /\ Add(run.sid, Result(tool, Tagged))
      /\ \/ /\ run.done + 1 < Len(run.calls)
            /\ run' = [run EXCEPT !.done = run.done + 1, !.messages = said]
         \/ /\ run.done + 1 = Len(run.calls)
            /\ IF LastRound THEN Leave("failed")
               ELSE run' = [run EXCEPT !.at = "call", !.round = run.round + 1,
                              !.messages = said, !.calls = <<>>, !.done = 0]
  BY DEF CarryOut
<1> HIDE DEF tool, said
<1>5. ASSUME run.done + 1 < Len(run.calls), run' = [run EXCEPT !.done = run.done + 1, !.messages = said]
      PROVE  CarriesOn(said)
  <2>1. /\ run'.at = "tools" /\ run'.calls = run.calls /\ run'.done = run.done + 1
        /\ run'.messages = said /\ run'.sid = run.sid
    BY <1>1, <1>5 DEF Run
  <2> QED  BY <1>5, <2>1 DEF CarriesOn
<1>6. ASSUME run.done + 1 = Len(run.calls), Leave("failed")
      PROVE  CarriesOn(said)
  <2>1. run'.at = "failed" /\ run'.sid = run.sid
    BY <1>1, <1>6, LeaveIs, NothingIs
  <2> QED  BY <1>6, <2>1 DEF CarriesOn
<1>7. ASSUME run.done + 1 = Len(run.calls),
             run' = [run EXCEPT !.at = "call", !.round = run.round + 1,
                       !.messages = said, !.calls = <<>>, !.done = 0]
      PROVE  CarriesOn(said)
  <2>1. run'.at = "call" /\ run'.messages = said /\ run'.sid = run.sid
    BY <1>1, <1>7 DEF Run
  <2> QED  BY <1>7, <2>1 DEF CarriesOn
<1>8. CarriesOn(said)
  BY <1>4, <1>5, <1>6, <1>7
<1> QED  BY <1>1, <1>2, <1>3, <1>4, <1>8 DEF tool, said

LEMMA AskIs ==
  ASSUME TranscriptTyped, Ask
  PROVE  \E calls \in Batches :
           /\ run.at = "call" /\ run.sid \in Sessions /\ Add(run.sid, Asked(calls))
           /\ run'.at = "tools" /\ run'.sid = run.sid /\ run'.calls = calls /\ run'.done = 0
           /\ run'.messages = Append(run.messages, Asked(calls)) /\ Asked(calls) \in Messages
<1>1. PICK calls \in Batches :
        /\ Add(run.sid, Asked(calls))
        /\ run' = [run EXCEPT !.at = "tools", !.calls = calls, !.done = 0,
                              !.messages = Append(run.messages, Asked(calls))]
  BY DEF Ask
<1>2. run.at = "call" /\ run.sid \in Sessions /\ run \in Run
  BY RunSession DEF Ask, RunAt, TranscriptTyped
<1> QED  BY <1>1, <1>2, RowsAre DEF Run

LEMMA PersistPromptIs ==
  ASSUME TranscriptTyped, PersistPrompt
  PROVE  /\ run.at = "prompt" /\ run.sid \in Sessions /\ Add(run.sid, Prompt)
         /\ run'.at = "call" /\ run'.sid = run.sid
         /\ run'.messages = Append(run.messages, Prompt) /\ Prompt \in Messages
<1>1. run.at = "prompt" /\ run.sid \in Sessions /\ run \in Run
  BY RunSession DEF PersistPrompt, RunAt, TranscriptTyped
<1> QED  BY <1>1, RowsAre DEF PersistPrompt, Run

LEMMA ConcludeIs ==
  ASSUME TranscriptTyped, Conclude
  PROVE  /\ run.at = "call" /\ run.sid \in Sessions /\ Add(run.sid, Text(blocks))
         /\ run'.at = "done" /\ run'.sid = run.sid /\ Text(blocks) \in Messages
         /\ Text(blocks).is = "text" /\ blocks \in Seq(Actions)
<1>1. run.at = "call" /\ run.sid \in Sessions /\ run \in Run
  BY RunSession DEF Conclude, RunAt, TranscriptTyped
<1>2. run'.at = "done" /\ run'.sid = run.sid
  BY <1>1, LeaveIs, NothingIs DEF Conclude
<1>3. blocks \in Seq(Actions)
  BY DEF TranscriptTyped, TranscriptTypeOK
<1> QED  BY <1>1, <1>2, <1>3, RowsAre DEF Conclude, Text

\* The steps that add no row do not enter the loop with a call, but for Load.
Aside ==
  \/ Begin \/ Load \/ CallFails \/ RowFails \/ CliAnswers \/ CliFails \/ FallBack \/ GiveUp
  \/ Return \/ (\E setup \in Setups : Switch(setup)) \/ Invalidate \/ Cut \/ UNCHANGED transcriptVars

LEMMA AsideIs ==
  ASSUME TranscriptTyped, Aside
  PROVE  /\ rows' = rows /\ torn \subseteq torn'
         /\ \/ run' = run /\ blocks' = blocks
            \/ run'.at \in {"idle", "cli", "failed", "done"}
            \/ run'.at = "load" /\ blocks' = <<>>
            \/ Load
         /\ run' = run \/ (run.at = "tools" => run.sid \in torn') \/ CallFails
<1> USE DEF RunAt, database, providers, bounds
<1>1. run \in Run
  BY DEF TranscriptTyped
<1>2. CASE Begin
  <2>1. run'.at \in {"cli", "load"}
    <3>1. primary \in Kinds /\ stored \in 0..opened \cup {None}
      BY SessionsAre DEF TranscriptTyped, TranscriptTypeOK
    <3> QED  BY <1>2, <3>1, EnterIs DEF Begin, TranscriptTyped
  <2> QED  BY <1>2, <2>1 DEF Begin, NoBlocks
<1>3. CASE FallBack
  <2>1. run'.at \in {"cli", "load"}
    <3>1. fallback \in Kinds /\ run.spent \in BOOLEAN
      BY <1>1, <1>3, SessionsAre DEF FallBack, TranscriptTyped, Run
    <3> QED  BY <1>3, <3>1, EnterIs DEF FallBack, TranscriptTyped
  <2> QED  BY <1>3, <2>1 DEF FallBack, NoBlocks
<1>4. CASE Load
  BY <1>4 DEF Load
<1>5. CASE CallFails \/ GiveUp
  BY <1>1, <1>5, LeaveIs, NothingIs DEF CallFails, GiveUp
<1>6. CASE RowFails
  BY <1>1, <1>6, LeaveIs, NothingIs DEF RowFails
<1>7. CASE CliAnswers \/ CliFails
  BY <1>1, <1>7 DEF CliAnswers, CliFails, Run
<1>8. CASE Return \/ Cut
  BY <1>8, NoRunIs DEF Return, Cut
<1>9. CASE (\E setup \in Setups : Switch(setup)) \/ Invalidate \/ UNCHANGED transcriptVars
  BY <1>9 DEF Switch, Invalidate, transcriptVars
<1> QED  BY <1>2, <1>3, <1>4, <1>5, <1>6, <1>7, <1>8, <1>9 DEF Aside

LEMMA StepsAre ==
  ASSUME [TranscriptNext]_transcriptVars
  PROVE  PersistPrompt \/ Ask \/ CarryOut \/ Conclude \/ Aside
BY DEF TranscriptNext, Aside

LEMMA RecordedStep ==
  ASSUME TranscriptTyped, Room, Recorded, [TranscriptNext]_transcriptVars
  PROVE  Recorded'
<1>0. run \in Run /\ rows \in [Sessions -> Seq(Messages)]
  BY DEF TranscriptTyped
<1>1. \* a row that is added to both
      ASSUME run.at \in {"prompt", "call", "tools"}, NEW s \in Sessions, run.sid = s,
             NEW row \in Messages, NEW kept \in Messages, Add(s, kept),
             kept = row \/ (kept.is = "result" /\ ~kept.tagged),
             run'.sid = s, run'.messages = Append(run.messages, row)
      PROVE  Recorded'
  <2>1. rows'[s] = Append(rows[s], kept)
    BY <1>1, AddIs
  <2>2. ~Untagged(s)' => ~Untagged(s) /\ kept = row
    BY <1>1, UntaggedGrows
  <2>3. ~Untagged(s) => run.messages = rows[s]
    BY <1>1 DEF Recorded
  <2>4. ~Untagged(s)' => run'.messages = rows'[s]
    BY <1>1, <2>1, <2>2, <2>3
  <2> QED  BY <1>1, <2>4 DEF Recorded, Untagged
<1>2. CASE PersistPrompt
  BY <1>1, <1>2, PersistPromptIs
<1>3. CASE Ask
  BY <1>1, <1>3, AskIs
<1>4. CASE CarryOut
  <2> DEFINE tool == run.calls[run.done + 1]
             said == Append(run.messages, Result(tool, TRUE))
  <2>1. /\ run.sid \in Sessions /\ run.at = "tools" /\ CarriesOn(said)
        /\ Result(tool, TRUE) \in Messages /\ Result(tool, Tagged) \in Messages
        /\ Add(run.sid, Result(tool, Tagged))
    BY <1>4, CarryOutIs
  <2>2. \/ Result(tool, Tagged) = Result(tool, TRUE)
        \/ Result(tool, Tagged).is = "result" /\ ~Result(tool, Tagged).tagged
    BY DEF Result, Tagged
  <2>3. CASE run'.at = "failed"
    BY <2>3 DEF Recorded
  <2>4. CASE run'.at # "failed"
    <3>1. run'.sid = run.sid /\ run'.messages = said
      BY <2>1, <2>4 DEF CarriesOn
    <3> QED  BY <1>1, <2>1, <2>2, <3>1
  <2> QED  BY <2>3, <2>4
<1>5. CASE Conclude
  BY <1>5, ConcludeIs DEF Recorded
<1>6. CASE Load
  <2>1. CASE run.sid # None
    <3>1. run.sid \in Sessions
      BY <1>6, <2>1, SessionsAre DEF Load, RunAt, Room, TranscriptTyped, TranscriptTypeOK, CliId
    <3>2. /\ run' = [run EXCEPT !.at = "prompt", !.messages = Convert(rows[run.sid])]
          /\ rows' = rows
      BY <1>6, <2>1 DEF Load
    <3>3. run'.sid = run.sid /\ run'.messages = Convert(rows[run.sid])
      BY <1>0, <3>2 DEF Run
    <3>4. ~Untagged(run.sid) => Convert(rows[run.sid]) = rows[run.sid]
      BY <1>0, <3>1, ConvertIs DEF Untagged
    <3> QED  BY <3>2, <3>3, <3>4 DEF Recorded, Untagged
  <2>2. CASE run.sid = None
    <3>1. /\ run' = [run EXCEPT !.at = "prompt", !.sid = opened + 1]
          /\ rows' = rows /\ opened' = opened + 1 /\ run.messages = <<>>
      BY <1>6, <2>2 DEF Load, Room, RunAt
    <3>2. run'.sid = opened + 1 /\ run'.messages = <<>> /\ run'.at = "prompt"
      BY <1>0, <3>1 DEF Run
    <3>3. opened + 1 \in Sessions /\ opened + 1 > opened
      <4>1. opened + 1 <= MaxSessions
        BY <1>6, <2>2, SessionsAre DEF Room, Load, RunAt, TranscriptTyped
      <4> QED  BY <4>1, SessionsAre DEF TranscriptTyped, Sessions
    <3>4. rows[opened + 1] = <<>>
      BY <3>3 DEF TranscriptTyped, TranscriptTypeOK
    <3> QED  BY <3>1, <3>2, <3>4 DEF Recorded
  <2> QED  BY <2>1, <2>2
<1>7. CASE Aside /\ ~Load
  <2>1. rows' = rows /\ (run' = run \/ run'.at \notin {"prompt", "call", "tools"})
    BY <1>7, AsideIs
  <2> QED  BY <2>1 DEF Recorded, Untagged
<1> QED  BY <1>2, <1>3, <1>4, <1>5, <1>6, <1>7, StepsAre

LEMMA TranscribedStep ==
  ASSUME TranscriptTyped, Room, Transcribed, [TranscriptNext]_transcriptVars
  PROVE  Transcribed'
<1>0. rows \in [Sessions -> Seq(Messages)] /\ TranscriptTyped' /\ Room'
  BY TranscriptTypeStep DEF TranscriptTyped
<1> DEFINE Good(s) == s \notin torn /\ ~Untagged(s) =>
             IF InTools(s) THEN AnsweredSoFar(rows[s], run.calls, run.done) ELSE Answered(rows[s])
<1>1. \* the other sessions, when one is given a row
      ASSUME NEW row \in Messages, NEW t \in Sessions, t = run.sid, Add(t, row), torn' = torn,
             run'.sid = t, Good(t)'
      PROVE  Transcribed'
  <2> SUFFICES ASSUME NEW s \in Sessions  PROVE Good(s)'
    BY DEF Transcribed
  <2>1. CASE s = t
    BY <1>1, <2>1
  <2>2. CASE s # t
    <3>1. rows'[s] = rows[s]
      BY <1>1, <2>2, AddIs
    <3>2. Good(s) /\ ~InTools(s) /\ ~InTools(s)'
      BY <1>1, <2>2 DEF InTools, Transcribed
    <3> QED  BY <1>1, <3>1, <3>2 DEF Untagged
  <2> QED  BY <2>1, <2>2
<1>2. CASE PersistPrompt
  <2>0. PICK s \in Sessions : s = run.sid
    BY <1>2, PersistPromptIs
  <2>1. /\ s \in Sessions /\ Add(s, Prompt) /\ Prompt \in Messages /\ torn' = torn
        /\ run'.sid = s /\ run.at = "prompt" /\ run'.at = "call"
    BY <1>2, <2>0, PersistPromptIs DEF PersistPrompt
  <2>2. rows'[s] = Append(rows[s], Prompt) /\ rows[s] \in Seq(Messages)
    BY <2>1, AddIs
  <2>3. ~Untagged(s)' => ~Untagged(s)
    BY <2>1, UntaggedGrows
  <2>4. ~InTools(s) /\ ~InTools(s)'
    BY <2>0, <2>1 DEF InTools
  <2>5. Answered(rows[s]) => Answered(rows'[s])
    BY <2>1, <2>2, AnsweredStays DEF Prompt
  <2>6. Good(s)
    BY <2>1 DEF Transcribed
  <2>7. Good(s)'
    BY <2>1, <2>3, <2>4, <2>5, <2>6 DEF Answered
  <2> QED  BY <1>1, <2>0, <2>1, <2>7
<1>3. CASE Ask
  <2>0. PICK s \in Sessions : s = run.sid
    BY <1>3, AskIs
  <2>1. PICK calls \in Batches :
          /\ run.at = "call" /\ s \in Sessions /\ Add(s, Asked(calls))
          /\ run'.at = "tools" /\ run'.sid = s /\ run'.calls = calls /\ run'.done = 0
          /\ Asked(calls) \in Messages
    BY <1>3, <2>0, AskIs
  <2>2. rows'[s] = Append(rows[s], Asked(calls)) /\ rows[s] \in Seq(Messages)
    BY <2>1, AddIs
  <2>3. ~Untagged(s)' => ~Untagged(s)
    BY <2>1, UntaggedGrows
  <2>4. ~InTools(s) /\ InTools(s)' /\ torn' = torn
    BY <1>3, <2>0, <2>1 DEF InTools, Ask
  <2>5. Answered(rows[s]) => AnsweredSoFar(rows'[s], calls, 0)
    BY <2>2, AnsweredAsked
  <2>6. Good(s)
    BY <2>1 DEF Transcribed
  <2>7. Good(s)'
    BY <2>1, <2>3, <2>4, <2>5, <2>6
  <2> QED  BY <1>1, <2>0, <2>1, <2>4, <2>7
<1>4. CASE CarryOut
  <2>0. PICK s \in Sessions : s = run.sid
    BY <1>4, CarryOutIs
  <2> DEFINE tool == run.calls[run.done + 1]
             said == Append(run.messages, Result(tool, TRUE))
  <2>1. /\ s \in Sessions /\ run.at = "tools" /\ CarriesOn(said) /\ run.calls \in Batches
        /\ run.done \in Nat /\ run.done < Len(run.calls)
        /\ Result(tool, TRUE) \in Messages /\ Result(tool, Tagged) \in Messages
        /\ Add(s, Result(tool, Tagged))
    BY <1>4, <2>0, CarryOutIs
  <2>2. rows'[s] = Append(rows[s], Result(tool, Tagged)) /\ rows[s] \in Seq(Messages)
    BY <2>1, AddIs
  <2>3. ~Untagged(s)' => ~Untagged(s) /\ Result(tool, Tagged).tagged
    BY <2>1, UntaggedGrows DEF Result
  <2>4. ~Untagged(s)' => Result(tool, Tagged) = Result(tool, TRUE)
    BY <2>3 DEF Result, Tagged
  <2>5. InTools(s) /\ torn' = torn /\ run'.sid = s
    BY <1>4, <2>0, <2>1 DEF InTools, CarryOut, CarriesOn
  <2>6. Good(s)
    BY <2>1 DEF Transcribed
  <2>7. s \notin torn' /\ ~Untagged(s)' => AnsweredSoFar(rows'[s], run.calls, run.done + 1)
    BY <2>1, <2>2, <2>3, <2>4, <2>5, <2>6, AnsweredNext
  <2>8. rows'[s] \in Seq(Messages)
    BY <1>0, <2>1 DEF TranscriptTyped
  <2>9. CASE run'.at = "tools"
    <3>1. InTools(s)' /\ run'.calls = run.calls /\ run'.done = run.done + 1
      BY <2>0, <2>1, <2>5, <2>9 DEF InTools, CarriesOn
    <3>2. Good(s)'
      BY <2>7, <3>1
    <3> QED  BY <1>1, <2>0, <2>1, <2>5, <3>2
  <2>10. CASE run'.at # "tools"
    <3>1. ~InTools(s)' /\ run.done + 1 = Len(run.calls)
      BY <2>0, <2>1, <2>10 DEF InTools, CarriesOn
    <3>2. Good(s)'
      BY <2>1, <2>7, <2>8, <3>1, AnsweredAll
    <3> QED  BY <1>1, <2>0, <2>1, <2>5, <3>2
  <2> QED  BY <2>9, <2>10
<1>5. CASE Conclude
  <2>0. PICK s \in Sessions : s = run.sid
    BY <1>5, ConcludeIs
  <2>1. /\ s \in Sessions /\ Add(s, Text(blocks)) /\ Text(blocks) \in Messages /\ torn' = torn
        /\ run'.sid = s /\ run.at = "call" /\ run'.at = "done" /\ Text(blocks).is = "text"
    BY <1>5, <2>0, ConcludeIs DEF Conclude
  <2>2. rows'[s] = Append(rows[s], Text(blocks)) /\ rows[s] \in Seq(Messages)
    BY <2>1, AddIs
  <2>3. ~Untagged(s)' => ~Untagged(s)
    BY <2>1, UntaggedGrows
  <2>4. ~InTools(s) /\ ~InTools(s)'
    BY <2>0, <2>1 DEF InTools
  <2>5. Answered(rows[s]) => Answered(rows'[s])
    BY <2>1, <2>2, AnsweredStays
  <2>6. Good(s)
    BY <2>1 DEF Transcribed
  <2>7. Good(s)'
    BY <2>1, <2>3, <2>4, <2>5, <2>6
  <2> QED  BY <1>1, <2>0, <2>1, <2>7
<1>6. CASE Aside
  <2>1. rows' = rows /\ torn \subseteq torn'
    BY <1>6, AsideIs
  <2> SUFFICES ASSUME NEW s \in Sessions  PROVE Good(s)'
    BY DEF Transcribed
  <2>2. Good(s) /\ Untagged(s)' = Untagged(s)
    BY <2>1 DEF Transcribed, Untagged
  <2>3. CASE run' = run
    BY <2>1, <2>2, <2>3 DEF InTools
  <2>4. CASE run' # run
    <3>1. ~InTools(s)'
      <4>1. Load => run'.at = "prompt"
        BY DEF Load, Run, TranscriptTyped
      <4> QED  BY <1>6, <2>4, <4>1, AsideIs DEF InTools
    <3>2. InTools(s) => s \in torn'
      BY <1>6, <2>4, AsideIs DEF InTools, CallFails, RunAt
    <3> QED  BY <2>1, <2>2, <3>1, <3>2
  <2> QED  BY <2>3, <2>4
<1> QED  BY <1>2, <1>3, <1>4, <1>5, <1>6, StepsAre

LEMMA AsideAnswers ==
  ASSUME TranscriptTyped, Aside, run'.at = "done"
  PROVE  (run' = run /\ answer' = answer) \/ answer'.error \/ run'.sid = CliId
<1> USE DEF RunAt
<1>1. run \in Run
  BY DEF TranscriptTyped
<1>2. CASE GiveUp
  BY <1>2 DEF GiveUp
<1>3. CASE CliAnswers
  BY <1>1, <1>3 DEF CliAnswers, Run
<1>4. CASE (\E setup \in Setups : Switch(setup)) \/ Invalidate \/ UNCHANGED transcriptVars
  BY <1>4 DEF Switch, Invalidate, transcriptVars
<1>5. CASE Return \/ Cut
  BY <1>5 DEF Return, Cut, NoAnswer
<1>6. CASE CallFails \/ RowFails \/ CliFails \/ Load
  BY <1>1, <1>6, LeaveIs, NothingIs DEF CallFails, RowFails, CliFails, Load, Run
<1>7. CASE Begin
  <2>1. primary \in Kinds /\ stored \in 0..opened \cup {None}
    BY SessionsAre DEF TranscriptTyped, TranscriptTypeOK
  <2> QED  BY <1>7, <2>1, EnterIs DEF Begin, TranscriptTyped
<1>8. CASE FallBack
  <2>1. fallback \in Kinds /\ run.spent \in BOOLEAN
    BY <1>1, <1>8, SessionsAre DEF FallBack, TranscriptTyped, Run
  <2> QED  BY <1>8, <2>1, EnterIs DEF FallBack, TranscriptTyped
<1> QED  BY <1>2, <1>3, <1>4, <1>5, <1>6, <1>7, <1>8 DEF Aside

LEMMA PutAsideStep ==
  ASSUME TranscriptTyped, Room, PutAside, QueuedIsHandled, [TranscriptNext]_transcriptVars
  PROVE  PutAside' /\ QueuedIsHandled'
<1>0. blocks \in Seq(Actions) /\ run \in Run /\ Tools \cap Actions = {}
  BY TranscriptAssumption DEF TranscriptTyped, TranscriptTypeOK
<1>1. CASE PersistPrompt
  <2>1. /\ run.at = "prompt" /\ run.sid \in Sessions /\ Add(run.sid, Prompt) /\ Prompt \in Messages
        /\ run'.at = "call" /\ run'.sid = run.sid /\ blocks' = blocks
    BY <1>1, PersistPromptIs DEF PersistPrompt
  <2>2. rows'[run.sid] = Append(rows[run.sid], Prompt) /\ rows[run.sid] \in Seq(Messages)
    BY <2>1, AddIs
  <2>3. Lists(blocks', rows'[run'.sid])
    BY <2>1, <2>2, NothingQueued DEF PutAside
  <2> QED  BY <2>1, <2>3 DEF PutAside, QueuedIsHandled, RunAt
<1>2. CASE Ask
  <2>1. PICK calls \in Batches :
          /\ run.at = "call" /\ run.sid \in Sessions /\ Add(run.sid, Asked(calls))
          /\ run'.at = "tools" /\ run'.sid = run.sid /\ Asked(calls) \in Messages
    BY <1>2, AskIs
  <2>2. rows'[run.sid] = Append(rows[run.sid], Asked(calls)) /\ rows[run.sid] \in Seq(Messages)
    BY <2>1, AddIs
  <2>3. ~IsPrompt(Asked(calls)) /\ ~IsAction(Asked(calls))
    BY DEF IsPrompt, IsAction, Asked
  <2>4. blocks' = blocks /\ Lists(blocks, rows[run.sid])
    BY <1>2, <2>1 DEF Ask, PutAside
  <2>5. Lists(blocks', rows'[run'.sid])
    BY <1>0, <2>1, <2>2, <2>3, <2>4, ListsStay
  <2> QED  BY <2>1, <2>5 DEF PutAside, QueuedIsHandled, RunAt
<1>3. CASE CarryOut
  <2> DEFINE tool == run.calls[run.done + 1]
             said == Append(run.messages, Result(tool, TRUE))
  <2>1. /\ run.sid \in Sessions /\ run.at = "tools" /\ CarriesOn(said)
        /\ tool \in Tools \cup Actions /\ Put(tool)
        /\ Result(tool, Tagged) \in Messages /\ Add(run.sid, Result(tool, Tagged))
    BY <1>3, CarryOutIs
  <2>2. rows'[run.sid] = Append(rows[run.sid], Result(tool, Tagged)) /\ rows[run.sid] \in Seq(Messages)
    BY <2>1, AddIs
  <2>3. Lists(blocks, rows[run.sid])
    BY <2>1 DEF PutAside
  <2>4. run'.sid = run.sid /\ run'.at \in {"tools", "failed", "call"}
    BY <2>1 DEF CarriesOn
  <2> HIDE DEF tool, said
  <2>5. Lists(blocks', rows'[run.sid])
    <3>1. CASE tool \in Actions
      <4>1. blocks' = Append(blocks, tool) /\ Tagged \in BOOLEAN
        BY <2>1, <3>1 DEF Put, Tagged
      <4> QED  BY <1>0, <2>2, <2>3, <3>1, <4>1, ListsMore
    <3>2. CASE tool \notin Actions
      <4>1. blocks' = blocks
        BY <2>1, <3>2 DEF Put
      <4>2. ~IsPrompt(Result(tool, Tagged)) /\ ~IsAction(Result(tool, Tagged))
        BY <3>2 DEF IsPrompt, IsAction, Result
      <4> QED  BY <1>0, <2>1, <2>2, <2>3, <4>1, <4>2, ListsStay
    <3> QED  BY <3>1, <3>2
  <2> QED  BY <2>4, <2>5 DEF PutAside, QueuedIsHandled, RunAt
<1>4. CASE Conclude
  <2>1. /\ run.at = "call" /\ run.sid \in Sessions /\ Add(run.sid, Text(blocks))
        /\ run'.at = "done" /\ run'.sid = run.sid /\ Text(blocks) \in Messages
        /\ answer'.actions = blocks
    BY <1>4, ConcludeIs DEF Conclude
  <2>2. rows'[run.sid] = Append(rows[run.sid], Text(blocks)) /\ rows[run.sid] \in Seq(Messages)
    BY <2>1, AddIs
  <2>3. ~IsPrompt(Text(blocks)) /\ ~IsAction(Text(blocks))
    BY DEF IsPrompt, IsAction, Text
  <2>4. Lists(blocks, rows[run.sid])
    BY <2>1 DEF PutAside
  <2>5. Lists(answer'.actions, rows'[run'.sid])
    BY <1>0, <2>1, <2>2, <2>3, <2>4, ListsStay
  <2> QED  BY <2>1, <2>5 DEF PutAside, QueuedIsHandled, RunAt
<1>5. CASE Load
  <2>1. run'.at = "prompt" /\ blocks' = blocks /\ run.at = "load"
    BY <1>0, <1>5 DEF Load, Run, RunAt
  <2> QED  BY <2>1 DEF PutAside, QueuedIsHandled, RunAt
<1>6. CASE Aside /\ ~Load
  <2>1. /\ rows' = rows
        /\ \/ run' = run /\ blocks' = blocks
           \/ run'.at \in {"idle", "cli", "failed", "done"}
           \/ run'.at = "load" /\ blocks' = <<>>
    BY <1>6, AsideIs
  <2>2. PutAside'
    BY <2>1 DEF PutAside
  <2>3. QueuedIsHandled'
    BY <1>6, <2>1, AsideAnswers DEF QueuedIsHandled, RunAt
  <2> QED  BY <2>2, <2>3
<1> QED  BY <1>1, <1>2, <1>3, <1>4, <1>5, <1>6, StepsAre

-----------------------------------------------------------------------------
(* The theorems *)

LEMMA TranscriptStarts ==
  ASSUME TranscriptInit  PROVE TranscriptInv
<1> USE DEF TranscriptInit
<1>1. run \in Run /\ run.at = "idle" /\ run.sid = None /\ run.round = 0
  BY NoRunIs
<1>2. /\ 0 \in 0..MaxSessions /\ 0 \in 0..MaxIterations /\ \A setup \in Setups : setup = <<setup[1], setup[2]>>
  BY TranscriptAssumption
<1>3. rows \in [Sessions -> Seq(Messages)] /\ DOMAIN rows = Sessions /\ \A s \in Sessions : rows[s] = <<>>
  BY NothingIs
<1>4. stored \in 0..opened \cup {None} /\ <<>> \in Seq(Actions) /\ answer.actions = <<>>
  BY DEF CliId, NoAnswer
<1>5. TranscriptTyped
  BY <1>1, <1>2, <1>3, <1>4 DEF TranscriptTyped, TranscriptTypeOK, Run
<1>6. Transcribed
  BY <1>1, <1>3 DEF Transcribed, InTools, Answered
<1> QED
  BY <1>1, <1>5, <1>6 DEF TranscriptInv, Room, Recorded, PutAside, QueuedIsHandled, RunAt

LEMMA TranscriptInvariant ==
  TranscriptSpec => []TranscriptInv
<1>1. TranscriptInit => TranscriptInv
  BY TranscriptStarts
<1>2. TranscriptInv /\ [TranscriptNext]_transcriptVars => TranscriptInv'
  BY TranscriptTypeStep, RecordedStep, TranscribedStep, PutAsideStep DEF TranscriptInv
<1> QED  BY <1>1, <1>2, PTL DEF TranscriptSpec

\* What the session rows, the providers and an invocation keep has its type at every
\* step, for any tools, batches of calls, sessions, failures and rounds of the loop.
THEOREM TranscriptTypeCorrect == TranscriptSpec => []TranscriptTypeOK
<1>1. TranscriptInv => TranscriptTypeOK
  BY DEF TranscriptInv, TranscriptTyped
<1> QED  BY <1>1, TranscriptInvariant, PTL

\* Whatever _run_iterations sends to an API answers every call it has made: a
\* session that a provider opened, another was switched to, or an error or a
\* cancellation left behind is whole again when it is sent, unless its results have
\* no ids or it was cut off in its tool loop.
THEOREM TranscriptsAnswer == TranscriptSpec => []SentIsAnswered
<1>1. TranscriptInv => SentIsAnswered
  <2> SUFFICES ASSUME TranscriptInv, RunAt("call"), run.sid \notin torn, ~Untagged(run.sid)
               PROVE  Answered(run.messages)
    BY DEF SentIsAnswered
  <2>1. run.at = "call" /\ run.sid \in Sessions /\ ~InTools(run.sid)
    BY RunSession DEF TranscriptInv, RunAt, InTools
  <2>2. run.messages = rows[run.sid]
    BY <2>1 DEF TranscriptInv, Recorded
  <2>3. Answered(rows[run.sid])
    BY <2>1 DEF TranscriptInv, Transcribed
  <2> QED  BY <2>2, <2>3
<1> QED  BY <1>1, TranscriptInvariant, PTL

\* The blocks that an invocation returns to the ActionHandler are the actions the
\* model was told are queued, each of them once and in order.
THEOREM QueuedActionsAreHandled == TranscriptSpec => []QueuedIsHandled
<1>1. TranscriptInv => QueuedIsHandled
  BY DEF TranscriptInv
<1> QED  BY <1>1, TranscriptInvariant, PTL
=============================================================================
