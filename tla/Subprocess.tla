----------------------------- MODULE Subprocess -----------------------------
(***************************************************************************)
(* core/subprocess_manager.py: how agents run the Claude CLI, share one    *)
(* check of its login, and are held until the user logs in again; with the *)
(* invocations of Agent.process_message (timeouts, health checks, a lost   *)
(* session), the hold in the message loop and the route /sessions/reauth.  *)
(*                                                                         *)
(* An agent makes one invocation at a time. A step is what a coroutine     *)
(* does between two awaits at which it really waits. Times are reduced to  *)
(* whether the last success is within its TTL and the last failure within  *)
(* its cooldown: either may lapse at any moment.                           *)
(***************************************************************************)
EXTENDS Naturals, Sequences, SequencesExt

CONSTANTS
  Agents,   \* agents of the project that is viewed
  Registry, \* the order the registry lists them in
  Troubled  \* bound: agents whose processes may hang, lose their session or
            \* answer with unknown actions, and whose task may be closed

ASSUME SubprocessAssumption ==
  /\ Registry \in Seq(Agents) /\ ToSet(Registry) = Agents
  /\ Troubled \subseteq Agents

VARIABLES
  call,      \* call[a]: where the agent's coroutine is, for which invocation
  proc,      \* proc[a]: _current_proc, or the output it left
  cancelled, \* agents with _task_cancelled
  waiting,   \* _auth_lock: who has it, then who waits for it, in order
  refreshed, \* _auth_refreshed_at is within _AUTH_SUCCESS_TTL
  failed,    \* _auth_failed_at is within _AUTH_FAILURE_COOLDOWN
  pending,   \* agents whose status is PENDING_REAUTH
  flag,      \* Agent._auth_event_broadcast
  dialog,    \* the user is asked to log in: auth_required, then auth_restored
  token,     \* the CLI's token is valid
  reauth,    \* the request that logs in: the agents it has yet to look at
  muted      \* history: the flag was set while a login was handed out

coroutines == <<call, proc, cancelled>>
checking == <<waiting, refreshed, failed>>
login == <<pending, flag, dialog, reauth, muted>>
vars == <<coroutines, checking, login, token>>

\* What process_message invokes the model for, and where an invocation may be.
Stages == {"first", "health", "again", "recheck", "fresh", "correct"}
Points == {"idle", "spawn", "run", "lock", "check", "unset", "record", "auth",
           "pending", "held"}

\* What a process prints: "denied" is any output that looks like a refused
\* login, an answer in which "401" happens to occur included.
Outputs == {"fine", "error", "denied", "lost"}
Results == Outputs \cup {"auth", "timeout"}

Calls == [at: Points, stage: Stages, retry: BOOLEAN]
Idle == [at |-> "idle", stage |-> "first", retry |-> FALSE]
NoReauth == [at |-> "none", left |-> <<>>]

TypeOK ==
  /\ call \in [Agents -> Calls]
  /\ proc \in [Agents -> {"none", "running", "killed"} \cup Outputs]
  /\ \A a \in Agents : proc[a] # "none" => call[a].at = "run"
  /\ cancelled \subseteq Agents /\ pending \subseteq Agents
  /\ waiting \in Seq(Agents) /\ IsInjective(waiting)
  /\ \A a \in Agents : a \in ToSet(waiting) <=> call[a].at \in {"lock", "check"}
  /\ {refreshed, failed, flag, dialog, token, muted} \subseteq BOOLEAN
  /\ reauth \in [at: {"none", "login", "resuming"}, left: Seq(Agents)]

Init ==
  /\ call = [a \in Agents |-> Idle]
  /\ proc = [a \in Agents |-> "none"]
  /\ cancelled = {} /\ pending = {}
  /\ waiting = <<>>
  /\ refreshed = FALSE /\ failed = FALSE
  /\ flag = FALSE /\ dialog = FALSE /\ token \in BOOLEAN
  /\ reauth = NoReauth /\ muted = FALSE

At(a, point) == call[a].at = point
Go(a, point) == call' = [call EXCEPT ![a].at = point]

-----------------------------------------------------------------------------
(* An invocation                                                           *)

\* SubprocessManager.invoke, called anew.
Start(a, stage) ==
  /\ call' = [call EXCEPT ![a] = [at |-> "spawn", stage |-> stage, retry |-> FALSE]]
  /\ UNCHANGED cancelled

\* Mutant: the second attempt may be followed by a third.
RetryAgain(a) ==
  call' = [call EXCEPT ![a] = [at |-> "spawn", stage |-> call[a].stage, retry |-> FALSE]]

\* The same invocation once more, after a check that found the login valid.
Retry(a) ==
  call' = [call EXCEPT ![a] = [at |-> "spawn", stage |-> call[a].stage, retry |-> TRUE]]

\* The message loop is through with the message; `finally` resets the flag.
Done(a) ==
  /\ call' = [call EXCEPT ![a] = Idle]
  /\ cancelled' = cancelled \ {a}

\* Mutant: not looked at between the health check and the second try.
SkipsUnlessHealthy(a, stage) == a \in cancelled /\ stage \notin {"health", "fresh", "correct"}

\* process_message looks at the flag after the first invocations, not after
\* the one without the lost session nor after the correction.
Skips(a, stage) == a \in cancelled /\ stage \notin {"fresh", "correct"}

\* process_message with what invoke returned: r = "auth" is [AUTH_ERROR].
Answer(a, r) ==
  LET stage == call[a].stage
      main  == stage \in {"first", "again", "fresh"}
      slow  == stage \in {"first", "again"} /\ r = "timeout"
      well  == stage = "health" /\ r = "fine"
      stale == stage \in {"first", "again"} /\ r = "lost"
  IN IF Skips(a, stage) THEN Done(a)
     ELSE \/ slow /\ Start(a, IF stage = "first" THEN "health" ELSE "recheck")
          \/ well /\ Start(a, "again")
          \/ stale /\ Go(a, "unset") /\ UNCHANGED cancelled
          \/ main /\ r = "auth" /\ Go(a, "auth") /\ UNCHANGED cancelled
          \/ main /\ r = "fine" /\ Go(a, "record") /\ UNCHANGED cancelled
          \/ ~(slow \/ well \/ stale) /\ ~(main /\ r \in {"auth", "fine"}) /\ Done(a)

\* The message loop takes a message.
Invoke(a) ==
  /\ At(a, "idle")
  /\ Start(a, "first")
  /\ UNCHANGED <<proc, checking, login, token>>

\* create_subprocess_exec: until it returns there is no process to cancel.
Spawn(a) ==
  /\ At(a, "spawn")
  /\ \/ /\ Go(a, "run")
        /\ proc' = [proc EXCEPT ![a] = "running"]
        /\ UNCHANGED cancelled
     \/ /\ Answer(a, "error")
        /\ UNCHANGED proc
  /\ UNCHANGED <<checking, login, token>>

\* The process ends by itself.
Exit(a) ==
  /\ proc[a] = "running"
  /\ \E out \in IF token THEN Outputs ELSE {"denied", "error"} :
       /\ out = "lost" => a \in Troubled /\ call[a].stage \in {"first", "again"}
       /\ proc' = [proc EXCEPT ![a] = out]
  /\ UNCHANGED <<call, cancelled, checking, login, token>>

\* Mutant: the process that is given up on is still the current one.
TimeoutKeepingProcess(a) ==
  /\ proc[a] = "running" /\ a \in Troubled
  /\ Answer(a, "timeout")
  /\ UNCHANGED <<proc, checking, login, token>>

\* wait_for gives up on a process and forgets it; the process goes on.
Timeout(a) ==
  /\ proc[a] = "running" /\ a \in Troubled
  /\ proc' = [proc EXCEPT ![a] = "none"]
  /\ Answer(a, "timeout")
  /\ UNCHANGED <<checking, login, token>>

\* invoke goes on with what the process left. Only the first attempt looks for
\* a refused login, and a success within the TTL spares it the check; the
\* second takes the output as it is.
Read(a) ==
  /\ proc[a] \notin {"none", "running"}
  /\ proc' = [proc EXCEPT ![a] = "none"]
  /\ LET out == IF proc[a] = "killed" THEN "error" ELSE proc[a]
     IN \/ /\ out # "denied"
           /\ Answer(a, out) /\ UNCHANGED waiting
        \/ /\ out = "denied" /\ call[a].retry
           /\ \E r \in {"fine", "error"} : (r = "fine" => token) /\ Answer(a, r)
           /\ UNCHANGED waiting
        \/ /\ out = "denied" /\ ~call[a].retry /\ refreshed
           /\ Retry(a) /\ UNCHANGED <<cancelled, waiting>>
        \/ /\ out = "denied" /\ ~call[a].retry /\ ~refreshed
           /\ Go(a, "lock")
           /\ waiting' = Append(waiting, a) /\ UNCHANGED cancelled
  /\ UNCHANGED <<refreshed, failed, login, token>>

\* The stale session id is erased before the model is invoked without one.
Unset(a) ==
  /\ At(a, "unset")
  /\ Start(a, "fresh")
  /\ UNCHANGED <<proc, checking, login, token>>

\* After the request is recorded: an answer with unknown actions is sent back
\* for correction, once, and kept if the correction fails.
Record(a) ==
  /\ At(a, "record")
  /\ Done(a) \/ (a \in Troubled /\ Start(a, "correct"))
  /\ UNCHANGED <<proc, checking, login, token>>

\* cancel_current_task, for an agent whose task was closed: a flag, and the
\* end of the process if there is one at this moment.
Cancel(a) ==
  /\ ~At(a, "idle") /\ a \in Troubled
  /\ cancelled' = cancelled \cup {a}
  /\ proc' = [proc EXCEPT ![a] = IF @ = "running" THEN "killed" ELSE @]
  /\ UNCHANGED <<call, checking, login, token>>

-----------------------------------------------------------------------------
(* The shared check of the login                                           *)

HasLock(a) == waiting # <<>> /\ Head(waiting) = a

\* Mutant: what the holder found out meanwhile is not looked at again.
LockUnchecked(a) ==
  /\ At(a, "lock") /\ HasLock(a)
  /\ \/ /\ failed
        /\ waiting' = Tail(waiting)
        /\ Answer(a, "auth")
     \/ /\ ~failed
        /\ Go(a, "check") /\ UNCHANGED <<waiting, cancelled>>
  /\ UNCHANGED <<proc, refreshed, failed, login, token>>

Lock(a) ==
  /\ At(a, "lock") /\ HasLock(a)
  /\ \/ /\ refreshed
        /\ waiting' = Tail(waiting)
        /\ Retry(a) /\ UNCHANGED cancelled
     \/ /\ ~refreshed /\ failed
        /\ waiting' = Tail(waiting)
        /\ Answer(a, "auth")
     \/ /\ ~refreshed /\ ~failed
        /\ Go(a, "check") /\ UNCHANGED <<waiting, cancelled>>
  /\ UNCHANGED <<proc, refreshed, failed, login, token>>

\* "claude auth status": a token that has expired may be refreshed by the CLI.
\* A timeout or an exception counts as a failure, whatever the token is.
Check(a) ==
  /\ At(a, "check")
  /\ waiting' = Tail(waiting)
  /\ \/ /\ token' = TRUE
        /\ refreshed' = TRUE
        /\ Retry(a) /\ UNCHANGED <<cancelled, failed>>
     \/ /\ failed' = TRUE
        /\ Answer(a, "auth") /\ UNCHANGED <<token, refreshed>>
  /\ UNCHANGED <<proc, login>>

Lapse ==
  /\ \/ refreshed /\ refreshed' = FALSE /\ UNCHANGED <<failed, token>>
     \/ failed /\ failed' = FALSE /\ UNCHANGED <<refreshed, token>>
     \/ token /\ token' = FALSE /\ UNCHANGED <<refreshed, failed>>
  /\ UNCHANGED <<coroutines, waiting, login>>

-----------------------------------------------------------------------------
(* Held until the user logs in                                             *)

\* The loop gets the message with [AUTH_ERROR], after process_message has
\* recorded the request; a task cancelled meanwhile is only dropped.
Suspend(a) ==
  /\ At(a, "auth")
  /\ \/ /\ a \in cancelled
        /\ Done(a) /\ UNCHANGED pending
     \/ /\ a \notin cancelled
        /\ pending' = pending \cup {a}
        /\ Go(a, "pending") /\ UNCHANGED cancelled
  /\ UNCHANGED <<proc, checking, flag, dialog, reauth, muted, token>>

\* After the status went out: the first agent asks for the login.
Announce(a) ==
  /\ At(a, "pending")
  /\ Go(a, "held")
  /\ flag' = TRUE
  /\ dialog' = (dialog \/ ~flag)
  /\ muted' = (muted \/ (~flag /\ reauth.at = "resuming"))
  /\ UNCHANGED <<proc, cancelled, checking, pending, reauth, token>>

\* The loop sees that its status has changed and takes the message again.
Resume(a) ==
  /\ At(a, "held") /\ a \notin pending
  /\ Done(a)
  /\ UNCHANGED <<proc, checking, login, token>>

Reauth ==
  /\ reauth.at = "none"
  /\ reauth' = [at |-> "login", left |-> <<>>]
  /\ UNCHANGED <<coroutines, checking, pending, flag, dialog, muted, token>>

\* The loop over the registry, which waits only where it broadcasts: up to and
\* with the next agent that is held, or to the end and the last broadcast.
ResumeFrom(agents) ==
  LET held == {i \in DOMAIN agents : agents[i] \in pending}
  IN \/ /\ held = {}
        /\ dialog' = FALSE
        /\ reauth' = NoReauth /\ UNCHANGED pending
     \/ \E i \in held :
          /\ \A j \in held : i <= j
          /\ pending' = pending \ {agents[i]}
          /\ reauth' = [at |-> "resuming", left |-> SubSeq(agents, i + 1, Len(agents))]
          /\ UNCHANGED dialog

LoginFails ==
  /\ reauth.at = "login"
  /\ reauth' = NoReauth
  /\ UNCHANGED <<coroutines, checking, pending, flag, dialog, muted, token>>

\* Mutant: the flag is left as it is.
LoginKeepingFlag ==
  /\ reauth.at = "login"
  /\ token' = TRUE
  /\ refreshed' = TRUE /\ failed' = FALSE
  /\ muted' = FALSE
  /\ ResumeFrom(Registry)
  /\ UNCHANGED <<coroutines, waiting, flag>>

Login ==
  /\ reauth.at = "login"
  /\ token' = TRUE
  /\ refreshed' = TRUE /\ failed' = FALSE
  /\ flag' = FALSE /\ muted' = FALSE
  /\ ResumeFrom(Registry)
  /\ UNCHANGED <<coroutines, waiting>>

ResumeNext ==
  /\ reauth.at = "resuming"
  /\ ResumeFrom(reauth.left)
  /\ UNCHANGED <<coroutines, checking, flag, muted, token>>

-----------------------------------------------------------------------------
Step(a) == \/ Spawn(a) \/ Exit(a) \/ Timeout(a) \/ Read(a) \/ Unset(a) \/ Record(a)
           \/ Lock(a) \/ Check(a) \/ Suspend(a) \/ Announce(a) \/ Resume(a)

Next ==
  \/ \E a \in Agents : Invoke(a) \/ Cancel(a) \/ Step(a)
  \/ Reauth \/ LoginFails \/ Login \/ ResumeNext
  \/ Lapse

Spec == Init /\ [][Next]_vars

\* The event loop runs what can run; a process that does not end is given up
\* on when its time is over. Nobody has to log in, and no login has to succeed.
FairSpec == Spec /\ \A a \in Agents : WF_vars(Step(a))

-----------------------------------------------------------------------------
(* Properties                                                              *)

\* Agents share the check: none is started while the last success is within
\* its TTL or the last failure within its cooldown, however many waited for
\* the lock while somebody else made it.
CheckIsShared ==
  [][\A a \in Agents : call[a].at # "check" /\ call'[a].at = "check" =>
       ~refreshed /\ ~failed /\ \A b \in Agents : call[b].at # "check"]_vars

\* An agent that is held has the user asked to log in, unless the flag that
\* keeps the agents from all asking was set while a login was handed out, or
\* one is being handed out now.
HeldIsAsked ==
  reauth.at # "resuming" /\ ~muted => \A a \in pending : At(a, "held") => dialog

\* "Reset the dedup flag so future auth errors can broadcast again": an agent held since
\* has the user asked as well. False of the code, which hides the new dialog.
HeldAgainIsAsked == reauth.at # "resuming" => \A a \in pending : At(a, "held") => dialog

\* A task that is cancelled is not worth another run: once the flag is set the
\* model is asked again only where the code does not look at the flag, which is
\* after a check of the login, without a lost session, and for a correction.
CancelHolds ==
  [][\A a \in cancelled : call[a].at # "spawn" /\ call'[a].at = "spawn" =>
       call'[a].retry \/ call'[a].stage \in {"fresh", "correct"}]_vars

\* Cancelling "kills the subprocess to save tokens/cost", so that no retry starts
\* another. False of the code: the one after a check does not look at the flag.
CancelEndsRetries ==
  [][\A a \in cancelled : call[a].at # "spawn" /\ call'[a].at = "spawn" =>
       call'[a].stage \in {"fresh", "correct"}]_vars

\* Every invocation comes to an end, with processes that hang, expired logins
\* and several agents at the lock: the agent is free again or held.
InvocationsEnd ==
  \A a \in Agents : call[a].at = "spawn" ~> call[a].at \in {"idle", "held"}

=============================================================================
