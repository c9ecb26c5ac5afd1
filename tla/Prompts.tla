------------------------------- MODULE Prompts -------------------------------
(***************************************************************************)
(* What an agent is told: core/prompt_builder.py with the part of          *)
(* core/agent.py that calls it, core/memory_manager.py over                *)
(* db/repositories/memory_repo.py, and the prompt hash of                  *)
(* core/session_store.py.                                                  *)
(*                                                                         *)
(* An agent of a running project handles one message at a time; each stage *)
(* `job[a].at` ends in an await. A system prompt is the text rendered at   *)
(* the last change of the team, which shows the memory the manager had     *)
(* cached then, followed by the memory of now. A resumed session is told a *)
(* reminder only when the stored hash is that of the prompt of now. The    *)
(* session of a command-line provider remembers the prompt it was told;    *)
(* that of an API provider is the transcript, to which no system prompt is *)
(* written. The personality of an agent id is one for all projects that    *)
(* have an agent of that id.                                               *)
(***************************************************************************)
EXTENDS Naturals, FiniteSets

CONSTANTS
  Agents, Projects, Persons,  \* agents of running projects; agent ids
  ProjectOf, PersonOf,
  ApiAgents,                  \* agents whose provider is an API
  Kinds,                      \* memory_type: those that agents save
  Rosters,                    \* what {team_roster} may be
  None,                       \* no session, no prompt, no hash
  MaxSaves, MaxEvents         \* bounds

VARIABLES
  stateless, \* the ids whose role keeps no session and renders its prompt each time
  memories,  \* table agent_memories: which save each kind of memory shows
  saves,     \* so far
  shown,     \* _cache of the memory manager
  roster,    \* the team of each project
  text,      \* system_prompt: rendered by update_team_roster
  session,   \* session_id: the session, by what it was told
  hash,      \* prompt_hash, cached: the prompt itself stands for its hash
  kept,      \* prompt_hash in the row
  job,       \* the message each agent handles
  events     \* changes of the team, resets, deployments and restarts so far, for the bound

memory == <<stateless, memories, saves, shown>>
stored == <<session, hash, kept>>
promptsVars == <<memory, roster, text, stored, job, events>>

Keys == {<<"personality", p>> : p \in Persons} \cup {<<"project", a>> : a \in Agents}
Key(a, kind) == <<kind, IF kind = "personality" THEN PersonOf[a] ELSE a>>

Absent == 0               \* no row
Doubled == MaxSaves + 1   \* two rows of one key

Memory == [Kinds -> 0..MaxSaves]
NoMemory == [kind \in Kinds |-> Absent]
Text == [roster: Rosters, shown: Memory]
Prompt == [text: Text, memory: Memory]

\* told: the prompt a session remembers, or None. slipped: history, see Team,
\* Commit and RestartProject.
Session == [told: Prompt \cup {None}, slipped: BOOLEAN]

ASSUME PromptsAssumption ==
  /\ ProjectOf \in [Agents -> Projects] /\ PersonOf \in [Agents -> Persons]
  /\ ApiAgents \subseteq Agents
  /\ Kinds \subseteq {"personality", "project"} /\ {MaxSaves, MaxEvents} \subseteq Nat
  /\ None \notin Prompt \cup Session

\* recalled: the memory in the message. since: history, that at the start.
\* sent: the full prompt, or None for the reminder.
\* moved: history, its parts changed since they were read.
NoJob == [at |-> "idle", since |-> NoMemory, recalled |-> NoMemory, text |-> None,
          sent |-> None, session |-> None, moved |-> FALSE, kind |-> None,
          found |-> FALSE]
Stages == {"idle", "recall", "build", "invalidate", "invoke", "forget", "store",
           "rehash", "mark", "act", "save"}
Job == [at: Stages, since: Memory, recalled: Memory, text: Text \cup {None},
        sent: Prompt \cup {None}, session: Session \cup {None}, moved: BOOLEAN,
        kind: Kinds \cup {None}, found: BOOLEAN]

----------------------------------------------------------------------------

\* scalar_one_or_none raises when there are two rows.
Readable(a) == \A kind \in Kinds : memories[Key(a, kind)] # Doubled

\* Mutant: the memory fetched last, as for synchronous callers.
CombinedCached(a) == shown[a]

Combined(a) == [kind \in Kinds |-> memories[Key(a, kind)]]

IsStateless(a) == PersonOf[a] \in stateless

Rendered(a, team) == [roster |-> team, shown |-> shown[a]]

\* A stateless agent renders its template anew, and the agent takes it over.
TextOf(a) == IF IsStateless(a) THEN Rendered(a, roster[ProjectOf[a]]) ELSE text[a]

FullPrompt(a) == [text |-> job[a].text, memory |-> Combined(a)]

HasSession(a) == ~IsStateless(a) /\ session[a] # None

\* Mutant: the hash leaves the memory out.
UnchangedText(a, prompt) == hash[a] # None /\ hash[a].text = prompt.text

Unchanged(a, prompt) == hash[a] = prompt

\* Mutant: the hash alone decides.
ResumesByHash(a, prompt) == ~IsStateless(a) /\ Unchanged(a, prompt)

Resumes(a, prompt) == HasSession(a) /\ Unchanged(a, prompt)

At(a, stage) == job[a].at = stage
Set(a, new) == job' = [job EXCEPT ![a] = new]
Finish(a) == Set(a, NoJob)

\* The error ends the message.
Raise(a) == ~Readable(a) /\ Finish(a) /\ UNCHANGED <<memory, roster, text, stored>>

PromptsInit ==
  /\ stateless \in SUBSET Persons /\ events = 0
  /\ memories = [k \in Keys |-> Absent] /\ saves = 0
  /\ shown = [a \in Agents |-> NoMemory]
  /\ roster \in [Projects -> Rosters]
  /\ text = [a \in Agents |-> Rendered(a, roster[ProjectOf[a]])]
  /\ session = [a \in Agents |-> None] /\ hash = session /\ kept = session
  /\ job = [a \in Agents |-> NoJob]

----------------------------------------------------------------------------
\* One message.

\* The rest of the message's prompt (documents, tasks, plan, servers) is read
\* without an await.
StartBuild(a, new) ==
  /\ Set(a, [new EXCEPT !.at = "build", !.text = TextOf(a), !.moved = FALSE])
  /\ text' = [text EXCEPT ![a] = TextOf(a)]

\* Mutant: a resumed session is taken to know the memory.
RecallsNothing(a) == FALSE

Recalls(a) == HasSession(a)

\* The memory goes into the message when there is a session to resume.
Take(a) ==
  /\ At(a, "idle")
  /\ LET new == [NoJob EXCEPT !.since = IF Readable(a) THEN Combined(a) ELSE NoMemory]
     IN IF Recalls(a)
        THEN Set(a, [new EXCEPT !.at = "recall"]) /\ UNCHANGED text
        ELSE StartBuild(a, new)
  /\ UNCHANGED <<memory, roster, stored>>

Recall(a) ==
  /\ At(a, "recall")
  /\ \/ Raise(a)
     \/ /\ Readable(a)
        /\ shown' = [shown EXCEPT ![a] = Combined(a)]
        /\ StartBuild(a, [job[a] EXCEPT !.recalled = Combined(a)])
        /\ UNCHANGED <<stateless, memories, saves, roster, stored>>

\* No await between the check of the hash and the call of the provider.
Build(a) ==
  /\ At(a, "build")
  /\ \/ Raise(a)
     \/ /\ Readable(a)
        /\ shown' = [shown EXCEPT ![a] = Combined(a)]
        /\ LET prompt == FullPrompt(a)
               resumed == Resumes(a, prompt)
           IN Set(a, [job[a] EXCEPT
                !.at = IF HasSession(a) /\ ~resumed THEN "invalidate" ELSE "invoke",
                !.sent = IF resumed THEN None ELSE prompt,
                !.session = IF resumed THEN session[a] ELSE None])
        /\ UNCHANGED <<stateless, memories, saves, roster, text, stored>>

\* invalidate_session leaves the hash in the row.
Drop(a) ==
  /\ At(a, "invalidate")
  /\ session' = [session EXCEPT ![a] = None]
  /\ hash' = [hash EXCEPT ![a] = None]
  /\ Set(a, [job[a] EXCEPT !.at = "invoke"])
  /\ UNCHANGED <<memory, roster, text, kept>>

\* record_request reads the row again.
Fail(a) ==
  /\ At(a, "invoke")
  /\ hash' = [hash EXCEPT ![a] = kept[a]]
  /\ Finish(a)
  /\ UNCHANGED <<memory, roster, text, session, kept>>

\* "No conversation found": the session is cleared, the prompt built anew.
Lose(a) ==
  /\ At(a, "invoke") /\ job[a].session # None
  /\ Set(a, [job[a] EXCEPT !.at = "forget"])
  /\ UNCHANGED <<memory, roster, text, stored>>

Forget(a) ==
  /\ At(a, "forget")
  /\ session' = [session EXCEPT ![a] = None]
  /\ StartBuild(a, [job[a] EXCEPT !.session = None])
  /\ UNCHANGED <<memory, roster, hash, kept>>

Reply(a) ==
  /\ At(a, "invoke")
  /\ Set(a, IF IsStateless(a) THEN [NoJob EXCEPT !.at = "act"]
            ELSE [job[a] EXCEPT !.at = "store"])
  /\ UNCHANGED <<memory, roster, text, stored>>

\* What the session remembers after an invocation. An API provider passes the
\* system prompt with the call and stores the user's message and the answer.
Used(a) ==
  LET j == job[a] IN
  [told |-> IF a \in ApiAgents THEN None
            ELSE IF j.sent = None THEN j.session.told ELSE j.sent,
   slipped |-> j.moved \/ (j.sent = None /\ j.session.slipped)]

\* The text that will be hashed is read now, not the text sent.
Store(a) ==
  /\ At(a, "store")
  /\ session' = [session EXCEPT ![a] = Used(a)]
  /\ Set(a, [NoJob EXCEPT !.at = "rehash", !.text = text[a]])
  /\ UNCHANGED <<memory, roster, text, hash, kept>>

Rehash(a) ==
  /\ At(a, "rehash")
  /\ \/ Raise(a)
     \/ /\ Readable(a)
        /\ shown' = [shown EXCEPT ![a] = Combined(a)]
        /\ Set(a, [NoJob EXCEPT !.at = "mark", !.sent = FullPrompt(a)])
        /\ UNCHANGED <<stateless, memories, saves, roster, text, stored>>

Mark(a) ==
  /\ At(a, "mark")
  /\ hash' = [hash EXCEPT ![a] = job[a].sent]
  /\ kept' = [kept EXCEPT ![a] = job[a].sent]
  /\ Set(a, [NoJob EXCEPT !.at = "act"])
  /\ UNCHANGED <<memory, roster, text, session>>

\* The actions of the response that matter here: update_memory, or none.
NoSave(a) == At(a, "act") /\ Finish(a) /\ UNCHANGED <<memory, roster, text, stored>>

LookUp(a) ==
  /\ At(a, "act") /\ saves < MaxSaves /\ saves + events < MaxEvents
  /\ \E kind \in Kinds : LET row == memories[Key(a, kind)] IN
       Set(a, IF row = Doubled THEN NoJob
              ELSE [NoJob EXCEPT !.at = "save", !.kind = kind, !.found = (row # Absent)])
  /\ UNCHANGED <<memory, roster, text, stored>>

----------------------------------------------------------------------------
\* What changes beside it.

\* A session that was told a prompt, or is about to be, before this change
\* and whose hash will be taken after it.
TextRead == {"build", "invalidate", "invoke", "forget", "store"}
MemoryRead == {"invalidate", "invoke", "store"}

Moved(jobs, affected, stages) ==
  [b \in Agents |-> IF b \in affected /\ jobs[b].at \in stages
                    THEN [jobs[b] EXCEPT !.moved = TRUE] ELSE jobs[b]]

\* The memory is told or hashed as of the save before.
Commit(a) ==
  /\ At(a, "save") /\ saves < MaxSaves
  /\ LET key == Key(a, job[a].kind)
         readers == {b \in Agents : \E kind \in Kinds : Key(b, kind) = key}
     IN /\ memories' = [memories EXCEPT
             ![key] = IF @ = Doubled \/ (~job[a].found /\ @ # Absent) THEN Doubled
                      ELSE saves + 1]
        /\ job' = [Moved(job, readers, MemoryRead) EXCEPT ![a] = NoJob]
        /\ session' = [b \in Agents |->
             IF b \in readers /\ At(b, "rehash") /\ session[b] # None
             THEN [session[b] EXCEPT !.slipped = TRUE] ELSE session[b]]
  /\ saves' = saves + 1
  /\ UNCHANGED <<stateless, shown, roster, text, hash, kept>>

\* refresh_manager_rosters: an agent joins or leaves; no await.
Team(p) ==
  /\ \E r \in Rosters \ {roster[p]} : roster' = [roster EXCEPT ![p] = r]
  /\ LET team == {a \in Agents : ProjectOf[a] = p}
     IN /\ text' = [a \in Agents |-> IF a \in team THEN Rendered(a, roster'[p]) ELSE text[a]]
        /\ job' = Moved(job, team, TextRead)
  /\ UNCHANGED <<memory, stored>>

\* clear_session leaves the hash in the row and reads it again.
Reset(a) ==
  /\ session' = [session EXCEPT ![a] = None]
  /\ hash' = [hash EXCEPT ![a] = kept[a]]
  /\ UNCHANGED <<memory, roster, text, kept, job>>

\* The project stops, or the process does, and starts again.
RestartProject(p) ==
  LET team == {a \in Agents : ProjectOf[a] = p}
      cut(a) == job[a].at \in {"rehash", "mark"} /\ session[a] # None
  IN /\ shown' = [a \in Agents |-> IF a \in team THEN NoMemory ELSE shown[a]]
     /\ text' = [a \in Agents |->
          IF a \in team THEN [roster |-> roster[p], shown |-> NoMemory] ELSE text[a]]
     /\ session' = [a \in Agents |->
          IF a \in team /\ cut(a) THEN [session[a] EXCEPT !.slipped = TRUE] ELSE session[a]]
     /\ hash' = [a \in Agents |-> IF a \in team THEN kept[a] ELSE hash[a]]
     /\ job' = [a \in Agents |-> IF a \in team THEN NoJob ELSE job[a]]
     /\ UNCHANGED <<stateless, memories, saves, roster, kept>>

Event == saves + events < MaxEvents /\ events' = events + 1

PromptsNext ==
  \/ /\ \E a \in Agents :
          \/ Take(a) \/ Recall(a) \/ Build(a) \/ Drop(a)
          \/ Fail(a) \/ Lose(a) \/ Forget(a) \/ Reply(a)
          \/ Store(a) \/ Rehash(a) \/ Mark(a)
          \/ NoSave(a) \/ LookUp(a) \/ Commit(a)
     /\ UNCHANGED events
  \/ Event /\ \/ \E a \in Agents : Reset(a)
              \/ \E p \in Projects : Team(p) \/ RestartProject(p)

PromptsSpec == PromptsInit /\ [][PromptsNext]_promptsVars

----------------------------------------------------------------------------
\* Properties.

(* The variables have their types, and a reminder is only ever sent to a   *)
(* session.                                                                *)
PromptsTypeOK ==
  /\ stateless \subseteq Persons /\ events \in 0..MaxEvents
  /\ memories \in [Keys -> 0..Doubled] /\ saves \in 0..MaxSaves
  /\ shown \in [Agents -> Memory] /\ roster \in [Projects -> Rosters]
  /\ text \in [Agents -> Text]
  /\ session \in [Agents -> Session \cup {None}]
  /\ hash \in [Agents -> Prompt \cup {None}] /\ kept \in [Agents -> Prompt \cup {None}]
  /\ job \in [Agents -> Job]
  /\ \A a \in Agents : At(a, "invoke") /\ job[a].sent = None => job[a].session \in Session

\* a resumes a session and sends the reminder instead of the prompt.
Reminds(a) == At(a, "build") /\ job'[a].at = "invoke" /\ job'[a].sent = None

(* A session of a command-line provider that is resumed with a reminder    *)
(* only was told the very prompt the agent has now, roster and memory,     *)
(* unless the prompt changed between the sending and the hashing of it, or *)
(* the hashing was cut off                                                 *)
(* (PromptBuilder._get_system_prompt_if_first_call, Agent.process_message, *)
(* CLIProviderBase). For API providers see ReminderSuffices.               *)
ResumedKnowsPrompt ==
  [][\A a \in Agents \ ApiAgents : Reminds(a) =>
       session[a].slipped \/ session[a].told = FullPrompt(a)]_promptsVars

(* "Store prompt hash so we can detect prompt changes later": of a command-*)
(* line provider no change goes undetected. False of the code, which hashes*)
(* the prompt of after the invocation.                                     *)
ChangesAreDetected ==
  [][\A a \in Agents \ ApiAgents : Reminds(a) =>
       session[a].told = FullPrompt(a)]_promptsVars

(* "Prompt unchanged - append a compact reminder to the resumed session":  *)
(* whatever the provider, the session knows the prompt. False of the code, *)
(* as no API provider writes the prompt to the transcript it resumes       *)
(* (APIProviderBase.invoke).                                               *)
ReminderSuffices ==
  [][\A a \in Agents : Reminds(a) =>
       session[a].slipped \/ session[a].told = FullPrompt(a)]_promptsVars

(* Whatever is sent, the memory that was saved before the message was      *)
(* taken up is in it: in the message, in the prompt sent, or both          *)
(* (PromptBuilder._build_prompt, _build_full_system_prompt).               *)
MemoryIsTold ==
  \A a \in Agents : At(a, "invoke") =>
    \A kind \in Kinds :
      job[a].since[kind] <= IF job[a].sent = None THEN job[a].recalled[kind]
                            ELSE job[a].sent.memory[kind]

=============================================================================
