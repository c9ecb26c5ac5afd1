----------------------------- MODULE Transcript -----------------------------
(***************************************************************************)
(* core/providers: one agent's invocations of a model through an API, the  *)
(* transcripts that provider_history_repo keeps of them, and the fallback  *)
(* to a second provider; with what Agent.process_message does about        *)
(* session ids, and the route that gives the agent another provider.       *)
(*                                                                         *)
(* An API answers with a text or with calls of tools, which the provider   *)
(* carries out before it asks again. The agent's actions are tools too:    *)
(* such a call only puts a block aside, to be added to the final text,     *)
(* from which the ActionHandler reads it. Every message is a row of its    *)
(* own, committed before the next step; the next invocation of the session *)
(* sends them again. The command line provider keeps its own history.      *)
(***************************************************************************)
EXTENDS Naturals, Sequences

CONSTANTS
  Setups,        \* providers an agent may be given: the first and the fallback
  Tools,         \* file tools
  Actions,       \* actions offered as tools
  MaxIterations, \* MAX_TOOL_LOOP_ITERATIONS
  Batches,       \* bound: what the model may ask for in one answer
  MaxSessions,   \* bound on the sessions opened
  MaxPrompts,    \* bound on the messages the agent processes
  MaxSwitches,   \* bound on the choices of a provider
  MaxCuts,       \* bound on crashes, stops and refused rows
  None

\* VALID_PROVIDERS
Kinds == {"claude-cli", "claude-api", "openai", "gemini"}

ASSUME TranscriptAssumption ==
  /\ Setups \subseteq Kinds \X (Kinds \cup {None}) /\ Setups # {}
  /\ None \notin Kinds \cup Nat
  /\ Tools \cap Actions = {}
  /\ Batches \subseteq Seq(Tools \cup Actions) \ {<<>>}
  /\ {MaxIterations, MaxSessions} \subseteq Nat \ {0}
  /\ {MaxPrompts, MaxSwitches, MaxCuts} \subseteq Nat

VARIABLES
  rows,      \* rows[s]: provider_messages of session s, by sequence
  opened,    \* sessions that have been given an id
  stored,    \* session_id in the agent's session record
  primary, fallback, \* the agent's providers
  switching, \* the route has set the providers and not yet dropped the session
  run,       \* the invocation under way
  blocks,    \* _action_blocks
  answer,    \* what the last invocation came to
  prompts, switches, cuts, \* so far, for the bounds
  torn       \* history: sessions whose tool loop was cut short

database == <<rows, opened>>
providers == <<primary, fallback, switching>>
bounds == <<prompts, switches, cuts>>
transcriptVars == <<database, stored, providers, run, blocks, answer, bounds, torn>>

Sessions == 1..MaxSessions
CliId == 0 \* any session id of the command line

\* A row, or a message to the API. A result is tagged when it has the id of
\* the call it answers.
Prompt == [is |-> "prompt"]
Asked(calls) == [is |-> "calls", calls |-> calls]
Result(tool, tagged) == [is |-> "result", tool |-> tool, tagged |-> tagged]
Text(actions) == [is |-> "text", actions |-> actions]

NoRun == [at |-> "idle", kind |-> None, sid |-> None, second |-> FALSE, spent |-> TRUE,
         messages |-> <<>>, calls |-> <<>>, done |-> 0, round |-> 0]
NoAnswer == [error |-> TRUE, raised |-> FALSE, actions |-> <<>>]

RunPoints == {"idle", "load", "prompt", "call", "tools", "text", "cli", "failed", "done"}

TranscriptTypeOK ==
  /\ DOMAIN rows = Sessions /\ opened \in 0..MaxSessions
  /\ \A s \in Sessions : s > opened => rows[s] = <<>>
  /\ stored \in 0..opened \cup {None}
  /\ <<primary, fallback>> \in Setups
  /\ switching \in BOOLEAN
  /\ run.at \in RunPoints /\ run.kind \in Kinds \cup {None}
  /\ run.sid \in 0..opened \cup {None} /\ run.round \in 0..MaxIterations
  /\ run.at \in {"prompt", "call", "tools", "text"} => run.sid \in 1..opened
  /\ run.at = "tools" => run.round < MaxIterations /\ run.done < Len(run.calls)
  /\ blocks \in Seq(Actions) /\ answer.actions \in Seq(Actions)
  /\ torn \subseteq 1..opened

TranscriptInit ==
  /\ rows = [s \in Sessions |-> <<>>] /\ opened = 0
  /\ stored \in {None, CliId}
  /\ \E setup \in Setups : primary = setup[1] /\ fallback = setup[2]
  /\ switching = FALSE
  /\ run = NoRun /\ blocks = <<>> /\ answer = NoAnswer
  /\ prompts = 0 /\ switches = 0 /\ cuts = 0
  /\ torn = {}

RunAt(point) == run.at = point

\* The invocation is over: what it had in memory is gone.
Leave(point) ==
  run' = [run EXCEPT !.at = point, !.messages = <<>>, !.calls = <<>>, !.done = 0,
                     !.round = 0]

Add(s, row) == rows' = [rows EXCEPT ![s] = Append(@, row)]

-----------------------------------------------------------------------------
(* The tool loop of APIProviderBase.invoke                                 *)

\* The provider is entered: an id that is not one of its own is ignored. spent
\* says whether the cost of the first attempt is known.
Enter(kind, id, second, spent) ==
  run' = [NoRun EXCEPT !.at = IF kind = "claude-cli" THEN "cli" ELSE "load",
                      !.kind = kind, !.sid = IF id = CliId THEN None ELSE id,
                      !.second = second, !.spent = spent]

\* Mutant: what an earlier invocation put aside is still there.
KeepBlocks == UNCHANGED blocks

NoBlocks == blocks' = <<>>

\* process_message, with the session id the record has.
Begin ==
  /\ RunAt("idle") /\ prompts < MaxPrompts /\ opened + 2 <= MaxSessions
  /\ prompts' = prompts + 1
  /\ Enter(primary, stored, FALSE, TRUE)
  /\ NoBlocks
  /\ UNCHANGED <<database, stored, providers, answer, switches, cuts, torn>>

\* _convert_history, from the rows to the form of the API: a result without
\* the id of its call is taken for something the user said.
Convert(history) ==
  [i \in DOMAIN history |->
     IF history[i].is = "result" /\ ~history[i].tagged THEN Prompt ELSE history[i]]

\* get_history or create_session, which writes nothing.
Load ==
  /\ RunAt("load")
  /\ \/ /\ run.sid # None
        /\ run' = [run EXCEPT !.at = "prompt", !.messages = Convert(rows[run.sid])]
        /\ UNCHANGED opened
     \/ /\ run.sid = None
        /\ opened' = opened + 1
        /\ run' = [run EXCEPT !.at = "prompt", !.sid = opened + 1]
  /\ UNCHANGED <<rows, stored, providers, blocks, answer, bounds, torn>>

PersistPrompt ==
  /\ RunAt("prompt")
  /\ Add(run.sid, Prompt)
  /\ run' = [run EXCEPT !.at = "call", !.messages = Append(@, Prompt)]
  /\ UNCHANGED <<opened, stored, providers, blocks, answer, bounds, torn>>

\* The call of the API raises, or the arguments of a call are no JSON, which
\* OpenAI's provider finds out before it writes the row: an error result.
CallFails ==
  /\ RunAt("call")
  /\ Leave("failed")
  /\ UNCHANGED <<database, stored, providers, blocks, answer, bounds, torn>>

\* Mutant: the row is written before the arguments are looked at.
AskUnparsed ==
  /\ RunAt("call")
  /\ \E calls \in Batches :
       /\ Add(run.sid, Asked(calls))
       /\ \/ run' = [run EXCEPT !.at = "tools", !.calls = calls, !.done = 0,
                                !.messages = Append(@, Asked(calls))]
          \/ Leave("failed")
  /\ UNCHANGED <<opened, stored, providers, blocks, answer, bounds, torn>>

\* The answer asks for tools: the row goes in before the first is carried out.
Ask ==
  /\ RunAt("call")
  /\ \E calls \in Batches :
       /\ Add(run.sid, Asked(calls))
       /\ run' = [run EXCEPT !.at = "tools", !.calls = calls, !.done = 0,
                             !.messages = Append(@, Asked(calls))]
  /\ UNCHANGED <<opened, stored, providers, blocks, answer, bounds, torn>>

\* Gemini's provider gives the row the name of the tool and no id.
Tagged == run.kind # "gemini"

Put(tool) == blocks' = IF tool \in Actions THEN Append(blocks, tool) ELSE blocks

\* Mutant: one round too many.
LastRoundLate == run.round = MaxIterations

LastRound == run.round + 1 = MaxIterations

\* The next call: an action is put aside, a file tool is executed, which gives
\* a text whatever happens (an unknown tool, an exception, a command that takes
\* too long). After the last of them the API is asked again, if the limit allows.
CarryOut ==
  /\ RunAt("tools")
  /\ LET tool == run.calls[run.done + 1]
         said == Append(run.messages, Result(tool, TRUE))
     IN /\ Put(tool)
        /\ Add(run.sid, Result(tool, Tagged))
        /\ \/ /\ run.done + 1 < Len(run.calls)
              /\ run' = [run EXCEPT !.done = @ + 1, !.messages = said]
           \/ /\ run.done + 1 = Len(run.calls)
              /\ IF LastRound THEN Leave("failed")
                 ELSE run' = [run EXCEPT !.at = "call", !.round = @ + 1,
                                !.messages = said, !.calls = <<>>, !.done = 0]
  /\ UNCHANGED <<opened, stored, providers, answer, bounds, torn>>

\* The final text with the blocks, persisted and returned.
Conclude ==
  /\ RunAt("call")
  /\ Add(run.sid, Text(blocks))
  /\ answer' = [error |-> FALSE, raised |-> FALSE, actions |-> blocks]
  /\ Leave("done")
  /\ UNCHANGED <<opened, stored, providers, blocks, bounds, torn>>

\* The database refuses a row: the loop's `except` turns it into an error result.
RowFails ==
  /\ RunAt("tools") /\ cuts < MaxCuts
  /\ cuts' = cuts + 1
  /\ Leave("failed")
  /\ torn' = torn \cup {run.sid}
  /\ UNCHANGED <<database, stored, providers, blocks, answer, prompts, switches>>

-----------------------------------------------------------------------------
(* The command line, and the fallback                                      *)

\* The command line's result: an error, an answer with its figures, or an
\* answer that is no JSON and has none.
CliAnswers ==
  /\ RunAt("cli")
  /\ \E known \in BOOLEAN :
       /\ answer' = [error |-> FALSE, raised |-> run.second /\ ~(known /\ run.spent),
                     actions |-> <<>>]
       /\ run' = [run EXCEPT !.at = "done", !.sid = CliId]
  /\ UNCHANGED <<database, stored, providers, blocks, bounds, torn>>

\* An error of the command line's own has no figures; what it reports of the
\* model has.
CliFails ==
  /\ RunAt("cli")
  /\ \E known \in BOOLEAN : run' = [run EXCEPT !.at = "failed", !.spent = @ /\ known]
  /\ UNCHANGED <<database, stored, providers, blocks, answer, bounds, torn>>

\* FallbackProvider.invoke after an error of the primary provider: the other
\* one is asked, without the session.
FallBack ==
  /\ RunAt("failed") /\ ~run.second /\ fallback # None
  /\ Enter(fallback, None, TRUE, run.spent)
  /\ NoBlocks
  /\ UNCHANGED <<database, stored, providers, answer, bounds, torn>>

GiveUp ==
  /\ RunAt("failed") /\ (run.second \/ fallback = None)
  /\ answer' = [error |-> TRUE, raised |-> run.second /\ ~run.spent, actions |-> <<>>]
  /\ Leave("done")
  /\ UNCHANGED <<database, stored, providers, blocks, bounds, torn>>

\* The id an invocation returned is stored if it is of the agent's provider.
Store == IF run.sid # None /\ (primary = "claude-cli") = (run.sid = CliId)
           THEN run.sid ELSE stored

\* process_message again. Adding the figures up raises where one is missing:
\* then the message fails, and an answer is lost.
Return ==
  /\ RunAt("done")
  /\ stored' = IF answer.raised THEN stored ELSE Store
  /\ run' = NoRun /\ answer' = NoAnswer
  /\ UNCHANGED <<database, providers, blocks, bounds, torn>>

-----------------------------------------------------------------------------
(* Another provider, and interruptions                                     *)

\* The route sets the provider for the next invocation ...
Switch(setup) ==
  /\ ~switching /\ switches < MaxSwitches
  /\ switches' = switches + 1
  /\ primary' = setup[1] /\ fallback' = setup[2]
  /\ switching' = TRUE
  /\ UNCHANGED <<database, stored, run, blocks, answer, prompts, cuts, torn>>

\* ... and, when the record is written, drops the session.
Invalidate ==
  /\ switching
  /\ switching' = FALSE
  /\ stored' = None
  /\ UNCHANGED <<database, primary, fallback, run, blocks, answer, bounds, torn>>

\* The process ends, or the agent is stopped, within an invocation.
Cut ==
  /\ ~RunAt("idle") /\ cuts < MaxCuts
  /\ cuts' = cuts + 1
  /\ torn' = IF RunAt("tools") THEN torn \cup {run.sid} ELSE torn
  /\ run' = NoRun /\ blocks' = <<>> /\ answer' = NoAnswer
  /\ switching' = FALSE
  /\ UNCHANGED <<database, stored, primary, fallback, prompts, switches>>

TranscriptNext ==
  \/ Begin \/ Load \/ PersistPrompt
  \/ CallFails \/ Ask \/ CarryOut \/ Conclude \/ RowFails
  \/ CliAnswers \/ CliFails \/ FallBack \/ GiveUp \/ Return
  \/ \E setup \in Setups : Switch(setup)
  \/ Invalidate \/ Cut

TranscriptSpec == TranscriptInit /\ [][TranscriptNext]_transcriptVars

-----------------------------------------------------------------------------
(* Properties                                                              *)

\* Every call is followed by its results, and there are no others.
Answered(messages) ==
  \A i \in DOMAIN messages :
    /\ messages[i].is = "calls" =>
         \A k \in DOMAIN messages[i].calls :
           /\ i + k <= Len(messages)
           /\ messages[i + k] = Result(messages[i].calls[k], TRUE)
    /\ messages[i].is = "result" =>
         \E j \in 1..(i - 1) : messages[j].is = "calls" /\ i - j <= Len(messages[j].calls)

Untagged(s) == \E i \in DOMAIN rows[s] : rows[s][i].is = "result" /\ ~rows[s][i].tagged

\* What is sent to an API answers every call it has made, whoever wrote the
\* transcript and however the earlier invocations of the session ended, unless
\* one was cut short in its tool loop or the results have no ids.
SentIsAnswered ==
  RunAt("call") /\ run.sid \notin torn /\ ~Untagged(run.sid) => Answered(run.messages)

\* "API providers use conversation history from the DB", also of a session whose last
\* tool loop was cut short, or a row of it not written. False of the code: the calls are committed
\* before the results.
ResumedIsAnswered == RunAt("call") /\ ~Untagged(run.sid) => Answered(run.messages)

IsPrompt(row) == row.is = "prompt"
IsAction(row) == row.is = "result" /\ row.tool \in Actions

\* The rows that say of an action, since the last prompt, that it was queued.
QueuedAt(history) ==
  {i \in DOMAIN history :
     IsAction(history[i]) /\ \A j \in i..Len(history) : ~IsPrompt(history[j])}

\* These actions, each once, in this order.
Lists(actions, history) ==
  \E at \in [DOMAIN actions -> QueuedAt(history)] :
    /\ \A m, n \in DOMAIN actions : m < n => at[m] < at[n]
    /\ \A i \in QueuedAt(history) : \E n \in DOMAIN actions : at[n] = i
    /\ \A n \in DOMAIN actions : actions[n] = history[at[n]].tool

\* The ActionHandler gets the actions of which the model was told that they are
\* queued: each of them, in order, and none of an earlier invocation or of the
\* provider that failed before.
QueuedIsHandled ==
  RunAt("done") /\ ~answer.error /\ run.sid # CliId => Lists(answer.actions, rows[run.sid])

=============================================================================
