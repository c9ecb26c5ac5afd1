---------------------------- MODULE MCTranscript ----------------------------
(* Two messages; the model asks for a file tool, or for an action and a file *)
(* tool. An API with another behind it, or the command line with an API.     *)
EXTENDS Transcript

MCBatches == {<<"Read">>, <<"delegate", "Read">>}
MCSetups == {<<"claude-api", "openai">>, <<"claude-cli", "claude-api">>, <<"gemini", None>>}

=============================================================================
