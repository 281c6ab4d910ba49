----------------------------- MODULE MCGateway -----------------------------
(***************************************************************************)
(* Instances of Gateway for TLC.                                           *)
(***************************************************************************)
EXTENDS Gateway, TLC

MCModelFacts ==
  "qwen" :> [location |-> "local", provider |-> "ollama", region |-> "local"]
  @@ "gemini-pro" :> [location |-> "cloud", provider |-> "vertex", region |-> "us-central1"]
  @@ "gpt" :> [location |-> "cloud", provider |-> "openai", region |-> "us"]

\* The local model falls back to a cloud that the table does not know, then to one it knows.
MCFallbacks == "qwen" :> <<"haiku", "gpt">>
=============================================================================
