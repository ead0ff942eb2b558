------------------------------ MODULE MCSetup -------------------------------
(* An instance of Setup for TLC, with the rules of the other host files.   *)
EXTENDS Setup, ClaudeConfig, AoeConfig, TLC

CONSTANTS
  Post, Prompt,  \* the two events
  Own            \* a hook group of the user

Handler(restricted) == <<[command |-> Standard, restricted |-> restricted]>>
Recorder == [EmptyDoc EXCEPT !.hooks[Post] = Handler(FALSE)]
Pair(toml, json) == [f \in Files |-> IF f = "toml" THEN toml ELSE json]

(* Nothing installed, with and without a hooks.json; an older release that  *)
(* only records, alone or with a user's hook group beside a hooks.json; a   *)
(* prompt hook under a matcher.                                             *)
MCInitialFiles ==
  {Pair(None, None), Pair(EmptyDoc, EmptyDoc),
   Pair(Recorder, None), Pair([Recorder EXCEPT !.foreign = {Own}], EmptyDoc),
   Pair([EmptyDoc EXCEPT !.hooks[Prompt] = Handler(TRUE)], None)}

(* None, an older release's, and one with files of the user beside it. *)
MCInitialSkills ==
  {None,
   [release |-> "older", pin |-> Standard, extra |-> FALSE],
   [release |-> "older", pin |-> Standard, extra |-> TRUE]}

Symmetry == Permutations(Installers)
=============================================================================
