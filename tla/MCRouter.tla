------------------------------ MODULE MCRouter ------------------------------
(***************************************************************************)
(* Small instances of Router for TLC.                                      *)
(***************************************************************************)
EXTENDS Router

CONSTANTS a1, a2, c1, c2

Two == <<a1, a2>>

\* kuro run in a script, and agents that may exit.
Script ==
  [tty |-> FALSE, published |-> TRUE, serving |-> FALSE, lines |-> 0,
   callers |-> {}, speech |-> 2, voice |-> {"done", "note"}, mortal |-> TRUE]

\* kuro run at a terminal.
Terminal ==
  [Script EXCEPT !.tty = TRUE, !.lines = 1, !.voice = {"talk", "done"},
                 !.mortal = FALSE]

\* An MCP server that runs the flow and takes send_message calls.
Server == [Terminal EXCEPT !.tty = FALSE, !.serving = TRUE, !.callers = {c1}]

\* Two calls at a time, for a channel that has room for one line.
Crowd == [Server EXCEPT !.callers = {c1, c2}, !.speech = 1, !.voice = {"done"}]

\* A caller of run_steps at a terminal: nothing is published.
Bare == [Terminal EXCEPT !.published = FALSE, !.speech = 1]

AllScenes == {Script, Server, Crowd, Bare}
OnlyServer == {Server}
OnlyScript == {Script}
==============================================================================
