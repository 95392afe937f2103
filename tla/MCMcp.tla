------------------------------- MODULE MCMcp -------------------------------
(***************************************************************************)
(* Small instances of McpServer for TLC.                                   *)
(***************************************************************************)
EXTENDS McpServer

MCHeadings == {"Blocking", "Suggestions"}
MCVerdicts == {"APPROVE", "REQUEST_CHANGES"}
MCCommits == {"abc123"}

Call(tool) == [id |-> TRUE, method |-> "tools/call", tool |-> tool, flaw |-> "none"]

Frame(i, m, f) == [id |-> i, method |-> m, tool |-> "none", flaw |-> f]

Plain ==
    {Frame(TRUE, "unreadable", "none"), Frame(FALSE, "unreadable", "none"),
     Frame(FALSE, "ping", "none"), Frame(TRUE, "initialize", "params"), Frame(TRUE, "other", "none"),
     Call("no_such_tool"), [Call("run_flow") EXCEPT !.flaw = "arguments"]}

(* Two frames of any kind, with everything that can fail. *)
Chatter ==
    {[script |-> <<f, g>>, talks |-> 0, faults |-> {"stdin", "stdout", "run"},
      shapes |-> {"linear", "graph", "custom"}, records |-> <<>>] :
        f, g \in Plain \cup {Call(t) : t \in {"run_flow", "workflow", "show_output"}}}

(* A run with two conversations, and a client that talks into it twice; two *)
(* runs, or one that is not registered, and a message; a run that is looked *)
(* at while it talks.                                                      *)
Scripted(tools, talks, faults) ==
    [script |-> [n \in DOMAIN tools |-> Call(tools[n])],
     talks |-> talks, faults |-> faults, shapes |-> {"linear"},
     records |-> <<>>]

Talks ==
    {Scripted(<<"run_flow", "send_message", "send_message">>, 2, {}),
     Scripted(<<"run_flow", "run_flow", "send_message">>, 1, {"run"}),
     Scripted(<<"run_flow", "workflow", "send_message">>, 1, {}),
     Scripted(<<"run_flow", "send_message", "show_output">>, 1, {"run"})}

(* One workflow tool, and every report that starts with a heading and goes  *)
(* on for three lines, or for four of the plainer ones; or visits that say  *)
(* one thing each.                                                         *)
Bulleted(says) == [bullet : {TRUE}, says : says]
Bare(says) == [bullet : {FALSE}, says : says]
PlainLines == Bulleted({"word", ""}) \cup Bare({"word", "prose", "", "Blocking", "Suggestions"})
ReportLines == PlainLines \cup Bulleted({"APPROVE", "None.", "Blocking"})
                          \cup Bare({"None.", "REQUEST_CHANGES"})
Sections == UNION {[1 .. n -> ReportLines] : n \in 0 .. 3} \cup [1 .. 4 -> PlainLines]
Facts == [bullet : {TRUE}, says : {"abc123", "n/a", "1", "2^32"}]

MCReports ==
    {<<>>} \cup {<<<<[bullet |-> FALSE, says |-> "Blocking"]>> \o section>> :
                   section \in Sections}
    \cup {<<report>> : report \in [1 .. 2 -> Facts]}
    \cup {<<<<v>>, <<w>>>> : v, w \in ReportLines}

Tool == {[Scripted(<<"workflow">>, 0, {}) EXCEPT !.records = r, !.shapes = {"graph"}] : r \in MCReports}

Sessions == Chatter \cup Talks \cup Tool
============================================================================
