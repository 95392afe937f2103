----------------------------- MODULE MCLinearRun -----------------------------
(* Instances of LinearRun for TLC. *)
EXTENDS LinearRun

CONSTANT Faulty    \* whether the scene of two runs has faults

Step(id, kind, needs, input, post) ==
    [id |-> id, kind |-> kind, needs |-> needs, input |-> input, post |-> post]

(* Every dependency relation on three steps, listed in an order that is not *)
(* the order of their ids; dependencies of step 1 are inputs.               *)
Tangles ==
    {<<Step(3, "api", Ascending(A), <<>>, FALSE),
       Step(1, "shell", <<>>, Ascending(B), FALSE),
       Step(2, "talk", Ascending(C), <<>>, TRUE)>> : A, B, C \in SUBSET (1 .. 3)}

(* A reference to a step that is not there, and a step that is listed twice *)
(* as a dependency or as an input.                                          *)
Odd == {<<Step(1, "api", <<4>>, <<>>, FALSE)>>,
        <<Step(2, "talk", <<>>, <<1, 1>>, FALSE), Step(1, "shell", <<>>, <<>>, FALSE)>>,
        <<Step(1, "shell", <<>>, <<>>, TRUE), Step(2, "api", <<1, 1>>, <<1>>, FALSE)>>}

(* A command whose output an agent reads, and comments on. *)
Review == <<Step(1, "agent", <<>>, <<2>>, TRUE), Step(2, "shell", <<>>, <<>>, FALSE)>>

(* A conversation on the output of an agent, and its summary. *)
Panel == <<Step(3, "api", <<>>, <<1, 2>>, TRUE), Step(2, "talk", <<1>>, <<1>>, TRUE),
           Step(1, "agent", <<>>, <<>>, FALSE)>>

AllScenes ==
    {[flow |-> f, cast |-> {1}, faults |-> FALSE] : f \in Tangles \cup Odd}
    \cup {[flow |-> Panel, cast |-> {1}, faults |-> TRUE],
          [flow |-> Review, cast |-> {1, 2}, faults |-> Faulty]}
=============================================================================
