-------------------------------- MODULE Dag --------------------------------
(***************************************************************************)
(* The order of the steps of a linear flow (src/src/dag.rs), and the rule   *)
(* of the flow parser that an input is also a dependency.  A flow is a      *)
(* sequence of step records; step ids are numbers, which stand for strings  *)
(* in their order.                                                          *)
(***************************************************************************)
EXTENDS Integers, FiniteSets, Sequences, SequencesExt

(* A parsed flow: its steps are the entries of a map, so no id comes twice.  *)
IsFlow(flow) ==
    /\ flow \in Seq({flow[i] : i \in DOMAIN flow})
    /\ \A i \in DOMAIN flow : /\ flow[i].id \in Nat
                               /\ flow[i].needs \in Seq(Nat) /\ flow[i].input \in Seq(Nat)
    /\ \A i, j \in DOMAIN flow : flow[i].id = flow[j].id => i = j

Ids(flow) == {flow[i].id : i \in DOMAIN flow}

StepOf(flow, id) == flow[CHOOSE i \in DOMAIN flow : flow[i].id = id]

(* Mutant: inputs are read but do not order the steps. *)
NeedsOnly(step) == step.needs

(* `needs` of a parsed step: what the file lists, then the inputs it lacks, *)
(* one by one.                                                              *)
Needs(step) ==
    LET merged[n \in 0 .. Len(step.input)] ==
            IF n = 0 THEN step.needs
            ELSE LET sofar == merged[n - 1]
                 IN IF Contains(sofar, step.input[n]) THEN sofar
                    ELSE Append(sofar, step.input[n])
    IN merged[Len(step.input)]

(* Every reference of an accepted flow names one of its steps. *)
UnknownSteps(flow) == (UNION {ToSet(Needs(flow[i])) : i \in DOMAIN flow}) \ Ids(flow)

---------------------------------------------------------------------------
(* Kahn's algorithm.  A step that is listed twice counts twice, in its     *)
(* degree and among the dependents.                                        *)

Times(flow, id, dep) ==
    LET n == Needs(StepOf(flow, id)) IN Cardinality({k \in DOMAIN n : n[k] = dep})

Ascending(S) ==
    CHOOSE q \in [1 .. Cardinality(S) -> S] :
        \A i, j \in 1 .. Cardinality(S) : i < j => q[i] < q[j]

Start(flow) ==
    LET degree == [id \in Ids(flow) |-> Len(Needs(StepOf(flow, id)))]
    IN [degree |-> degree, order |-> <<>>,
        queue |-> Ascending({id \in Ids(flow) : degree[id] = 0})]

(* Mutant: a dependent is released by the first of its dependencies. *)
PopEarly(flow, s) ==
    LET id == Head(s.queue)
        free == {x \in Ids(flow) : /\ Times(flow, x, id) > 0
                                   /\ ~Contains(s.order, x) /\ ~Contains(s.queue, x)}
    IN [degree |-> s.degree, order |-> Append(s.order, id),
        queue |-> Tail(s.queue) \o Ascending(free)]

Pop(flow, s) ==
    LET id == Head(s.queue)
        degree == [x \in Ids(flow) |-> s.degree[x] - Times(flow, x, id)]
        free == {x \in Ids(flow) : Times(flow, x, id) > 0 /\ degree[x] = 0}
    IN [degree |-> degree, order |-> Append(s.order, id),
        queue |-> Tail(s.queue) \o Ascending(free)]

(* No step is popped twice, so as many pops as there are steps are enough.  *)
Kahn(flow) ==
    LET after[n \in 0 .. Len(flow)] ==
            IF n = 0 THEN Start(flow)
            ELSE LET s == after[n - 1] IN IF s.queue = <<>> THEN s ELSE Pop(flow, s)
    IN after[Len(flow)].order

---------------------------------------------------------------------------
(* The depth-first search that words the error.  `path` is the recursion   *)
(* stack, `next` the dependency each step looks at next, `root` the step of *)
(* the outer loop.                                                          *)

Search(flow, s) ==
    IF s.path = <<>>
    THEN IF s.root > Len(flow) THEN s
         ELSE LET id == flow[s.root].id
              IN IF id \in s.visited THEN [s EXCEPT !.root = @ + 1]
                 ELSE [s EXCEPT !.visited = @ \cup {id}, !.path = <<id>>]
    ELSE LET top  == Last(s.path)
             deps == Needs(StepOf(flow, top))
             k    == s.next[top]
             more == [s EXCEPT !.next = [@ EXCEPT ![top] = k + 1]]
         IN IF k > Len(deps) THEN [s EXCEPT !.path = Front(@)]
            ELSE IF deps[k] \notin s.visited
            THEN [more EXCEPT !.visited = @ \cup {deps[k]}, !.path = Append(@, deps[k])]
            ELSE IF Contains(s.path, deps[k])
            THEN [more EXCEPT !.cycle =
                     SubSeq(s.path, SelectInSeq(s.path, LAMBDA x : x = deps[k]), Len(s.path))
                        \o <<deps[k]>>]
            ELSE more

Listed(flow) ==
    UNION {{id} \X (1 .. Len(Needs(StepOf(flow, id)))) : id \in Ids(flow)}

(* Every step is a root once, is entered once and left once, and looks at   *)
(* each entry of its list once.                                            *)
FindCycle(flow) ==
    LET bound == 3 * Len(flow) + Cardinality(Listed(flow))
        start == [root |-> 1, path |-> <<>>, next |-> [id \in Ids(flow) |-> 1],
                  visited |-> {}, cycle |-> <<>>]
        after[n \in 0 .. bound] ==
            IF n = 0 THEN start
            ELSE LET s == after[n - 1]
                 IN IF s.cycle # <<>> THEN s ELSE Search(flow, s)
    IN after[bound].cycle

(* What validate_dag returns: an order, or the reason why there is none. *)
ValidateDag(flow) ==
    LET order == Kahn(flow)
    IN IF UnknownSteps(flow) # {} THEN [ok |-> FALSE, order |-> <<>>, cycle |-> <<>>]
       ELSE IF Len(order) # Len(flow)
       THEN [ok |-> FALSE, order |-> <<>>, cycle |-> FindCycle(flow)]
       ELSE [ok |-> TRUE, order |-> order, cycle |-> <<>>]

---------------------------------------------------------------------------
(* Reference definitions.                                                  *)

Deps(flow, id) == ToSet(Needs(StepOf(flow, id)))

(* Some steps wait for one another: no order exists. *)
Knotted(flow) ==
    \E X \in SUBSET Ids(flow) :
        X # {} /\ \A id \in X : Deps(flow, id) \cap X # {}

InOrder(flow, order) ==
    /\ order \in Seq(Ids(flow)) /\ ToSet(order) = Ids(flow)
    /\ \A i, j \in DOMAIN order : order[i] = order[j] => i = j
    /\ \A i \in DOMAIN order :
          Deps(flow, order[i]) \cup ToSet(StepOf(flow, order[i]).input)
              \subseteq {order[j] : j \in 1 .. i - 1}

Closed(flow, cycle) ==
    /\ Len(cycle) > 1 /\ cycle[1] = Last(cycle)
    /\ \A i \in 1 .. Len(cycle) - 1 : cycle[i+1] \in Deps(flow, cycle[i])

(***************************************************************************)
(* A flow is accepted exactly if every reference is known and no steps wait *)
(* for one another, and it is then ordered by its dependencies.            *)
(***************************************************************************)
AcceptedRight(flow, answer) ==
    /\ answer.ok <=> UnknownSteps(flow) = {} /\ ~Knotted(flow)
    /\ answer.ok => InOrder(flow, answer.order)

(***************************************************************************)
(* The answer is right: the above, and the cycle that the message about a   *)
(* refused flow names is one.                                              *)
(***************************************************************************)
RightAnswer(flow, answer) ==
    /\ AcceptedRight(flow, answer)
    /\ UnknownSteps(flow) = {} /\ ~answer.ok => Closed(flow, answer.cycle)
=============================================================================
