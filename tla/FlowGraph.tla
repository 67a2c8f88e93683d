----------------------------- MODULE FlowGraph ------------------------------
(***************************************************************************)
(* The conversation as a graph: flow.yaml, and the checks of               *)
(* src/flow/runner/graph.py that refuse to load a broken one.              *)
(* A node is a record of its tools, the status it sets, and its way out:   *)
(* one next node, or a branch from outcomes to nodes, or neither.          *)
(***************************************************************************)
EXTENDS Naturals, FiniteSets, Functions

CONSTANTS
    Node,            \* names of the nodes
    Entry,
    Flow,            \* node -> its record
    Tool,            \* known_tools, by the name the model calls them
    NoNode

IsTerminal(n) == Flow[n].next = NoNode /\ DOMAIN Flow[n].branch = {}

Exits(n) ==
    IF Flow[n].next # NoNode THEN {Flow[n].next} ELSE Range(Flow[n].branch)

OneWayOutOrSeveral(n) == ~(Flow[n].next # NoNode /\ DOMAIN Flow[n].branch # {})

\* Everything the entry leads to, in at most k steps.
Reached[k \in 0 .. Cardinality(Node)] ==
    IF k = 0 THEN {Entry}
    ELSE LET before == Reached[k - 1]
         IN  before \cup UNION {Exits(n) : n \in before}

HangsTogether ==
    /\ Entry \in Node
    /\ \A n \in Node :
        /\ OneWayOutOrSeveral(n)
        /\ Exits(n) \subseteq Node
        /\ Flow[n].tools \subseteq Tool
        /\ ~IsTerminal(n) => "step_finished" \in Flow[n].tools
    /\ Reached[Cardinality(Node)] = Node

\* load raises BrokenFlow on any other graph.
ASSUME FlowAssumption == NoNode \notin Node /\ HangsTogether

\* A last step is not given the tool that moves on.  Nothing checks it (graph.py:136
\* asks the tool of the other steps only); flow.yaml keeps to it.
LastStepsDoNotMoveOn ==
    \A n \in Node : IsTerminal(n) => "step_finished" \notin Flow[n].tools
=============================================================================
