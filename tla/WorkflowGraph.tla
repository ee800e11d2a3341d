----------------------------- MODULE WorkflowGraph -----------------------------
(***************************************************************************)
(* A workflow from the graph a user draws to the end of its run: the loose *)
(* check of a draft, the strict check of WorkflowConfig, the LangGraph     *)
(* program that Workflow builds of it, and the rounds in which LangGraph   *)
(* runs its nodes.                                                         *)
(***************************************************************************)
EXTENDS Naturals, Sequences, FiniteSets, Functions, SequencesExt

CONSTANTS NodeLists,       \* lists of nodes that may be drawn
          CandidateEdges   \* edges that may be drawn: <<source, target>>

NodeTypes == {"start", "end", "other"}

ASSUME NodeListsAssumption ==
    \A list \in NodeLists :
       /\ Len(list) \in Nat /\ DOMAIN list = 1 .. Len(list)
       /\ \A i \in DOMAIN list : list[i].node_type \in NodeTypes

VARIABLES nodes,           \* the nodes of the graph, a list
          edges,           \* its edges
          refs,            \* the reference of a node's variables, for those that have one
          graphStage,      \* how far the graph has come
          rounds           \* the sets of nodes that ran together, in order

graphVars == <<nodes, edges, refs, graphStage, rounds>>

Ids == {nodes[i].id : i \in DOMAIN nodes}
OfType(type) == {nodes[i].id : i \in {j \in DOMAIN nodes : nodes[j].node_type = type}}

GraphTypeOK ==
    /\ nodes \in NodeLists \union {<< >>}
    /\ edges \subseteq CandidateEdges
    /\ graphStage \in {"new", "draft", "bad draft", "drawn", "bad graph", "built", "bad refs",
                       "running", "succeeded", "failed"}
    /\ \A i \in DOMAIN rounds : rounds[i] \subseteq Ids
    /\ Len(rounds) <= Len(nodes)

-----------------------------------------------------------------------------
(***************************************************************************)
(* The checks, the first three common to drafts and to WorkflowConfig.     *)
(***************************************************************************)
\* Ids and titles are unique; a graph has at most one start and one end.
ValidNodes(list) ==
    /\ IsInjective([i \in DOMAIN list |-> list[i].id])
    /\ IsInjective([i \in DOMAIN list |-> list[i].title])
    /\ \A type \in {"start", "end"} :
          Cardinality({i \in DOMAIN list : list[i].node_type = type}) <= 1

ValidEdges(ids, es) == \A e \in es : e[1] \in ids /\ e[2] \in ids

Sources(n) == {e[1] : e \in {f \in edges : f[2] = n}}
Targets(n) == {e[2] : e \in {f \in edges : f[1] = n}}

\* One node without an incoming edge, a start; one without an outgoing one, an end.
ValidDegrees ==
    /\ \E s \in OfType("start") : {n \in Ids : Sources(n) = {}} = {s}
    /\ \E t \in OfType("end") : {n \in Ids : Targets(n) = {}} = {t}

\* The number of nodes reached is compared with the entries of a defaultdict,
\* which are the sources of edges and whatever the search has looked up.
_is_connect(start) ==
    LET Reached[i \in Nat] ==
            IF i = 0 THEN {start}
            ELSE Reached[i - 1] \union UNION {Targets(n) : n \in Reached[i - 1]}
        visited == Reached[Len(nodes)]
    IN Cardinality(visited) = Cardinality(visited \union {e[1] : e \in edges})

\* Mutant: a node is visited when one of its sources was.
_is_cycle_AnySource ==
    LET Visited[i \in Nat] ==
            IF i = 0 THEN {n \in Ids : Sources(n) = {}}
            ELSE Visited[i - 1] \union {n \in Ids : Sources(n) \intersect Visited[i - 1] # {}}
    IN Visited[Len(nodes)] # Ids

\* Kahn: a node is visited when all its sources have been.
_is_cycle ==
    LET Visited[i \in Nat] ==
            IF i = 0 THEN {}
            ELSE Visited[i - 1] \union {n \in Ids : Sources(n) \subseteq Visited[i - 1]}
    IN Visited[Len(nodes)] # Ids

ValidGraph ==
    /\ ValidNodes(nodes)
    /\ ValidEdges(Ids, edges)
    /\ ValidDegrees
    /\ \A start \in OfType("start") : _is_connect(start)
    /\ ~_is_cycle

\* Everything from which the node can be reached, itself excepted.
_get_predecessors(n) ==
    LET Back[i \in Nat] ==
            IF i = 0 THEN Sources(n)
            ELSE Back[i - 1] \union UNION {Sources(m) : m \in Back[i - 1]}
    IN Back[Len(nodes)] \ {n}

\* A reference names a node and a variable, which that node has or has not.
NodeReferences == [node : Ids, known : BOOLEAN]

_validate_inputs_ref ==
    \A n \in DOMAIN refs : refs[n].node \in _get_predecessors(n) /\ refs[n].known

-----------------------------------------------------------------------------
(***************************************************************************)
(* The graph is drawn, saved as a draft, checked, and filled with          *)
(* references; the two halves of WorkflowConfig's check are two actions    *)
(* only so that graphs it refuses need no references.                      *)
(***************************************************************************)
GraphInit ==
    /\ nodes = << >>
    /\ edges = {}
    /\ refs = [n \in {} |-> n]
    /\ graphStage = "new"
    /\ rounds = << >>

\* update_draft_graph
_validate_graph ==
    /\ graphStage = "new"
    /\ \E list \in NodeLists :
          \/ /\ ~ValidNodes(list)
             /\ nodes' = list
             /\ graphStage' = "bad draft"
             /\ UNCHANGED edges
          \/ /\ ValidNodes(list)
             /\ nodes' = list
             /\ \E es \in SUBSET CandidateEdges :
                   /\ edges' = es
                   /\ graphStage' = IF ValidEdges({list[i].id : i \in DOMAIN list}, es)
                                    THEN "draft" ELSE "bad draft"
    /\ UNCHANGED <<refs, rounds>>

validate_workflow_config ==
    /\ graphStage = "draft"
    /\ graphStage' = IF ValidGraph THEN "drawn" ELSE "bad graph"
    /\ UNCHANGED <<nodes, edges, refs, rounds>>

\* Only a start node's variables are not looked at.
ValidateReferences ==
    \/ /\ graphStage = "drawn"
       /\ refs = [n \in {} |-> n]
       /\ \E referring \in SUBSET (Ids \ OfType("start")) :
             /\ referring # {}
             /\ refs' \in [referring -> NodeReferences]
       /\ UNCHANGED <<nodes, edges, graphStage, rounds>>
    \/ /\ graphStage = "drawn"
       /\ graphStage' = IF _validate_inputs_ref THEN "built" ELSE "bad refs"
       /\ UNCHANGED <<nodes, edges, refs, rounds>>

-----------------------------------------------------------------------------
(***************************************************************************)
(* The run.  The nodes of a round do not see each other's results; a node  *)
(* is triggered when all the sources of its joined edge have run.          *)
(***************************************************************************)
HaveRun == UNION {rounds[i] : i \in DOMAIN rounds}

\* Mutant: each edge triggers its target by itself.
Triggered_Unjoined == {n \in Ids \ HaveRun : Sources(n) \intersect HaveRun # {}}

Triggered == {n \in Ids \ HaveRun : Sources(n) # {} /\ Sources(n) \subseteq HaveRun}

\* The entry point of _build_workflow is the start node.
Invoke ==
    /\ graphStage = "built"
    /\ graphStage' = "running"
    /\ rounds' = <<OfType("start")>>
    /\ UNCHANGED <<nodes, edges, refs>>

RunRound ==
    /\ graphStage = "running"
    /\ Triggered # {}
    /\ rounds' = Append(rounds, Triggered)
    /\ UNCHANGED <<nodes, edges, refs, graphStage>>

\* The exception of a node leaves the run.
NodeFails ==
    /\ graphStage = "running"
    /\ graphStage' = "failed"
    /\ UNCHANGED <<nodes, edges, refs, rounds>>

InvokeEnds ==
    /\ graphStage = "running"
    /\ Triggered = {}
    /\ graphStage' = "succeeded"
    /\ UNCHANGED <<nodes, edges, refs, rounds>>

GraphNext ==
    \/ _validate_graph \/ validate_workflow_config \/ ValidateReferences
    \/ Invoke \/ RunRound \/ NodeFails \/ InvokeEnds

GraphSpec == GraphInit /\ [][GraphNext]_graphVars

-----------------------------------------------------------------------------
\* The checks of drafts and of WorkflowConfig, one after the other, accept a graph
\* if and only if it can be run: names are unique, start is the only way in and end
\* the only way out, and the nodes can be put in an order that all edges follow.
AcceptsExactly ==
    LET runnable ==
            /\ ValidNodes(nodes)
            /\ UNION {{e[1], e[2]} : e \in edges} \subseteq Ids
            /\ Ids \ {e[2] : e \in edges} = OfType("start") /\ OfType("start") # {}
            /\ Ids \ {e[1] : e \in edges} = OfType("end") /\ OfType("end") # {}
            /\ \E rank \in [Ids -> 1 .. Len(nodes)] : \A e \in edges : rank[e[1]] < rank[e[2]]
    IN /\ graphStage \in {"drawn", "built", "bad refs", "running", "succeeded", "failed"} => runnable
       /\ graphStage \in {"bad draft", "bad graph"} => ~runnable

\* extract_variables_from_state leaves a variable out, silently, when the node it
\* refers to has no result yet: in an accepted graph that node has always run.
ReferencesResolve ==
    \A i \in DOMAIN rounds : \A n \in rounds[i] \intersect DOMAIN refs :
        \E j \in 1 .. i - 1 : refs[n].node \in rounds[j]
=============================================================================
