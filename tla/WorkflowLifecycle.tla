--------------------------- MODULE WorkflowLifecycle ---------------------------
(***************************************************************************)
(* One workflow under WorkflowService: drafts are edited and debugged, and *)
(* a draft that passed its debug run may be published.  A request reads    *)
(* the row once and saves later; no lock and no version is kept between.   *)
(***************************************************************************)
EXTENDS FiniteSets

CONSTANTS Graphs,          \* the draft graphs its owner may save
          Complete,        \* those that WorkflowConfig accepts
          Requests,        \* requests that may be under way at a time
          Debugs,          \* debug runs
          EditWhileDebugging, \* whether a draft may be saved during a debug run
          None             \* the empty graph

ASSUME GraphAssumption == Complete \subseteq Graphs /\ None \notin Graphs
ASSUME EditAssumption == EditWhileDebugging \in BOOLEAN

VARIABLES row,             \* the row of the workflow
          exists,          \* whether it is there
          request,         \* what each request will save, and the row as it read it
          debug,           \* the debug runs
          debugged         \* history: graphs that a debug run has run to its end

vars == <<row, exists, request, debug, debugged>>

Row == [draft_graph : Graphs \union {None}, graph : Complete \union {None},
        status : {"draft", "published"}, is_debug_passed : BOOLEAN]

Idle == [at |-> "idle"]
Results == {"none", "running", "succeeded", "failed"}

\* The types of a workflow, its requests and its debug runs; only a graph that
\* WorkflowConfig accepts is run or published.
TypeOK ==
    /\ row \in Row
    /\ exists \in BOOLEAN
    /\ request \in [Requests -> {Idle} \union
                      [at : {"edit", "publish", "cancel", "delete"}, read : Row,
                       graph : Graphs \union {None}]]
    /\ debug \in [Debugs -> [at : {"new", "open", "running", "passed", "failed", "over"},
                             graph : Complete \union {None}, result : Results]]
    /\ debugged \subseteq Complete

\* create_workflow
Init ==
    /\ row = [draft_graph |-> None, graph |-> None, status |-> "draft", is_debug_passed |-> FALSE]
    /\ exists = TRUE
    /\ request = [r \in Requests |-> Idle]
    /\ debug = [b \in Debugs |-> [at |-> "new", graph |-> None, result |-> "none"]]
    /\ debugged = {}

-----------------------------------------------------------------------------
(***************************************************************************)
(* What the ORM writes: the fields of `values' that differ from what the   *)
(* session had read, and nothing if the row is gone.                       *)
(***************************************************************************)
update(read, values) ==
    IF exists
    THEN row' = [f \in DOMAIN row |->
                   IF f \in DOMAIN values /\ values[f] # read[f] THEN values[f] ELSE row[f]]
    ELSE UNCHANGED row

Begin(r, operation, g) ==
    /\ exists
    /\ request[r] = Idle
    /\ request' = [request EXCEPT ![r] = [at |-> operation, read |-> row, graph |-> g]]
    /\ UNCHANGED <<row, exists, debug, debugged>>

Editing == \E r \in Requests : request[r].at = "edit"
Debugging == \E b \in Debugs : debug[b].at \in {"open", "running", "passed", "failed"}

BeginEdit(r, g) ==
    /\ EditWhileDebugging \/ ~Debugging
    /\ Begin(r, "edit", g)

\* Not passed, or published already, and the request is refused.
BeginPublish(r) ==
    /\ row.is_debug_passed
    /\ row.status = "draft"
    /\ Begin(r, "publish", None)

BeginCancel(r) ==
    /\ row.status = "published"
    /\ Begin(r, "cancel", None)

Save(r, operation, values) ==
    /\ request[r].at = operation
    /\ update(request[r].read, values)
    /\ request' = [request EXCEPT ![r] = Idle]
    /\ UNCHANGED <<exists, debug, debugged>>

\* Mutant: the mark of the last debug run is kept.
update_draft_graph_KeepsMark(r) ==
    Save(r, "edit", [draft_graph |-> request[r].graph])

update_draft_graph(r) ==
    Save(r, "edit", [draft_graph |-> request[r].graph, is_debug_passed |-> FALSE])

\* The draft that was read is checked once more, and it is the one published.
publish_workflow(r) ==
    LET draft == request[r].read.draft_graph
    IN Save(r, "publish",
            IF draft \in Complete
            THEN [graph |-> draft, status |-> "published", is_debug_passed |-> FALSE]
            ELSE [is_debug_passed |-> FALSE])

cancel_publish_workflow(r) ==
    Save(r, "cancel", [graph |-> None, status |-> "draft", is_debug_passed |-> FALSE])

delete_workflow(r) ==
    /\ request[r].at = "delete"
    /\ exists' = FALSE
    /\ request' = [request EXCEPT ![r] = Idle]
    /\ UNCHANGED <<row, debug, debugged>>

-----------------------------------------------------------------------------
(***************************************************************************)
(* debug_workflow: the graph is read when the request comes in and run as  *)
(* the response is streamed; its outcome is marked on the row as it then   *)
(* is.                                                                     *)
(***************************************************************************)
DebugGoes(b, from, to, result) ==
    /\ debug[b].at = from
    /\ debug' = [debug EXCEPT ![b].at = to, ![b].result = result]

\* Mutant: the graph is opened without WorkflowConfig.
OpenDebug_Unchecked(b) ==
    /\ exists
    /\ EditWhileDebugging \/ ~Editing
    /\ debug[b].at = "new"
    /\ debug' = [debug EXCEPT ![b].at = "open", ![b].graph = row.draft_graph]
    /\ UNCHANGED <<row, exists, request, debugged>>

OpenDebug(b) ==
    /\ exists
    /\ EditWhileDebugging \/ ~Editing
    /\ row.draft_graph \in Complete
    /\ debug[b].at = "new"
    /\ debug' = [debug EXCEPT ![b].at = "open", ![b].graph = row.draft_graph]
    /\ UNCHANGED <<row, exists, request, debugged>>

\* A workflow that is gone is not found again.
StartRun(b) ==
    /\ IF exists THEN DebugGoes(b, "open", "running", "running")
                 ELSE DebugGoes(b, "open", "over", "none")
    /\ UNCHANGED <<row, exists, request, debugged>>

RunEnds(b) ==
    /\ DebugGoes(b, "running", "passed", "succeeded")
    /\ debugged' = debugged \union {debug[b].graph}
    /\ UNCHANGED <<row, exists, request>>

RunFails(b) ==
    /\ DebugGoes(b, "running", "failed", "failed")
    /\ UNCHANGED <<row, exists, request, debugged>>

\* The mark is compared with the row of the moment, not with one read before.
Mark(passed) ==
    row' = IF exists THEN [row EXCEPT !.is_debug_passed = passed] ELSE row

\* A mark on a row that is gone raises, and the run counts as failed.
MarkPassed(b) ==
    /\ DebugGoes(b, "passed", "over", IF exists THEN "succeeded" ELSE "failed")
    /\ Mark(TRUE)
    /\ UNCHANGED <<exists, request, debugged>>

MarkFailed(b) ==
    /\ DebugGoes(b, "failed", "over", "failed")
    /\ Mark(FALSE)
    /\ UNCHANGED <<exists, request, debugged>>

\* The client leaves between two nodes: the generator is closed and neither
\* outcome is recorded.
Abandon(b) ==
    /\ debug[b].at \in {"open", "running"}
    /\ DebugGoes(b, debug[b].at, "over", debug[b].result)
    /\ UNCHANGED <<row, exists, request, debugged>>

debug_workflow(b) ==
    \/ OpenDebug(b) \/ StartRun(b) \/ RunEnds(b) \/ RunFails(b)
    \/ MarkPassed(b) \/ MarkFailed(b) \/ Abandon(b)

-----------------------------------------------------------------------------
Next ==
    \/ \E r \in Requests :
          \/ \E g \in Graphs : BeginEdit(r, g)
          \/ BeginPublish(r) \/ BeginCancel(r) \/ Begin(r, "delete", None)
          \/ update_draft_graph(r) \/ publish_workflow(r)
          \/ cancel_publish_workflow(r) \/ delete_workflow(r)
    \/ \E b \in Debugs : debug_workflow(b)

Spec == Init /\ [][Next]_vars

-----------------------------------------------------------------------------
\* What is published has been run to its end by a debug run: the mark that
\* admits a publication never belongs to another draft than the one published.
PublishedWasDebugged ==
    row.status = "published" => row.graph \in debugged
=============================================================================
