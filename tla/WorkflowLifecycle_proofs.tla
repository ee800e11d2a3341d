------------------------ MODULE WorkflowLifecycle_proofs ------------------------
(***************************************************************************)
(* Theorems about WorkflowLifecycle, for every set of graphs, requests and *)
(* debug runs, and about WorkflowGraph, for every set of lists of nodes    *)
(* and every set of edges.                                                 *)
(***************************************************************************)
EXTENDS WorkflowLifecycle, WorkflowGraph, TLAPS, WellFoundedInduction, FiniteSetTheorems

Columns == {"draft_graph", "graph", "status", "is_debug_passed"}

\* Every row has the same four fields.
LEMMA RowFields ==
    ASSUME NEW x \in Row
    PROVE  /\ DOMAIN x = Columns
           /\ x.draft_graph \in Graphs \union {None}
           /\ x.graph \in Complete \union {None}
           /\ x.status \in {"draft", "published"}
           /\ x.is_debug_passed \in BOOLEAN
           /\ x = [draft_graph |-> x.draft_graph, graph |-> x.graph,
                   status |-> x.status, is_debug_passed |-> x.is_debug_passed]
  BY DEF Row, Columns

\* What the ORM writes, field by field.
LEMMA UpdateWrites ==
    ASSUME row \in Row, exists, NEW read, NEW values, update(read, values)
    PROVE  /\ row' = [draft_graph |-> row'.draft_graph, graph |-> row'.graph,
                      status |-> row'.status, is_debug_passed |-> row'.is_debug_passed]
           /\ \A f \in Columns : row'[f] = IF f \in DOMAIN values /\ values[f] # read[f]
                                          THEN values[f] ELSE row[f]
<1> DEFINE w(f) == IF f \in DOMAIN values /\ values[f] # read[f] THEN values[f] ELSE row[f]
<1>1. row' = [f \in Columns |-> w(f)]
  BY RowFields DEF update
<1>2. row'.draft_graph = w("draft_graph") /\ row'.graph = w("graph")
      /\ row'.status = w("status") /\ row'.is_debug_passed = w("is_debug_passed")
  BY <1>1 DEF Columns
<1> HIDE DEF w
<1>3. row' = [draft_graph |-> w("draft_graph"), graph |-> w("graph"),
              status |-> w("status"), is_debug_passed |-> w("is_debug_passed")]
  BY <1>1 DEF Columns
<1>4. \A f \in Columns : row'[f] = w(f)
  BY <1>1
<1> QED
  BY <1>2, <1>3, <1>4 DEF w

\* What is written are graphs and marks, so the row stays one.
Writable(values) ==
    /\ "draft_graph" \in DOMAIN values => values.draft_graph \in Graphs \union {None}
    /\ "graph" \in DOMAIN values => values.graph \in Complete \union {None}
    /\ "status" \in DOMAIN values => values.status \in {"draft", "published"}
    /\ "is_debug_passed" \in DOMAIN values => values.is_debug_passed = FALSE

LEMMA UpdatedRow ==
    ASSUME row \in Row, exists, NEW read \in Row, NEW values, Writable(values),
           update(read, values)
    PROVE  /\ row' \in Row
           /\ row'.draft_graph = IF "draft_graph" \in DOMAIN values /\ values.draft_graph # read.draft_graph
                                 THEN values.draft_graph ELSE row.draft_graph
           /\ row'.graph = IF "graph" \in DOMAIN values /\ values.graph # read.graph
                           THEN values.graph ELSE row.graph
           /\ row'.status = IF "status" \in DOMAIN values /\ values.status # read.status
                            THEN values.status ELSE row.status
           /\ row'.is_debug_passed => row.is_debug_passed
           /\ "is_debug_passed" \in DOMAIN values /\ read.is_debug_passed => ~row'.is_debug_passed
<1>1. /\ row' = [draft_graph |-> row'.draft_graph, graph |-> row'.graph,
                 status |-> row'.status, is_debug_passed |-> row'.is_debug_passed]
      /\ \A f \in Columns : row'[f] = IF f \in DOMAIN values /\ values[f] # read[f]
                                          THEN values[f] ELSE row[f]
  BY UpdateWrites
<1>2. /\ row'.draft_graph = IF "draft_graph" \in DOMAIN values /\ values.draft_graph # read.draft_graph
                            THEN values.draft_graph ELSE row.draft_graph
      /\ row'.graph = IF "graph" \in DOMAIN values /\ values.graph # read.graph
                      THEN values.graph ELSE row.graph
      /\ row'.status = IF "status" \in DOMAIN values /\ values.status # read.status
                       THEN values.status ELSE row.status
  BY <1>1 DEF Columns
<1>3. row'.is_debug_passed =
        IF "is_debug_passed" \in DOMAIN values /\ values.is_debug_passed # read.is_debug_passed
        THEN values.is_debug_passed ELSE row.is_debug_passed
  BY <1>1 DEF Columns
<1>4. /\ row'.is_debug_passed \in BOOLEAN
      /\ row'.is_debug_passed => row.is_debug_passed
      /\ "is_debug_passed" \in DOMAIN values /\ read.is_debug_passed => ~row'.is_debug_passed
  BY <1>3, RowFields DEF Writable
<1>5. /\ row'.draft_graph \in Graphs \union {None}
      /\ row'.graph \in Complete \union {None}
      /\ row'.status \in {"draft", "published"}
  BY <1>2, RowFields DEF Writable
<1>6. row' \in Row
  BY <1>1, <1>4, <1>5 DEF Row
<1> QED
  BY <1>2, <1>4, <1>6
-----------------------------------------------------------------------------
(***************************************************************************)
(* What each step does to the row.                                         *)
(***************************************************************************)
\* A request as it stands between its read and its save.
Pending == [at : {"edit", "publish", "cancel", "delete"}, read : Row,
            graph : Graphs \union {None}]

\* Saving a draft.
LEMMA EditRow ==
    ASSUME TypeOK, NEW r \in Requests, update_draft_graph(r)
    PROVE  /\ request[r] \in Pending /\ request[r].at = "edit"
           /\ row' \in Row
           /\ row'.graph = row.graph /\ row'.status = row.status
           /\ row'.is_debug_passed => row.is_debug_passed
           /\ exists /\ request[r].read.is_debug_passed => ~row'.is_debug_passed
           /\ ~exists => row' = row
<1>1. request[r].at = "edit" /\ request[r] \in Pending
  BY DEF update_draft_graph, Save, TypeOK, Idle, Pending
<1> DEFINE values == [draft_graph |-> request[r].graph, is_debug_passed |-> FALSE]
<1>2. update(request[r].read, values) /\ Writable(values) /\ request[r].read \in Row /\ row \in Row
  BY <1>1 DEF update_draft_graph, Save, Writable, Pending, TypeOK
<1>3. CASE exists
  BY <1>1, <1>2, <1>3, UpdatedRow
<1>4. CASE ~exists
  BY <1>1, <1>2, <1>4 DEF update
<1> QED
  BY <1>3, <1>4

\* Publishing.
LEMMA PublishRow ==
    ASSUME TypeOK, NEW r \in Requests, publish_workflow(r)
    PROVE  /\ request[r] \in Pending /\ request[r].at = "publish"
           /\ row' \in Row
           /\ row'.draft_graph = row.draft_graph
           /\ row'.is_debug_passed => row.is_debug_passed
           /\ \/ row'.graph = row.graph /\ row'.status = row.status
              \/ LET read == request[r].read
                 IN /\ read.draft_graph \in Complete
                    /\ row'.graph = IF read.draft_graph # read.graph
                                    THEN read.draft_graph ELSE row.graph
                    /\ row'.status = IF read.status # "published" THEN "published" ELSE row.status
<1>1. request[r].at = "publish" /\ request[r] \in Pending
  BY DEF publish_workflow, Save, TypeOK, Idle, Pending
<1> DEFINE read == request[r].read
<1>2. read \in Row /\ row \in Row
  BY <1>1 DEF Pending, TypeOK
<1>3. CASE ~exists
  BY <1>1, <1>2, <1>3 DEF publish_workflow, Save, update
<1>4. CASE exists /\ read.draft_graph \in Complete
  <2> DEFINE values == [graph |-> read.draft_graph, status |-> "published", is_debug_passed |-> FALSE]
  <2>1. update(read, values) /\ Writable(values)
    BY <1>4 DEF publish_workflow, Save, Writable
  <2> QED
    BY <1>1, <1>2, <1>4, <2>1, UpdatedRow
<1>5. CASE exists /\ read.draft_graph \notin Complete
  <2> DEFINE values == [is_debug_passed |-> FALSE]
  <2>1. update(read, values) /\ Writable(values)
    BY <1>5 DEF publish_workflow, Save, Writable
  <2> QED
    BY <1>1, <1>2, <1>5, <2>1, UpdatedRow
<1> QED
  BY <1>3, <1>4, <1>5

\* Cancelling.
LEMMA CancelRow ==
    ASSUME TypeOK, NEW r \in Requests, cancel_publish_workflow(r)
    PROVE  /\ request[r] \in Pending /\ request[r].at = "cancel"
           /\ row' \in Row
           /\ row'.draft_graph = row.draft_graph
           /\ row'.is_debug_passed => row.is_debug_passed
           /\ \/ row' = row
              \/ LET read == request[r].read
                 IN /\ row'.graph = IF None # read.graph THEN None ELSE row.graph
                    /\ row'.status = IF read.status # "draft" THEN "draft" ELSE row.status
<1>1. request[r].at = "cancel" /\ request[r] \in Pending
  BY DEF cancel_publish_workflow, Save, TypeOK, Idle, Pending
<1> DEFINE values == [graph |-> None, status |-> "draft", is_debug_passed |-> FALSE]
<1>2. update(request[r].read, values) /\ Writable(values) /\ request[r].read \in Row /\ row \in Row
  BY <1>1 DEF cancel_publish_workflow, Save, Writable, Pending, TypeOK
<1>3. CASE exists
  BY <1>1, <1>2, <1>3, UpdatedRow
<1>4. CASE ~exists
  BY <1>1, <1>2, <1>4 DEF update
<1> QED
  BY <1>3, <1>4

-----------------------------------------------------------------------------
(***************************************************************************)
(* Types.                                                                  *)
(***************************************************************************)
Run == [at : {"new", "open", "running", "passed", "failed", "over"},
        graph : Complete \union {None}, result : Results]

\* A debug run that was opened runs a graph.
RunsHaveGraphs == \A b \in Debugs : debug[b].at # "new" => debug[b].graph \in Complete

Typed == TypeOK /\ RunsHaveGraphs

\* A request that begins.
LEMMA BeginTyped ==
    ASSUME TypeOK, NEW r \in Requests, NEW op \in {"edit", "publish", "cancel", "delete"},
           NEW g \in Graphs \union {None}, Begin(r, op, g)
    PROVE  request' \in [Requests -> {Idle} \union Pending]
<1>1. [at |-> op, read |-> row, graph |-> g] \in Pending
  BY DEF Pending, TypeOK
<1> QED
  BY <1>1 DEF Begin, TypeOK, Pending

\* Every step of a debug run replaces one record by another.
LEMMA RunTyped ==
    ASSUME Typed, NEW b \in Debugs, debug_workflow(b)
    PROVE  /\ debug' \in [Debugs -> Run]
           /\ RunsHaveGraphs'
           /\ row' \in Row
           /\ debugged' \subseteq Complete
<1> USE DEF Typed, RunsHaveGraphs
<1>1. /\ debug \in [Debugs -> Run] /\ debugged \subseteq Complete /\ row \in Row
      /\ debug[b] \in Run
  BY DEF TypeOK, Run
<1>2. ASSUME NEW from, NEW to \in {"running", "passed", "failed", "over"}, NEW result \in Results,
             from # "new", DebugGoes(b, from, to, result)
      PROVE  /\ debug' \in [Debugs -> Run]
             /\ RunsHaveGraphs'
             /\ debug[b].graph \in Complete
  <2>1. /\ debug' = [debug EXCEPT ![b] = [@ EXCEPT !.at = to, !.result = result]]
        /\ debug[b].at = from
    BY <1>1, <1>2 DEF DebugGoes
  <2>2. [debug[b] EXCEPT !.at = to, !.result = result] \in Run
    BY <1>1, <1>2 DEF Run
  <2>3. debug' \in [Debugs -> Run]
    BY <1>1, <2>1, <2>2
  <2>4. \A c \in Debugs : debug'[c].graph = debug[c].graph
    BY <1>1, <2>1 DEF Run
  <2>5. \A c \in Debugs : debug'[c].at # "new" => debug[c].at # "new"
    BY <1>1, <1>2, <2>1 DEF Run
  <2> QED
    BY <1>2, <2>1, <2>3, <2>4, <2>5
<1>3. CASE OpenDebug(b)
  <2>1. debug' = [debug EXCEPT ![b] = [@ EXCEPT !.at = "open", !.graph = row.draft_graph]]
    BY <1>1, <1>3 DEF OpenDebug
  <2>2. [debug[b] EXCEPT !.at = "open", !.graph = row.draft_graph] \in Run
    BY <1>1, <1>3 DEF Run, OpenDebug
  <2>3. debug' \in [Debugs -> Run]
    BY <1>1, <2>1, <2>2
  <2>4. debug'[b].graph \in Complete
    BY <1>1, <1>3, <2>1 DEF OpenDebug, Run
  <2> QED
    BY <1>1, <1>3, <2>1, <2>3, <2>4 DEF OpenDebug
<1>4. CASE StartRun(b) \/ RunFails(b)
  BY <1>1, <1>2, <1>4 DEF StartRun, RunFails, Results
<1>5. CASE RunEnds(b)
  BY <1>1, <1>2, <1>5 DEF RunEnds, Results
<1>6. CASE MarkPassed(b) \/ MarkFailed(b)
  <2>1. row' \in Row
    BY <1>1, <1>6 DEF MarkPassed, MarkFailed, Mark, Row
  <2> QED
    BY <1>1, <1>2, <1>6, <2>1 DEF MarkPassed, MarkFailed, Results
<1>7. CASE Abandon(b)
  <2>1. debug[b].at \in {"open", "running"} /\ debug[b].result \in Results
    BY <1>1, <1>7 DEF Abandon, Run
  <2> QED
    BY <1>1, <1>2, <1>7, <2>1 DEF Abandon
<1> QED
  BY <1>3, <1>4, <1>5, <1>6, <1>7 DEF debug_workflow

LEMMA TypedStep ==
    ASSUME Typed, [Next]_vars
    PROVE  Typed'
<1> USE DEF Typed
<1>1. /\ debug \in [Debugs -> Run] /\ request \in [Requests -> {Idle} \union Pending]
      /\ row \in Row /\ exists \in BOOLEAN /\ debugged \subseteq Complete
  BY DEF TypeOK, Run, Pending
<1>2. ASSUME row' \in Row, exists' \in BOOLEAN,
             request' \in [Requests -> {Idle} \union Pending], UNCHANGED <<debug, debugged>>
      PROVE  Typed'
  BY <1>1, <1>2 DEF TypeOK, Run, Pending, RunsHaveGraphs
<1>3. ASSUME NEW r \in Requests, NEW op \in {"edit", "publish", "cancel", "delete"},
             NEW g \in Graphs \union {None}, Begin(r, op, g)
      PROVE  Typed'
  BY <1>1, <1>2, <1>3, BeginTyped DEF Begin
<1>4. ASSUME NEW r \in Requests, update_draft_graph(r) \/ publish_workflow(r)
                                    \/ cancel_publish_workflow(r) \/ delete_workflow(r)
      PROVE  Typed'
  <2>1. /\ request' \in [Requests -> {Idle} \union Pending]
        /\ exists' \in BOOLEAN
        /\ UNCHANGED <<debug, debugged>>
    BY <1>1, <1>4 DEF update_draft_graph, publish_workflow, cancel_publish_workflow,
       delete_workflow, Save
  <2>2. row' \in Row
    BY <1>1, <1>4, EditRow, PublishRow, CancelRow DEF delete_workflow
  <2> QED
    BY <1>2, <2>1, <2>2
<1>5. ASSUME NEW b \in Debugs, debug_workflow(b)
      PROVE  Typed'
  <2>1. UNCHANGED <<request, exists>>
    BY <1>5 DEF debug_workflow, OpenDebug, StartRun, RunEnds, RunFails, MarkPassed,
       MarkFailed, Abandon
  <2>2. debug' \in [Debugs -> Run] /\ RunsHaveGraphs' /\ row' \in Row /\ debugged' \subseteq Complete
    BY <1>5, RunTyped
  <2> QED
    BY <1>1, <2>1, <2>2 DEF TypeOK, Run, Pending
<1>6. CASE UNCHANGED vars
  BY <1>1, <1>2, <1>6 DEF vars
<1>7. ASSUME NEW r \in Requests,
             (\E g \in Graphs : BeginEdit(r, g)) \/ BeginPublish(r) \/ BeginCancel(r)
                \/ Begin(r, "delete", None)
      PROVE  Typed'
  BY <1>3, <1>7 DEF BeginEdit, BeginPublish, BeginCancel
<1> QED
  BY <1>4, <1>5, <1>6, <1>7 DEF Next

LEMMA TypedInit == Init => Typed
<1> SUFFICES ASSUME Init PROVE Typed
  OBVIOUS
<1>1. row \in Row
  BY DEF Init, Row
<1>2. debug \in [Debugs -> Run] /\ RunsHaveGraphs
  BY DEF Init, Run, Results, RunsHaveGraphs
<1> QED
  BY <1>1, <1>2 DEF Init, Typed, TypeOK, Run

LEMMA TypedInvariant == Spec => []Typed
  BY TypedInit, TypedStep, PTL DEF Spec

\* The row, the requests and the debug runs keep their types; in particular no
\* graph that WorkflowConfig refuses is ever run or published, even where a
\* draft is saved during a debug run.
THEOREM WorkflowTypeCorrect == Spec => []TypeOK
<1>1. Typed => TypeOK
  BY DEF Typed
<1> QED
  BY <1>1, TypedInvariant, PTL

-----------------------------------------------------------------------------
(***************************************************************************)
(* Publication.  PublishedWasDebugged is not inductive: one needs that the *)
(* mark vouches for the draft the row has, that a request that is about to *)
(* publish has read such a row, and, for both, that the draft a debug run  *)
(* runs is still the row's when the run is marked.                         *)
(***************************************************************************)
Earned ==
    /\ row.is_debug_passed => row.draft_graph \in debugged
    /\ row.status = "draft" => row.graph = None
    /\ PublishedWasDebugged

\* What a pending request has read, and what of it still holds.
StillHolds(r) ==
    /\ request[r].at = "publish" => /\ request[r].read.status = "draft"
                                    /\ request[r].read.graph = None
                                    /\ request[r].read.draft_graph \in debugged
    /\ request[r].at = "cancel" => /\ request[r].read.status = "published"
                                   /\ request[r].read.graph # None
    /\ request[r].at = "edit" /\ row.is_debug_passed => request[r].read.is_debug_passed

OpenRuns == {"open", "running", "passed", "failed"}

RunsTheDraft(b) ==
    /\ debug[b].at \in OpenRuns => debug[b].graph = row.draft_graph
    /\ debug[b].at = "passed" => debug[b].graph \in debugged

Apart == ~(Editing /\ Debugging)

PublicationInv ==
    /\ Earned
    /\ \A r \in Requests : StillHolds(r)
    /\ \A b \in Debugs : RunsTheDraft(b)
    /\ Apart

\* A request reads the row as it is.
LEMMA BeginHolds ==
    ASSUME Typed, PublicationInv, NEW r \in Requests,
           NEW op \in {"edit", "publish", "cancel", "delete"}, NEW g \in Graphs \union {None},
           Begin(r, op, g),
           op = "publish" => row.is_debug_passed /\ row.status = "draft",
           op = "cancel" => row.status = "published",
           op = "edit" => ~Debugging
    PROVE  PublicationInv'
<1> USE DEF PublicationInv
<1>1. /\ UNCHANGED <<row, exists, debug, debugged>>
      /\ request' = [request EXCEPT ![r] = [at |-> op, read |-> row, graph |-> g]]
      /\ request \in [Requests -> {Idle} \union Pending]
      /\ debugged \subseteq Complete
  BY DEF Begin, Typed, TypeOK, Pending
<1>2. /\ request'[r].at = op /\ request'[r].read = row
      /\ \A q \in Requests \ {r} : request'[q] = request[q]
  BY <1>1
<1>3. Earned' /\ \A b \in Debugs : RunsTheDraft(b)'
  BY <1>1 DEF Earned, PublishedWasDebugged, RunsTheDraft
<1>4. ASSUME NEW q \in Requests
      PROVE  StillHolds(q)'
  <2>1. CASE q = r
    BY <1>1, <1>2, <2>1, GraphAssumption DEF StillHolds, Earned, PublishedWasDebugged
  <2>2. CASE q # r
    BY <1>1, <1>2, <2>2 DEF StillHolds
  <2> QED
    BY <2>1, <2>2
<1>5. Apart'
  <2>1. Debugging' = Debugging
    BY <1>1 DEF Debugging
  <2>2. CASE op = "edit"
    BY <2>1, <2>2 DEF Apart
  <2>3. CASE op # "edit"
    BY <1>2, <2>1, <2>3 DEF Apart, Editing
  <2> QED
    BY <2>2, <2>3
<1> QED
  BY <1>3, <1>4, <1>5

\* A request saves and is idle again.
LEMMA SaveHolds ==
    ASSUME Typed, PublicationInv, NEW r \in Requests,
           request' = [request EXCEPT ![r] = Idle], UNCHANGED <<debug, debugged>>,
           Earned', row'.is_debug_passed => row.is_debug_passed,
           row'.draft_graph = row.draft_graph \/ ~Debugging
    PROVE  PublicationInv'
<1> USE DEF PublicationInv
<1>1. /\ request'[r].at = "idle"
      /\ \A q \in Requests \ {r} : request'[q] = request[q]
  BY DEF Typed, TypeOK, Idle
<1>2. \A q \in Requests : StillHolds(q)'
  BY <1>1 DEF StillHolds
<1>3. Apart'
  <2>1. Editing' => Editing
    BY <1>1 DEF Editing
  <2>2. Debugging' = Debugging
    BY DEF Debugging
  <2> QED
    BY <2>1, <2>2 DEF Apart
<1>4. \A b \in Debugs : RunsTheDraft(b)'
  BY DEF RunsTheDraft, Debugging, OpenRuns
<1> QED
  BY <1>2, <1>3, <1>4

\* A step of a debug run.
LEMMA DebugHolds ==
    ASSUME Typed, PublicationInv, ~EditWhileDebugging, NEW b \in Debugs, debug_workflow(b)
    PROVE  PublicationInv'
<1> USE DEF PublicationInv
<1>0. /\ debug \in [Debugs -> Run] /\ debug[b] \in Run /\ row \in Row
      /\ UNCHANGED <<request, exists>>
      /\ Editing' = Editing
  BY DEF Typed, TypeOK, Run, debug_workflow, OpenDebug, StartRun, RunEnds, RunFails,
     MarkPassed, MarkFailed, Abandon, Editing
<1>1. ASSUME NEW from \in OpenRuns, NEW to \in {"running", "passed", "failed", "over"}, NEW result,
             DebugGoes(b, from, to, result),
             debugged \subseteq debugged',
             to = "passed" => debug[b].graph \in debugged',
             Earned', row'.draft_graph = row.draft_graph,
             row'.is_debug_passed => row.is_debug_passed \/ Debugging
      PROVE  PublicationInv'
  <2>1. /\ debug'[b].at = to /\ debug'[b].graph = debug[b].graph
        /\ debug[b].at = from
        /\ \A c \in Debugs \ {b} : debug'[c] = debug[c]
    BY <1>0, <1>1 DEF DebugGoes, Run
  <2>2. Debugging
    BY <1>1, <2>1 DEF Debugging, OpenRuns
  <2>3. ~Editing /\ Apart'
    BY <1>0, <2>2 DEF Apart
  <2>4. \A c \in Debugs : RunsTheDraft(c)'
    BY <1>1, <2>1 DEF RunsTheDraft, OpenRuns
  <2>5. \A r \in Requests : request[r].at # "edit"
    BY <2>3 DEF Editing
  <2>6. \A r \in Requests : StillHolds(r)'
    BY <1>0, <1>1, <2>5 DEF StillHolds
  <2> QED
    BY <1>1, <2>3, <2>4, <2>6
<1>2. CASE OpenDebug(b)
  <2>1. /\ debug'[b].at = "open" /\ debug'[b].graph = row.draft_graph
        /\ \A c \in Debugs \ {b} : debug'[c] = debug[c]
        /\ UNCHANGED <<row, debugged>>
        /\ ~Editing
    BY <1>0, <1>2 DEF OpenDebug, Run
  <2>2. Earned' /\ \A r \in Requests : StillHolds(r)'
    BY <1>0, <2>1 DEF Earned, PublishedWasDebugged, StillHolds
  <2>3. \A c \in Debugs : RunsTheDraft(c)'
    BY <2>1 DEF RunsTheDraft
  <2>4. Apart'
    BY <1>0, <2>1 DEF Apart
  <2> QED
    BY <2>2, <2>3, <2>4
<1>3. CASE StartRun(b) \/ RunFails(b) \/ Abandon(b)
  <2>1. UNCHANGED <<row, debugged>>
    BY <1>3 DEF StartRun, RunFails, Abandon
  <2>2. Earned'
    BY <2>1 DEF Earned, PublishedWasDebugged
  <2> QED
    BY <1>1, <1>3, <2>1, <2>2 DEF StartRun, RunFails, Abandon, OpenRuns
<1>4. CASE RunEnds(b)
  <2>1. Earned'
    BY <1>4 DEF RunEnds, Earned, PublishedWasDebugged
  <2> QED
    BY <1>1, <1>4, <2>1 DEF RunEnds, OpenRuns
<1>5. CASE MarkPassed(b)
  <2>1. debug[b].at = "passed" /\ debug[b].graph \in debugged /\ debug[b].graph = row.draft_graph
    BY <1>5 DEF MarkPassed, DebugGoes, RunsTheDraft, OpenRuns
  <2>2. /\ row'.draft_graph = row.draft_graph /\ row'.graph = row.graph
        /\ row'.status = row.status /\ debugged' = debugged
    BY <1>0, <1>5 DEF MarkPassed, Mark, Row
  <2>3. Earned'
    BY <2>1, <2>2 DEF Earned, PublishedWasDebugged
  <2>4. Debugging
    BY <2>1 DEF Debugging
  <2> QED
    BY <1>1, <1>5, <2>2, <2>3, <2>4 DEF MarkPassed, OpenRuns
<1>6. CASE MarkFailed(b)
  <2>1. /\ row'.draft_graph = row.draft_graph /\ row'.graph = row.graph
        /\ row'.status = row.status /\ debugged' = debugged
        /\ row'.is_debug_passed => row.is_debug_passed
    BY <1>0, <1>6 DEF MarkFailed, Mark, Row
  <2>2. Earned'
    BY <2>1 DEF Earned, PublishedWasDebugged
  <2> QED
    BY <1>1, <1>6, <2>1, <2>2 DEF MarkFailed, OpenRuns
<1> QED
  BY <1>2, <1>3, <1>4, <1>5, <1>6 DEF debug_workflow

LEMMA PublicationStep ==
    ASSUME Typed, PublicationInv, ~EditWhileDebugging, [Next]_vars
    PROVE  PublicationInv'
<1> USE DEF PublicationInv
<1>0. TypeOK /\ debugged \subseteq Complete
  BY DEF Typed, TypeOK
<1>1. ASSUME NEW r \in Requests, NEW g \in Graphs, BeginEdit(r, g)
      PROVE  PublicationInv'
  BY <1>1, BeginHolds DEF BeginEdit
<1>2. ASSUME NEW r \in Requests, BeginPublish(r) \/ BeginCancel(r) \/ Begin(r, "delete", None)
      PROVE  PublicationInv'
  BY <1>2, BeginHolds DEF BeginPublish, BeginCancel
<1>3. ASSUME NEW r \in Requests, update_draft_graph(r)
      PROVE  PublicationInv'
  <2>1. /\ request[r].at = "edit"
        /\ row'.graph = row.graph /\ row'.status = row.status
        /\ row'.is_debug_passed => row.is_debug_passed
        /\ exists /\ request[r].read.is_debug_passed => ~row'.is_debug_passed
        /\ ~exists => row' = row
    BY <1>0, <1>3, EditRow
  <2>2. /\ request' = [request EXCEPT ![r] = Idle] /\ UNCHANGED <<debug, debugged>>
    BY <1>3 DEF update_draft_graph, Save
  <2>3. ~Debugging
    BY <2>1 DEF Apart, Editing
  <2>4. Earned'
    BY <2>1, <2>2 DEF Earned, PublishedWasDebugged, StillHolds
  <2> QED
    BY <2>1, <2>2, <2>3, <2>4, SaveHolds
<1>4. ASSUME NEW r \in Requests, publish_workflow(r)
      PROVE  PublicationInv'
  <2>1. /\ request[r].at = "publish"
        /\ row'.draft_graph = row.draft_graph
        /\ row'.is_debug_passed => row.is_debug_passed
        /\ \/ row'.graph = row.graph /\ row'.status = row.status
           \/ LET read == request[r].read
              IN /\ read.draft_graph \in Complete
                 /\ row'.graph = IF read.draft_graph # read.graph
                                 THEN read.draft_graph ELSE row.graph
                 /\ row'.status = IF read.status # "published" THEN "published" ELSE row.status
    BY <1>0, <1>4, PublishRow
  <2>2. /\ request' = [request EXCEPT ![r] = Idle] /\ UNCHANGED <<debug, debugged>>
    BY <1>4 DEF publish_workflow, Save
  <2>3. Earned'
    BY <2>1, <2>2, GraphAssumption DEF Earned, PublishedWasDebugged, StillHolds
  <2> QED
    BY <2>1, <2>2, <2>3, SaveHolds
<1>5. ASSUME NEW r \in Requests, cancel_publish_workflow(r)
      PROVE  PublicationInv'
  <2>1. /\ request[r].at = "cancel"
        /\ row'.draft_graph = row.draft_graph
        /\ row'.is_debug_passed => row.is_debug_passed
        /\ \/ row' = row
           \/ LET read == request[r].read
              IN /\ row'.graph = IF None # read.graph THEN None ELSE row.graph
                 /\ row'.status = IF read.status # "draft" THEN "draft" ELSE row.status
    BY <1>0, <1>5, CancelRow
  <2>2. /\ request' = [request EXCEPT ![r] = Idle] /\ UNCHANGED <<debug, debugged>>
    BY <1>5 DEF cancel_publish_workflow, Save
  <2>3. Earned'
    BY <2>1, <2>2 DEF Earned, PublishedWasDebugged, StillHolds
  <2> QED
    BY <2>1, <2>2, <2>3, SaveHolds
<1>6. ASSUME NEW r \in Requests, delete_workflow(r)
      PROVE  PublicationInv'
  <2>1. Earned'
    BY <1>6 DEF delete_workflow, Earned, PublishedWasDebugged
  <2> QED
    BY <1>6, <2>1, SaveHolds DEF delete_workflow
<1>7. ASSUME NEW b \in Debugs, debug_workflow(b)
      PROVE  PublicationInv'
  BY <1>7, DebugHolds
<1>8. CASE UNCHANGED vars
  BY <1>8 DEF vars, Earned, PublishedWasDebugged, StillHolds, RunsTheDraft, Apart, Editing, Debugging
<1> QED
  BY <1>1, <1>2, <1>3, <1>4, <1>5, <1>6, <1>7, <1>8 DEF Next

LEMMA PublicationInit == Init => PublicationInv
  BY DEF Init, PublicationInv, Earned, PublishedWasDebugged, StillHolds, RunsTheDraft, Apart,
     Editing, Idle, OpenRuns

\* As long as no draft is saved during a debug run, whatever is published was
\* run to its end by a debug run, however requests and debug runs interleave.
THEOREM PublicationIsEarned ==
    ASSUME ~EditWhileDebugging
    PROVE  Spec => []PublishedWasDebugged
<1>1. Init => PublicationInv
  BY PublicationInit
<1>2. Typed /\ PublicationInv /\ [Next]_vars => PublicationInv'
  BY PublicationStep
<1>3. PublicationInv => PublishedWasDebugged
  BY DEF PublicationInv, Earned
<1> QED
  BY <1>1, <1>2, <1>3, TypedInvariant, PTL DEF Spec

-----------------------------------------------------------------------------
(***************************************************************************)
(* WorkflowGraph.  The searches of the checks, as what they have found after *)
(* each number of steps.                                                   *)
(***************************************************************************)
\* Induction over the numbers, as the choice of a smallest one.
LEMMA SmallestIn ==
    ASSUME NEW T, T \subseteq Nat, T # {}
    PROVE  \E n \in T : \A m \in T : n <= m
<1>1. PICK n \in T : \A m \in T : <<m, n>> \notin OpToRel(<, Nat)
  BY NatLessThanWellFounded, WFMin
<1>2. \A m \in T : ~(m < n)
  BY <1>1 DEF OpToRel
<1> QED
  BY <1>2

\* What iterating a step from a base has at every number of steps.
Iterates(f, base, step) == f = [i \in Nat |-> IF i = 0 THEN base ELSE step[f[i - 1]]]

LEMMA IterateExists ==
    ASSUME NEW base, NEW step
    PROVE  \E f : Iterates(f, base, step)
<1> DEFINE Upto(f, n) == f = [i \in 0 .. n |-> IF i = 0 THEN base ELSE step[f[i - 1]]]
<1>1. ASSUME NEW n \in Nat, NEW m \in Nat, NEW f, NEW g, Upto(f, n), Upto(g, m), n <= m
      PROVE  f[n] = g[n]
  <2> DEFINE T == {i \in 0 .. n : f[i] # g[i]}
  <2> SUFFICES ASSUME T # {} PROVE FALSE
    OBVIOUS
  <2>1. PICK i \in T : \A j \in T : i <= j
    <3>1. T \subseteq Nat
      OBVIOUS
    <3> HIDE DEF T
    <3> QED BY <3>1, SmallestIn
  <2>2. i \in 0 .. n /\ i \in 0 .. m
    BY <1>1
  <2>3. i # 0
    BY <1>1, <2>2
  <2>4. i - 1 \in 0 .. n /\ i - 1 \notin T
    BY <2>1, <2>2, <2>3
  <2>5. f[i - 1] = g[i - 1]
    BY <2>4
  <2>6. f[i] = step[f[i - 1]] /\ g[i] = step[g[i - 1]]
    BY <1>1, <2>2, <2>3
  <2> QED BY <2>5, <2>6
<1>2. ASSUME NEW n \in Nat PROVE \E f : Upto(f, n)
  <2> DEFINE T == {k \in Nat : ~ \E f : Upto(f, k)}
  <2> SUFFICES ASSUME T # {} PROVE FALSE
    OBVIOUS
  <2>1. PICK k \in T : \A j \in T : k <= j
    <3>1. T \subseteq Nat
      OBVIOUS
    <3> HIDE DEF T
    <3> QED BY <3>1, SmallestIn
  <2>2. k # 0
    <3> DEFINE f == [i \in 0 .. 0 |-> base]
    <3>1. Upto(f, 0)
      OBVIOUS
    <3> QED BY <3>1
  <2>3. k - 1 \in Nat /\ k - 1 \notin T
    <3>1. k \in Nat
      OBVIOUS
    <3>2. k - 1 \in Nat /\ ~(k <= k - 1)
      BY <2>2, <3>1
    <3> HIDE DEF T
    <3> QED BY <2>1, <3>2
  <2>4. PICK g : Upto(g, k - 1)
    BY <2>3
  <2> DEFINE f == [i \in 0 .. k |-> IF i = k THEN step[g[k - 1]] ELSE g[i]]
  <2>5. ASSUME NEW i \in 0 .. k PROVE f[i] = IF i = 0 THEN base ELSE step[f[i - 1]]
    <3>1. CASE i = k
      <4>1. i - 1 \in 0 .. k /\ i - 1 # k
        BY <2>2, <3>1
      <4> QED BY <2>2, <3>1, <4>1
    <3>2. CASE i # k
      <4>1. i \in 0 .. k - 1 /\ (i # 0 => i - 1 \in 0 .. k /\ i - 1 # k)
        BY <2>3, <3>2
      <4>2. g[i] = IF i = 0 THEN base ELSE step[g[i - 1]]
        BY <2>4, <4>1
      <4> QED BY <3>2, <4>1, <4>2
    <3> QED BY <3>1, <3>2
  <2>6. Upto(f, k)
    BY <2>5, Zenon
  <2> QED BY <2>6
<1> DEFINE part(n) == CHOOSE f : Upto(f, n)
           whole == [n \in Nat |-> part(n)[n]]
<1>3. ASSUME NEW n \in Nat PROVE Upto(part(n), n)
  BY <1>2, Zenon
<1> HIDE DEF part
<1>4. ASSUME NEW n \in Nat PROVE whole[n] = IF n = 0 THEN base ELSE step[whole[n - 1]]
  <2>1. Upto(part(n), n)
    BY <1>3
  <2>2. part(n)[n] = IF n = 0 THEN base ELSE step[part(n)[n - 1]]
    BY <2>1
  <2>3. ASSUME n # 0 PROVE part(n)[n - 1] = part(n - 1)[n - 1]
    <3>1. n - 1 \in Nat /\ n - 1 <= n
      BY <2>3
    <3>2. Upto(part(n - 1), n - 1)
      BY <1>3, <3>1
    <3> HIDE DEF Upto
    <3> QED BY <1>1, <2>1, <3>1, <3>2
  <2>4. n # 0 => n - 1 \in Nat
    OBVIOUS
  <2> QED BY <2>2, <2>3, <2>4
<1>5. Iterates(whole, base, step)
  BY <1>4, Zenon DEF Iterates
<1> QED BY <1>5

\* Every number of steps has what zero steps have and each step keeps.
LEMMA StepsKeep ==
    ASSUME NEW f, NEW S, f[0] \in S, \A i \in Nat : f[i] \in S => f[i + 1] \in S
    PROVE  \A i \in Nat : f[i] \in S
<1> DEFINE T == {i \in Nat : f[i] \notin S}
<1> SUFFICES ASSUME T # {} PROVE FALSE
  OBVIOUS
<1>1. PICK i \in T : \A j \in T : i <= j
  <2>1. T \subseteq Nat
    OBVIOUS
  <2> HIDE DEF T
  <2> QED BY <2>1, SmallestIn
<1>2. i # 0
  OBVIOUS
<1>3. i - 1 \in Nat /\ i - 1 \notin T /\ i = (i - 1) + 1
  BY <1>1, <1>2
<1> QED BY <1>3

\* A search in a set, which only adds to what it has found.
SearchesFrom(f, S, base, more) ==
    /\ f = [i \in Nat |-> f[i]]
    /\ \A i \in Nat : /\ f[i] \in SUBSET S
                      /\ f[i] = IF i = 0 THEN base ELSE f[i - 1] \union more[f[i - 1]]

LEMMA SearchExists ==
    ASSUME NEW S, NEW base \in SUBSET S, NEW more \in [SUBSET S -> SUBSET S]
    PROVE  \E f : SearchesFrom(f, S, base, more)
<1> DEFINE step == [B \in SUBSET S |-> B \union more[B]]
<1>1. PICK h : Iterates(h, base, step)
  BY IterateExists
<1>2. \A i \in Nat : h[i] = IF i = 0 THEN base ELSE step[h[i - 1]]
  BY <1>1 DEF Iterates
<1>3. \A i \in Nat : h[i] \in SUBSET S
  <2>1. h[0] \in SUBSET S
    BY <1>2
  <2>2. ASSUME NEW i \in Nat, h[i] \in SUBSET S PROVE h[i + 1] \in SUBSET S
    <3>1. h[i + 1] = step[h[i]]
      <4>1. i + 1 \in Nat /\ i + 1 # 0 /\ (i + 1) - 1 = i
        OBVIOUS
      <4> QED BY <1>2, <4>1
    <3> QED BY <2>2, <3>1
  <2> HIDE DEF step
  <2> QED BY <2>1, <2>2, StepsKeep
<1>4. \A i \in Nat : h[i] = IF i = 0 THEN base ELSE h[i - 1] \union more[h[i - 1]]
  <2> SUFFICES ASSUME NEW i \in Nat PROVE h[i] = IF i = 0 THEN base ELSE h[i - 1] \union more[h[i - 1]]
    OBVIOUS
  <2>1. h[i] = IF i = 0 THEN base ELSE step[h[i - 1]]
    BY <1>2
  <2>2. i # 0 => h[i - 1] \in SUBSET S
    BY <1>3
  <2> QED BY <2>1, <2>2
<1>5. h = [i \in Nat |-> h[i]]
  BY <1>1 DEF Iterates
<1> QED BY <1>3, <1>4, <1>5 DEF SearchesFrom

-----------------------------------------------------------------------------
LEMMA EdgeEnds ==
    /\ \A n, m : m \in Sources(n) <=> \E e \in edges : e[1] = m /\ e[2] = n
    /\ \A n, m : m \in Targets(n) <=> \E e \in edges : e[2] = m /\ e[1] = n
    /\ \A n, m : m \in Sources(n) <=> n \in Targets(m)
BY DEF Sources, Targets

\* Kahn's search: what is visited after each number of rounds.
Visits(v) == v = [i \in Nat |-> IF i = 0 THEN {}
                               ELSE v[i - 1] \union {n \in Ids : Sources(n) \subseteq v[i - 1]}]

LEMMA CycleOf ==
    \E v : /\ \A i \in Nat : v[i] \subseteq Ids
           /\ v[0] = {}
           /\ \A i \in Nat : v[i + 1] = v[i] \union {n \in Ids : Sources(n) \subseteq v[i]}
           /\ _is_cycle <=> v[Len(nodes)] # Ids
<1> DEFINE more == [B \in SUBSET Ids |-> {n \in Ids : Sources(n) \subseteq B}]
           v == CHOOSE f : Visits(f)
<1>1. \E f : Visits(f)
  <2>1. more \in [SUBSET Ids -> SUBSET Ids] /\ {} \in SUBSET Ids
    OBVIOUS
  <2>2. PICK f : SearchesFrom(f, Ids, {}, more)
    <3> HIDE DEF more
    <3> QED BY <2>1, SearchExists
  <2>3. ASSUME NEW i \in Nat
        PROVE  f[i] = IF i = 0 THEN {} ELSE f[i - 1] \union {n \in Ids : Sources(n) \subseteq f[i - 1]}
    <3>1. i # 0 => f[i - 1] \in SUBSET Ids
      BY <2>2 DEF SearchesFrom
    <3> QED BY <2>2, <3>1 DEF SearchesFrom
  <2>4. f = [i \in Nat |-> IF i = 0 THEN {}
                               ELSE f[i - 1] \union {n \in Ids : Sources(n) \subseteq f[i - 1]}]
    BY <2>2, <2>3, Zenon DEF SearchesFrom
  <2> QED BY <2>4, Zenon DEF Visits
<1>2. Visits(v)
  BY <1>1, Zenon
<1>3. _is_cycle <=> v[Len(nodes)] # Ids
  BY DEF _is_cycle, Visits
<1> HIDE DEF v
<1>4. v[0] = {}
  BY <1>2 DEF Visits
<1>5. ASSUME NEW i \in Nat PROVE v[i + 1] = v[i] \union {n \in Ids : Sources(n) \subseteq v[i]}
  <2>1. i + 1 \in Nat /\ i + 1 # 0 /\ (i + 1) - 1 = i
    OBVIOUS
  <2>2. v[i + 1] = IF i + 1 = 0 THEN {} ELSE v[(i + 1) - 1] \union {n \in Ids : Sources(n) \subseteq v[(i + 1) - 1]}
    BY <1>2, <2>1 DEF Visits
  <2> QED BY <2>1, <2>2
<1>6. \A i \in Nat : v[i] \in SUBSET Ids
  <2>1. \A i \in Nat : v[i] \in SUBSET Ids => v[i + 1] \in SUBSET Ids
    BY <1>5
  <2> QED BY <1>4, <2>1, StepsKeep
<1> QED BY <1>3, <1>4, <1>5, <1>6

\* The search for connected nodes.
Reaches(r, start) == r = [i \in Nat |-> IF i = 0 THEN {start}
                                       ELSE r[i - 1] \union UNION {Targets(n) : n \in r[i - 1]}]

LEMMA ConnectOf ==
    ASSUME NEW start
    PROVE  \E r : /\ r[0] = {start}
                  /\ \A i \in Nat : r[i + 1] = r[i] \union UNION {Targets(n) : n \in r[i]}
                  /\ _is_connect(start) <=>
                        Cardinality(r[Len(nodes)]) = Cardinality(r[Len(nodes)] \union {e[1] : e \in edges})
<1> DEFINE S == {start} \union {e[2] : e \in edges}
           more == [B \in SUBSET S |-> UNION {Targets(n) : n \in B}]
           r == CHOOSE f : Reaches(f, start)
<1>1. \E f : Reaches(f, start)
  <2>1. more \in [SUBSET S -> SUBSET S] /\ {start} \in SUBSET S
    BY DEF Targets
  <2>2. PICK f : SearchesFrom(f, S, {start}, more)
    <3> HIDE DEF more, S
    <3> QED BY <2>1, SearchExists
  <2>3. ASSUME NEW i \in Nat
        PROVE  f[i] = IF i = 0 THEN {start} ELSE f[i - 1] \union UNION {Targets(n) : n \in f[i - 1]}
    <3>1. i # 0 => f[i - 1] \in SUBSET S
      BY <2>2 DEF SearchesFrom
    <3> HIDE DEF S
    <3> QED BY <2>2, <3>1 DEF SearchesFrom
  <2>4. f = [i \in Nat |-> IF i = 0 THEN {start}
                               ELSE f[i - 1] \union UNION {Targets(n) : n \in f[i - 1]}]
    BY <2>2, <2>3, Zenon DEF SearchesFrom
  <2> QED BY <2>4, Zenon DEF Reaches
<1>2. Reaches(r, start)
  BY <1>1, Zenon
<1>3. _is_connect(start) <=>
        Cardinality(r[Len(nodes)]) = Cardinality(r[Len(nodes)] \union {e[1] : e \in edges})
  BY DEF _is_connect, Reaches
<1> HIDE DEF r
<1>4. r[0] = {start}
  BY <1>2 DEF Reaches
<1>5. ASSUME NEW i \in Nat PROVE r[i + 1] = r[i] \union UNION {Targets(n) : n \in r[i]}
  <2>1. i + 1 \in Nat /\ i + 1 # 0 /\ (i + 1) - 1 = i
    OBVIOUS
  <2>2. r[i + 1] = IF i + 1 = 0 THEN {start} ELSE r[(i + 1) - 1] \union UNION {Targets(n) : n \in r[(i + 1) - 1]}
    BY <1>2, <2>1 DEF Reaches
  <2> QED BY <2>1, <2>2
<1> QED BY <1>3, <1>4, <1>5

\* The search backwards.
Backs(b, n) == b = [i \in Nat |-> IF i = 0 THEN Sources(n)
                                 ELSE b[i - 1] \union UNION {Sources(m) : m \in b[i - 1]}]

LEMMA PredecessorsOf ==
    ASSUME NEW n
    PROVE  \E b : /\ b[0] = Sources(n)
                  /\ \A i \in Nat : b[i + 1] = b[i] \union UNION {Sources(m) : m \in b[i]}
                  /\ _get_predecessors(n) = b[Len(nodes)] \ {n}
<1> DEFINE S == {e[1] : e \in edges}
           more == [B \in SUBSET S |-> UNION {Sources(m) : m \in B}]
           b == CHOOSE f : Backs(f, n)
<1>1. \E f : Backs(f, n)
  <2>1. more \in [SUBSET S -> SUBSET S] /\ Sources(n) \in SUBSET S
    BY DEF Sources
  <2>2. PICK f : SearchesFrom(f, S, Sources(n), more)
    <3> HIDE DEF more, S
    <3> QED BY <2>1, SearchExists
  <2>3. ASSUME NEW i \in Nat
        PROVE  f[i] = IF i = 0 THEN Sources(n) ELSE f[i - 1] \union UNION {Sources(m) : m \in f[i - 1]}
    <3>1. i # 0 => f[i - 1] \in SUBSET S
      BY <2>2 DEF SearchesFrom
    <3> HIDE DEF S
    <3> QED BY <2>2, <3>1 DEF SearchesFrom
  <2>4. f = [i \in Nat |-> IF i = 0 THEN Sources(n)
                               ELSE f[i - 1] \union UNION {Sources(m) : m \in f[i - 1]}]
    BY <2>2, <2>3, Zenon DEF SearchesFrom
  <2> QED BY <2>4, Zenon DEF Backs
<1>2. Backs(b, n)
  BY <1>1, Zenon
<1>3. _get_predecessors(n) = b[Len(nodes)] \ {n}
  BY DEF _get_predecessors, Backs
<1> HIDE DEF b
<1>4. b[0] = Sources(n)
  BY <1>2 DEF Backs
<1>5. ASSUME NEW i \in Nat PROVE b[i + 1] = b[i] \union UNION {Sources(m) : m \in b[i]}
  <2>1. i + 1 \in Nat /\ i + 1 # 0 /\ (i + 1) - 1 = i
    OBVIOUS
  <2>2. b[i + 1] = IF i + 1 = 0 THEN Sources(n) ELSE b[(i + 1) - 1] \union UNION {Sources(m) : m \in b[(i + 1) - 1]}
    BY <1>2, <2>1 DEF Backs
  <2> QED BY <2>1, <2>2
<1> QED BY <1>3, <1>4, <1>5

-----------------------------------------------------------------------------
(***************************************************************************)
(* The graphs that can be run.                                             *)
(***************************************************************************)
\* What holds of no steps and, after any number of steps, of one more, holds of all.
LEMMA AllSteps ==
    ASSUME NEW T \in SUBSET Nat, 0 \in T, \A i \in T : i + 1 \in T
    PROVE  T = Nat
<1> SUFFICES ASSUME Nat \ T # {} PROVE FALSE
  OBVIOUS
<1>1. PICK i \in Nat \ T : \A j \in Nat \ T : i <= j
  <2>1. Nat \ T \subseteq Nat
    OBVIOUS
  <2> QED BY <2>1, SmallestIn
<1>2. i # 0
  OBVIOUS
<1>3. i - 1 \in Nat /\ i = (i - 1) + 1 /\ ~(i <= i - 1)
  BY <1>2
<1>4. i - 1 \in T
  BY <1>1, <1>3
<1> QED BY <1>3, <1>4

\* A graph that can be run, of its nodes and its edges.
IdsIn(list) == {list[i].id : i \in DOMAIN list}
TypeIn(list, type) == {list[i].id : i \in {j \in DOMAIN list : list[j].node_type = type}}
OrderedBy(list, es) ==
    \E rank \in [IdsIn(list) -> 1 .. Len(list)] : \A e \in es : rank[e[1]] < rank[e[2]]
CanRun(list, es) ==
    /\ ValidNodes(list)
    /\ UNION {{e[1], e[2]} : e \in es} \subseteq IdsIn(list)
    /\ IdsIn(list) \ {e[2] : e \in es} = TypeIn(list, "start") /\ TypeIn(list, "start") # {}
    /\ IdsIn(list) \ {e[1] : e \in es} = TypeIn(list, "end") /\ TypeIn(list, "end") # {}
    /\ OrderedBy(list, es)

LEMMA AtMostOne ==
    ASSUME NEW S, IsFiniteSet(S), Cardinality(S) <= 1, NEW x \in S, NEW y \in S
    PROVE  x = y
<1> SUFFICES ASSUME x # y PROVE FALSE
  OBVIOUS
<1>1. IsFiniteSet(S \ {x}) /\ Cardinality(S \ {x}) = Cardinality(S) - 1
  BY FS_RemoveElement
<1>2. IsFiniteSet((S \ {x}) \ {y}) /\ Cardinality((S \ {x}) \ {y}) = Cardinality(S \ {x}) - 1
  <2>1. y \in S \ {x}
    OBVIOUS
  <2> QED BY <1>1, <2>1, FS_RemoveElement
<1>3. Cardinality(S) \in Nat /\ Cardinality((S \ {x}) \ {y}) \in Nat
  BY <1>2, FS_CardinalityType
<1> QED BY <1>1, <1>2, <1>3

LEMMA OneOfType ==
    ASSUME nodes \in NodeLists, ValidNodes(nodes), NEW type \in {"start", "end"},
           NEW m \in TypeIn(nodes, type), NEW n \in TypeIn(nodes, type)
    PROVE  m = n
<1> DEFINE S == {i \in DOMAIN nodes : nodes[i].node_type = type}
<1>1. IsFiniteSet(S) /\ Cardinality(S) <= 1
  <2>1. DOMAIN nodes = 1 .. Len(nodes) /\ Len(nodes) \in Nat
    BY NodeListsAssumption
  <2>2. IsFiniteSet(1 .. Len(nodes))
    BY <2>1, FS_Interval
  <2>3. S \subseteq 1 .. Len(nodes)
    BY <2>1
  <2>4. IsFiniteSet(S)
    <3> HIDE DEF S
    <3> QED BY <2>2, <2>3, FS_Subset
  <2> QED BY <2>4 DEF ValidNodes
<1>2. PICK i \in S : m = nodes[i].id
  BY DEF TypeIn
<1>3. PICK j \in S : n = nodes[j].id
  BY DEF TypeIn
<1>4. i = j
  <2> HIDE DEF S
  <2> QED BY <1>1, AtMostOne
<1> QED BY <1>2, <1>3, <1>4

\* What the checks accept can be run: a node ranks by the round it is visited in.
LEMMA AcceptedCanRun ==
    ASSUME nodes \in NodeLists, ValidGraph
    PROVE  CanRun(nodes, edges)
<1>1. Ids = IdsIn(nodes) /\ \A type : OfType(type) = TypeIn(nodes, type)
  BY DEF Ids, IdsIn, OfType, TypeIn
<1>2. Len(nodes) \in Nat
  BY NodeListsAssumption
<1>3. ValidNodes(nodes)
  BY DEF ValidGraph
<1>4. UNION {{e[1], e[2]} : e \in edges} \subseteq Ids
  BY DEF ValidGraph, ValidEdges
<1>5. Ids \ {e[2] : e \in edges} = OfType("start") /\ OfType("start") # {}
  <2>1. PICK s \in OfType("start") : {n \in Ids : Sources(n) = {}} = {s}
    BY DEF ValidGraph, ValidDegrees
  <2>2. OfType("start") = {s}
    BY <1>1, <1>3, OneOfType
  <2>3. \A n : Sources(n) = {} <=> n \notin {e[2] : e \in edges}
    BY DEF Sources
  <2> QED BY <2>1, <2>2, <2>3
<1>6. Ids \ {e[1] : e \in edges} = OfType("end") /\ OfType("end") # {}
  <2>1. PICK s \in OfType("end") : {n \in Ids : Targets(n) = {}} = {s}
    BY DEF ValidGraph, ValidDegrees
  <2>2. OfType("end") = {s}
    BY <1>1, <1>3, OneOfType
  <2>3. \A n : Targets(n) = {} <=> n \notin {e[1] : e \in edges}
    BY DEF Targets
  <2> QED BY <2>1, <2>2, <2>3
<1>7. OrderedBy(nodes, edges)
  <2>1. PICK v : /\ \A i \in Nat : v[i] \subseteq Ids
                 /\ v[0] = {}
                 /\ \A i \in Nat : v[i + 1] = v[i] \union {n \in Ids : Sources(n) \subseteq v[i]}
                 /\ _is_cycle <=> v[Len(nodes)] # Ids
    BY CycleOf
  <2>2. v[Len(nodes)] = Ids
    BY <2>1 DEF ValidGraph
  <2> DEFINE In(n) == {i \in 1 .. Len(nodes) : n \in v[i]}
             First(n, i) == i \in In(n) /\ \A j \in In(n) : i <= j
             rank == [n \in Ids |-> CHOOSE i : First(n, i)]
  <2>3. ASSUME NEW n \in Ids PROVE First(n, rank[n])
    <3>1. Len(nodes) \in In(n)
      <4>1. Len(nodes) # 0
        BY <2>1, <2>2
      <4> QED BY <1>2, <2>2, <4>1
    <3>2. In(n) \subseteq Nat /\ In(n) # {}
      BY <3>1
    <3>3. \E i \in In(n) : \A j \in In(n) : i <= j
      <4> HIDE DEF In
      <4> QED BY <3>2, SmallestIn
    <3>4. \E i : First(n, i)
      BY <3>3
    <3> HIDE DEF First
    <3> QED BY <3>4
  <2> HIDE DEF rank
  <2>4. rank \in [IdsIn(nodes) -> 1 .. Len(nodes)]
    <3>1. \A n \in Ids : rank[n] \in 1 .. Len(nodes)
      BY <2>3
    <3>2. rank = [n \in Ids |-> rank[n]]
      BY DEF rank
    <3> QED BY <1>1, <3>1, <3>2
  <2>5. ASSUME NEW e \in edges PROVE rank[e[1]] < rank[e[2]]
    <3>1. e[1] \in Ids /\ e[2] \in Ids /\ e[1] \in Sources(e[2])
      BY <1>4 DEF Sources
    <3> DEFINE i == rank[e[2]]
    <3>2. First(e[2], i)
      BY <2>3, <3>1
    <3>3. i \in 1 .. Len(nodes) /\ i - 1 \in Nat /\ (i - 1) + 1 = i
      BY <1>2, <3>2
    <3>4. e[2] \notin v[i - 1]
      <4>1. CASE i = 1
        BY <2>1, <4>1
      <4>2. CASE i # 1
        <5>1. i - 1 \in 1 .. Len(nodes) /\ ~(i <= i - 1)
          BY <1>2, <3>3, <4>2
        <5> QED BY <3>2, <5>1
      <4> QED BY <4>1, <4>2
    <3>5. v[i] = v[i - 1] \union {n \in Ids : Sources(n) \subseteq v[i - 1]}
      <4> HIDE DEF i
      <4> QED BY <2>1, <3>3
    <3>6. e[1] \in v[i - 1]
      BY <3>1, <3>2, <3>4, <3>5
    <3>7. i # 1
      BY <2>1, <3>6
    <3>8. i - 1 \in In(e[1])
      BY <1>2, <3>3, <3>6, <3>7
    <3>9. First(e[1], rank[e[1]])
      BY <2>3, <3>1
    <3>10. rank[e[1]] <= i - 1 /\ rank[e[1]] \in Nat
      BY <3>8, <3>9
    <3> QED BY <3>3, <3>10
  <2> QED BY <2>4, <2>5 DEF OrderedBy
<1> QED BY <1>1, <1>3, <1>4, <1>5, <1>6, <1>7 DEF CanRun

\* What can be run is accepted: a node is reached, and visited, by its rank.
LEMMA CanRunIsAccepted ==
    ASSUME nodes \in NodeLists, CanRun(nodes, edges)
    PROVE  ValidGraph
<1>1. Ids = IdsIn(nodes) /\ \A type : OfType(type) = TypeIn(nodes, type)
  BY DEF Ids, IdsIn, OfType, TypeIn
<1>2. Len(nodes) \in Nat
  BY NodeListsAssumption
<1>3. ValidNodes(nodes)
  BY DEF CanRun
<1>4. \A e \in edges : e[1] \in Ids /\ e[2] \in Ids
  BY <1>1 DEF CanRun
<1>5. Ids \ {e[2] : e \in edges} = OfType("start") /\ OfType("start") # {}
  BY <1>1 DEF CanRun
<1>6. Ids \ {e[1] : e \in edges} = OfType("end") /\ OfType("end") # {}
  BY <1>1 DEF CanRun
<1>7. PICK rank \in [Ids -> 1 .. Len(nodes)] : \A e \in edges : rank[e[1]] < rank[e[2]]
  BY <1>1 DEF CanRun, OrderedBy
<1>8. ValidDegrees
  <2>1. PICK s : s \in OfType("start")
    BY <1>5
  <2>2. OfType("start") = {s}
    BY <1>1, <1>3, <2>1, OneOfType
  <2>3. PICK t : t \in OfType("end")
    BY <1>6
  <2>4. OfType("end") = {t}
    BY <1>1, <1>3, <2>3, OneOfType
  <2>5. \A n : Sources(n) = {} <=> n \notin {e[2] : e \in edges}
    BY DEF Sources
  <2>6. \A n : Targets(n) = {} <=> n \notin {e[1] : e \in edges}
    BY DEF Targets
  <2>7. {n \in Ids : Sources(n) = {}} = {s}
    BY <1>5, <2>2, <2>5
  <2>8. {n \in Ids : Targets(n) = {}} = {t}
    BY <1>6, <2>4, <2>6
  <2> QED BY <2>1, <2>3, <2>7, <2>8 DEF ValidDegrees
<1>9. ASSUME NEW start \in OfType("start") PROVE _is_connect(start)
  <2>1. PICK r : /\ r[0] = {start}
                 /\ \A i \in Nat : r[i + 1] = r[i] \union UNION {Targets(n) : n \in r[i]}
                 /\ _is_connect(start) <=>
                       Cardinality(r[Len(nodes)]) = Cardinality(r[Len(nodes)] \union {e[1] : e \in edges})
    BY ConnectOf
  <2> DEFINE T == {i \in Nat : start \in r[i] /\ \A n \in Ids : rank[n] <= i + 1 => n \in r[i]}
  <2>2. \A n \in Ids : n = start \/ \E e \in edges : e[2] = n
    <3>1. \A n \in OfType("start") : n = start
      BY <1>1, <1>3, OneOfType
    <3> QED BY <1>5, <3>1
  <2>3. 0 \in T
    <3>1. ASSUME NEW n \in Ids, rank[n] <= 1, n # start PROVE FALSE
      <4>1. PICK e \in edges : e[2] = n
        BY <2>2, <3>1
      <4>2. rank[e[1]] < rank[n] /\ rank[e[1]] \in 1 .. Len(nodes) /\ rank[n] \in 1 .. Len(nodes)
        BY <1>4, <1>7, <4>1
      <4> QED BY <1>2, <3>1, <4>2
    <3> QED BY <2>1, <3>1
  <2>4. ASSUME NEW i \in T PROVE i + 1 \in T
    <3>1. i \in Nat /\ i + 1 \in Nat
      OBVIOUS
    <3>2. r[i + 1] = r[i] \union UNION {Targets(n) : n \in r[i]}
      BY <2>1, <3>1
    <3>3. start \in r[i + 1]
      BY <3>2
    <3>4. ASSUME NEW n \in Ids, rank[n] <= (i + 1) + 1, n # start PROVE n \in r[i + 1]
      <4>1. PICK e \in edges : e[2] = n
        BY <2>2, <3>4
      <4>2. rank[e[1]] < rank[n] /\ rank[e[1]] \in 1 .. Len(nodes) /\ rank[n] \in 1 .. Len(nodes)
        BY <1>4, <1>7, <4>1
      <4>3. rank[e[1]] <= i + 1
        BY <1>2, <3>1, <3>4, <4>2
      <4>4. e[1] \in r[i]
        BY <1>4, <4>3
      <4>5. n \in Targets(e[1])
        BY <4>1 DEF Targets
      <4> QED BY <3>2, <4>4, <4>5
    <3> QED BY <3>1, <3>3, <3>4
  <2>5. T = Nat
    <3>1. T \in SUBSET Nat
      OBVIOUS
    <3> HIDE DEF T
    <3> QED BY <2>3, <2>4, <3>1, AllSteps
  <2>6. Ids \subseteq r[Len(nodes)]
    <3>1. \A n \in Ids : rank[n] <= Len(nodes) + 1
      BY <1>2, <1>7
    <3>2. Len(nodes) \in T
      BY <1>2, <2>5
    <3> QED BY <3>1, <3>2
  <2>7. r[Len(nodes)] \union {e[1] : e \in edges} = r[Len(nodes)]
    BY <1>4, <2>6
  <2> QED BY <2>1, <2>7
<1>10. ~_is_cycle
  <2>1. PICK v : /\ \A i \in Nat : v[i] \subseteq Ids
                 /\ v[0] = {}
                 /\ \A i \in Nat : v[i + 1] = v[i] \union {n \in Ids : Sources(n) \subseteq v[i]}
                 /\ _is_cycle <=> v[Len(nodes)] # Ids
    BY CycleOf
  <2> DEFINE T == {i \in Nat : \A n \in Ids : rank[n] <= i => n \in v[i]}
  <2>2. 0 \in T
    <3>1. \A n \in Ids : rank[n] \in 1 .. Len(nodes)
      BY <1>7
    <3> QED BY <3>1
  <2>3. ASSUME NEW i \in T PROVE i + 1 \in T
    <3>1. i \in Nat /\ i + 1 \in Nat
      OBVIOUS
    <3>2. ASSUME NEW n \in Ids, rank[n] <= i + 1 PROVE n \in v[i + 1]
      <4>1. ASSUME NEW m \in Sources(n) PROVE m \in v[i]
        <5>1. PICK e \in edges : e[1] = m /\ e[2] = n
          BY DEF Sources
        <5>2. rank[m] < rank[n] /\ m \in Ids /\ rank[m] \in 1 .. Len(nodes) /\ rank[n] \in 1 .. Len(nodes)
          BY <1>4, <1>7, <5>1
        <5>3. rank[m] <= i
          BY <1>2, <3>1, <3>2, <5>2
        <5> QED BY <5>2, <5>3
      <4> QED BY <2>1, <3>1, <4>1
    <3> QED BY <3>1, <3>2
  <2>4. T = Nat
    <3>1. T \in SUBSET Nat
      OBVIOUS
    <3> HIDE DEF T
    <3> QED BY <2>2, <2>3, <3>1, AllSteps
  <2>5. Ids \subseteq v[Len(nodes)]
    <3>1. \A n \in Ids : rank[n] <= Len(nodes)
      BY <1>2, <1>7
    <3>2. Len(nodes) \in T
      BY <1>2, <2>4
    <3> QED BY <3>1, <3>2
  <2> QED BY <1>2, <2>1, <2>5
<1> QED BY <1>3, <1>4, <1>8, <1>9, <1>10 DEF ValidGraph, ValidEdges

-----------------------------------------------------------------------------
(***************************************************************************)
(* From the drawing of a graph to the end of its run.                      *)
(***************************************************************************)
\* Whatever holds of all that lies before a node holds of the node it refers to.
Behind ==
    \A n \in DOMAIN refs : \A C \in SUBSET Ids :
        (\A e \in edges : e[2] = n \/ e[2] \in C => e[1] \in C) => refs[n].node \in C

LEMMA PredecessorsAreBehind ==
    ASSUME NEW n, NEW C \in SUBSET Ids, \A e \in edges : e[2] = n \/ e[2] \in C => e[1] \in C
    PROVE  Len(nodes) \in Nat => _get_predecessors(n) \subseteq C
<1> SUFFICES ASSUME Len(nodes) \in Nat PROVE _get_predecessors(n) \subseteq C
  OBVIOUS
<1>1. PICK b : /\ b[0] = Sources(n)
               /\ \A i \in Nat : b[i + 1] = b[i] \union UNION {Sources(m) : m \in b[i]}
               /\ _get_predecessors(n) = b[Len(nodes)] \ {n}
  BY PredecessorsOf
<1>2. b[0] \in SUBSET C
  BY <1>1 DEF Sources
<1>3. ASSUME NEW i \in Nat, b[i] \in SUBSET C PROVE b[i + 1] \in SUBSET C
  <2>1. ASSUME NEW m \in b[i] PROVE Sources(m) \subseteq C
    BY <1>3 DEF Sources
  <2> QED BY <1>1, <1>3, <2>1
<1>4. b[Len(nodes)] \in SUBSET C
  <2>1. \A i \in Nat : b[i] \in SUBSET C
    BY <1>2, <1>3, StepsKeep
  <2> QED BY <2>1
<1> QED BY <1>1, <1>4

Accepted == {"drawn", "built", "bad refs", "running", "succeeded", "failed"}
Refused == {"bad draft", "bad graph"}
Began == {"running", "succeeded", "failed"}

\* The sources of a node that ran have run before it.
Ran == \A i \in DOMAIN rounds : \A n \in rounds[i] : \A e \in edges :
          e[2] = n => \E j \in 1 .. i - 1 : e[1] \in rounds[j]

GraphInv ==
    /\ graphStage # "new" => nodes \in NodeLists
    /\ rounds \in Seq(SUBSET IdsIn(nodes))
    /\ graphStage \notin Began => rounds = << >>
    /\ graphStage \in {"new", "draft", "bad draft", "bad graph"} => DOMAIN refs = {}
    /\ graphStage \in Accepted => CanRun(nodes, edges)
    /\ graphStage \in Refused => ~CanRun(nodes, edges)
    /\ graphStage \in Began \union {"built"} => Behind
    /\ Ran

LEMMA GraphInitially == GraphInit => GraphInv
BY DEF GraphInit, GraphInv, Accepted, Refused, Began, Ran

LEMMA SameGraph ==
    ASSUME UNCHANGED <<nodes, edges>>
    PROVE  /\ CanRun(nodes, edges)' = CanRun(nodes, edges)
           /\ IdsIn(nodes)' = IdsIn(nodes)
<1>1. CanRun(nodes, edges)' = CanRun(nodes', edges')
  BY DEF CanRun, IdsIn, TypeIn, OrderedBy, ValidNodes
<1>2. IdsIn(nodes)' = IdsIn(nodes')
  BY DEF IdsIn
<1> QED BY <1>1, <1>2

LEMMA NothingRan == rounds' = << >> => Ran' /\ rounds' \in Seq(SUBSET IdsIn(nodes)')
BY DEF Ran

LEMMA GraphStep == GraphInv /\ [GraphNext]_graphVars => GraphInv'
<1> SUFFICES ASSUME GraphInv, [GraphNext]_graphVars PROVE GraphInv'
  OBVIOUS
<1> USE DEF Accepted, Refused, Began
<1>0. Ids = IdsIn(nodes) /\ Ids' = IdsIn(nodes)'
  BY DEF Ids, IdsIn
<1>1. ASSUME _validate_graph PROVE GraphInv'
  <2>1. PICK list \in NodeLists :
          \/ ~ValidNodes(list) /\ nodes' = list /\ graphStage' = "bad draft"
          \/ /\ ValidNodes(list) /\ nodes' = list
             /\ graphStage' = IF ValidEdges({list[i].id : i \in DOMAIN list}, edges')
                              THEN "draft" ELSE "bad draft"
    BY <1>1 DEF _validate_graph
  <2>2. rounds = << >> /\ DOMAIN refs = {} /\ UNCHANGED <<refs, rounds>>
    BY <1>1 DEF _validate_graph, GraphInv
  <2>3. graphStage' \in {"draft", "bad draft"} /\ nodes' \in NodeLists
    BY <2>1
  <2>4. graphStage' = "bad draft" => ~CanRun(nodes', edges')
    <3>1. ~ValidNodes(list) => ~CanRun(list, edges')
      BY DEF CanRun
    <3>2. ~ValidEdges(IdsIn(list), edges') => ~CanRun(list, edges')
      <4>1. ASSUME CanRun(list, edges'), NEW e \in edges' PROVE e[1] \in IdsIn(list) /\ e[2] \in IdsIn(list)
        <5>1. {e[1], e[2]} \subseteq UNION {{d[1], d[2]} : d \in edges'}
          OBVIOUS
        <5>2. {e[1], e[2]} \subseteq IdsIn(list)
          BY <4>1, <5>1, Zenon DEF CanRun
        <5> QED BY <5>2
      <4> QED BY <4>1 DEF ValidEdges
    <3>3. IdsIn(list) = {list[i].id : i \in DOMAIN list}
      BY DEF IdsIn
    <3> QED BY <2>1, <3>1, <3>2, <3>3
  <2>5. CanRun(nodes, edges)' = CanRun(nodes', edges')
    BY DEF CanRun, IdsIn, TypeIn, OrderedBy, ValidNodes
  <2>6. rounds' = << >> /\ DOMAIN refs' = {}
    BY <2>2
  <2> QED BY <2>3, <2>4, <2>5, <2>6, NothingRan DEF GraphInv
<1>2. ASSUME validate_workflow_config PROVE GraphInv'
  <2>1. nodes \in NodeLists /\ rounds = << >> /\ DOMAIN refs = {} /\ UNCHANGED <<nodes, edges, refs, rounds>>
    BY <1>2 DEF validate_workflow_config, GraphInv
  <2>2. graphStage' = IF ValidGraph THEN "drawn" ELSE "bad graph"
    BY <1>2 DEF validate_workflow_config
  <2>3. ValidGraph <=> CanRun(nodes, edges)
    BY <2>1, AcceptedCanRun, CanRunIsAccepted
  <2>4. CanRun(nodes, edges)' = CanRun(nodes, edges)
    BY <2>1, SameGraph
  <2>5. /\ graphStage' \in Accepted => CanRun(nodes, edges)'
        /\ graphStage' \in Refused => ~CanRun(nodes, edges)'
        /\ graphStage' \notin Began \union {"built"}
    BY <2>2, <2>3, <2>4
  <2>6. nodes' \in NodeLists /\ rounds' = << >> /\ DOMAIN refs' = {}
    BY <2>1
  <2> QED BY <2>5, <2>6, NothingRan DEF GraphInv
<1>3. ASSUME ValidateReferences PROVE GraphInv'
  <2>1. /\ graphStage = "drawn" /\ graphStage' \in {"drawn", "built", "bad refs"}
        /\ UNCHANGED <<nodes, edges, rounds>>
    BY <1>3 DEF ValidateReferences
  <2>2. nodes \in NodeLists /\ rounds = << >> /\ CanRun(nodes, edges)
    BY <2>1 DEF GraphInv
  <2>3. CanRun(nodes, edges)' = CanRun(nodes, edges)
    BY <2>1, SameGraph
  <2>4. graphStage' = "built" => Behind'
    <3> SUFFICES ASSUME graphStage' = "built" PROVE Behind'
      OBVIOUS
    <3>1. _validate_inputs_ref /\ UNCHANGED refs
      BY <1>3, <2>1 DEF ValidateReferences
    <3>2. Len(nodes) \in Nat
      BY <2>2, NodeListsAssumption
    <3>3. Behind
      <4> SUFFICES ASSUME NEW n \in DOMAIN refs, NEW C \in SUBSET Ids,
                          \A e \in edges : e[2] = n \/ e[2] \in C => e[1] \in C
                   PROVE  refs[n].node \in C
        BY DEF Behind
      <4>1. _get_predecessors(n) \subseteq C
        BY <3>2, PredecessorsAreBehind
      <4> QED BY <3>1, <4>1 DEF _validate_inputs_ref
    <3>4. UNCHANGED Ids
      BY <2>1 DEF Ids
    <3> QED BY <2>1, <3>1, <3>3, <3>4 DEF Behind
  <2>5. nodes' \in NodeLists /\ rounds' = << >> /\ CanRun(nodes, edges)'
    BY <2>1, <2>2, <2>3
  <2> QED BY <2>1, <2>4, <2>5, NothingRan DEF GraphInv
<1> DEFINE Kept == /\ graphStage \in Began \union {"built"} /\ graphStage' \in Began
                   /\ UNCHANGED <<nodes, edges, refs>>
<1>4. ASSUME Kept, rounds' \in Seq(SUBSET IdsIn(nodes)), Ran' PROVE GraphInv'
  <2>1. nodes \in NodeLists /\ CanRun(nodes, edges) /\ Behind
    BY <1>4 DEF GraphInv
  <2>2. CanRun(nodes, edges)' /\ IdsIn(nodes)' = IdsIn(nodes)
    BY <1>4, <2>1, SameGraph
  <2>3. Behind'
    <3>1. UNCHANGED Ids
      BY <1>4 DEF Ids
    <3> QED BY <1>4, <2>1, <3>1 DEF Behind
  <2> QED BY <1>4, <2>1, <2>2, <2>3 DEF GraphInv
<1>5. ASSUME Invoke PROVE GraphInv'
  <2>1. Kept /\ rounds' = <<OfType("start")>>
    BY <1>5 DEF Invoke
  <2>2. OfType("start") = TypeIn(nodes, "start") /\ CanRun(nodes, edges)
    BY <1>5 DEF Invoke, GraphInv, OfType, TypeIn
  <2>3. \A n \in OfType("start") : n \in IdsIn(nodes) /\ \A e \in edges : e[2] # n
    BY <2>2 DEF CanRun
  <2>4. rounds' \in Seq(SUBSET IdsIn(nodes))
    BY <2>1, <2>3
  <2>5. Ran'
    BY <2>1, <2>3 DEF Ran
  <2> QED BY <1>4, <2>1, <2>4, <2>5
<1>6. ASSUME RunRound PROVE GraphInv'
  <2>1. Kept /\ rounds' = Append(rounds, Triggered)
    BY <1>6 DEF RunRound
  <2>2. Triggered \subseteq IdsIn(nodes) /\ rounds \in Seq(SUBSET IdsIn(nodes)) /\ Ran
    BY <1>0 DEF Triggered, GraphInv
  <2>3. rounds' \in Seq(SUBSET IdsIn(nodes))
    BY <2>1, <2>2
  <2>4. /\ DOMAIN rounds = 1 .. Len(rounds) /\ DOMAIN rounds' = 1 .. Len(rounds) + 1
        /\ Len(rounds) \in Nat
        /\ rounds'[Len(rounds) + 1] = Triggered
        /\ \A i \in DOMAIN rounds : rounds'[i] = rounds[i]
    BY <2>1, <2>2
  <2>5. ASSUME NEW n \in Triggered, NEW e \in edges, e[2] = n
        PROVE  \E j \in 1 .. Len(rounds) : e[1] \in rounds[j]
    <3>1. e[1] \in Sources(n)
      BY <2>5 DEF Sources
    <3>2. e[1] \in HaveRun
      BY <3>1 DEF Triggered
    <3> QED BY <2>4, <3>2 DEF HaveRun
  <2>6. Ran'
    <3> SUFFICES ASSUME NEW i \in DOMAIN rounds', NEW n \in rounds'[i], NEW e \in edges, e[2] = n
                 PROVE  \E j \in 1 .. i - 1 : e[1] \in rounds'[j]
      BY <2>1 DEF Ran
    <3>1. CASE i \in DOMAIN rounds
      <4>1. PICK j \in 1 .. i - 1 : e[1] \in rounds[j]
        BY <2>2, <2>4, <3>1 DEF Ran
      <4>2. j \in DOMAIN rounds
        BY <2>4, <3>1
      <4> QED BY <2>4, <4>1, <4>2
    <3>2. CASE i \notin DOMAIN rounds
      <4>1. i = Len(rounds) + 1 /\ i - 1 = Len(rounds)
        BY <2>4, <3>2
      <4>2. PICK j \in 1 .. Len(rounds) : e[1] \in rounds[j]
        BY <2>4, <2>5, <4>1
      <4> QED BY <2>4, <4>1, <4>2
    <3> QED BY <3>1, <3>2
  <2> QED BY <1>4, <2>1, <2>3, <2>6
<1>7. ASSUME NodeFails \/ InvokeEnds PROVE GraphInv'
  <2>1. Kept /\ UNCHANGED rounds
    BY <1>7 DEF NodeFails, InvokeEnds
  <2>2. Ran'
    BY <2>1 DEF GraphInv, Ran
  <2>3. rounds' \in Seq(SUBSET IdsIn(nodes))
    BY <2>1 DEF GraphInv
  <2> QED BY <1>4, <2>1, <2>2, <2>3
<1>8. ASSUME UNCHANGED graphVars PROVE GraphInv'
  <2>1. UNCHANGED <<nodes, edges, refs, graphStage, rounds>>
    BY <1>8 DEF graphVars
  <2>2. CanRun(nodes, edges)' = CanRun(nodes, edges) /\ IdsIn(nodes)' = IdsIn(nodes)
    BY <2>1, SameGraph
  <2>3. Behind' = Behind /\ Ran' = Ran
    <3>1. UNCHANGED Ids
      BY <2>1 DEF Ids
    <3> QED BY <2>1, <3>1 DEF Behind, Ran
  <2> QED BY <2>1, <2>2, <2>3 DEF GraphInv
<1> QED BY <1>1, <1>2, <1>3, <1>5, <1>6, <1>7, <1>8 DEF GraphNext

LEMMA GraphHolds == GraphSpec => []GraphInv
<1>1. GraphInit => GraphInv
  BY GraphInitially
<1>2. GraphInv /\ [GraphNext]_graphVars => GraphInv'
  BY GraphStep
<1> QED BY <1>1, <1>2, PTL DEF GraphSpec

\* The checks of the drafts and of WorkflowConfig accept the graphs that can be run,
\* and refuse all others: Kahn's rounds rank the nodes of an accepted graph, and any
\* order of the nodes bounds the rounds that reach and that visit each of them.
THEOREM CheckedExactly == GraphSpec => []AcceptsExactly
<1>1. GraphInv => AcceptsExactly
  <2>1. CanRun(nodes, edges) <=>
            /\ ValidNodes(nodes)
            /\ UNION {{e[1], e[2]} : e \in edges} \subseteq Ids
            /\ Ids \ {e[2] : e \in edges} = OfType("start") /\ OfType("start") # {}
            /\ Ids \ {e[1] : e \in edges} = OfType("end") /\ OfType("end") # {}
            /\ \E rank \in [Ids -> 1 .. Len(nodes)] : \A e \in edges : rank[e[1]] < rank[e[2]]
    BY DEF CanRun, OrderedBy, Ids, IdsIn, OfType, TypeIn
  <2> QED BY <2>1 DEF GraphInv, AcceptsExactly, Accepted, Refused
<1> QED BY <1>1, GraphHolds, PTL

\* The node a variable refers to has run in an earlier round than the node of the
\* variable: what has run by then is closed under the sources of edges.
THEOREM ReferencesHaveRun == GraphSpec => []ReferencesResolve
<1>1. GraphInv => ReferencesResolve
  <2> SUFFICES ASSUME GraphInv, NEW i \in DOMAIN rounds, NEW n \in rounds[i] \intersect DOMAIN refs
               PROVE  \E j \in 1 .. i - 1 : refs[n].node \in rounds[j]
    BY DEF ReferencesResolve
  <2> DEFINE C == UNION {rounds[j] : j \in 1 .. i - 1}
  <2>1. /\ rounds \in Seq(SUBSET Ids) /\ DOMAIN rounds = 1 .. Len(rounds) /\ Len(rounds) \in Nat
        /\ Behind /\ Ran
    <3>1. IdsIn(nodes) = Ids
      BY DEF Ids, IdsIn
    <3>2. rounds \in Seq(SUBSET Ids) /\ Ran
      BY <3>1 DEF GraphInv
    <3>3. graphStage \in Began
      <4>1. rounds # << >>
        <5> SUFFICES ASSUME rounds = << >> PROVE FALSE
          OBVIOUS
        <5> QED OBVIOUS
      <4> QED BY <4>1, Zenon DEF GraphInv
    <3>4. Behind
      BY <3>3 DEF GraphInv
    <3>5. DOMAIN rounds = 1 .. Len(rounds) /\ Len(rounds) \in Nat
      BY <3>2
    <3> QED BY <3>2, <3>4, <3>5
  <2>2. C \in SUBSET Ids
    BY <2>1
  <2>3. ASSUME NEW e \in edges, e[2] = n \/ e[2] \in C PROVE e[1] \in C
    <3>1. CASE e[2] = n
      <4>1. PICK j \in 1 .. i - 1 : e[1] \in rounds[j]
        BY <2>1, <3>1 DEF Ran
      <4> QED BY <4>1
    <3>2. CASE e[2] \in C
      <4>1. PICK k \in 1 .. i - 1 : e[2] \in rounds[k]
        BY <3>2
      <4>2. k \in DOMAIN rounds
        BY <2>1
      <4>3. PICK j \in 1 .. k - 1 : e[1] \in rounds[j]
        BY <2>1, <4>1, <4>2 DEF Ran
      <4>4. j \in 1 .. i - 1
        BY <2>1
      <4> QED BY <4>3, <4>4
    <3> QED BY <2>3, <3>1, <3>2
  <2>4. refs[n].node \in C
    <3> HIDE DEF C
    <3> QED BY <2>1, <2>2, <2>3 DEF Behind
  <2> QED BY <2>4
<1> QED BY <1>1, GraphHolds, PTL

-----------------------------------------------------------------------------
(***************************************************************************)
(* The type of a graph and of its run.  A run ends: every round has a node *)
(* that no earlier one had, so that there are no more rounds than nodes.   *)
(***************************************************************************)
GraphTyped ==
    /\ nodes \in NodeLists \union {<< >>}
    /\ edges \subseteq CandidateEdges
    /\ graphStage \in {"new", "draft", "bad draft", "drawn", "bad graph", "built", "bad refs",
                       "running", "succeeded", "failed"}
    /\ Len(rounds) <= Cardinality(HaveRun)

LEMMA IdsAreFew ==
    ASSUME nodes \in NodeLists \union {<< >>}
    PROVE  IsFiniteSet(Ids) /\ Cardinality(Ids) <= Len(nodes) /\ Len(nodes) \in Nat
<1>1. DOMAIN nodes = 1 .. Len(nodes) /\ Len(nodes) \in Nat
  BY NodeListsAssumption
<1>2. IsFiniteSet(1 .. Len(nodes)) /\ Cardinality(1 .. Len(nodes)) = Len(nodes)
  BY <1>1, FS_Interval
<1> DEFINE f == [i \in 1 .. Len(nodes) |-> nodes[i].id]
<1>3. f \in Surjection(1 .. Len(nodes), Ids)
  BY <1>1 DEF Surjection, Ids
<1>4. IsFiniteSet(Ids) /\ Cardinality(Ids) <= Cardinality(1 .. Len(nodes))
  BY <1>2, <1>3, FS_Surjection
<1> QED BY <1>1, <1>2, <1>4

LEMMA RoundsAreOfIds ==
    ASSUME GraphInv
    PROVE  /\ rounds \in Seq(SUBSET Ids) /\ DOMAIN rounds = 1 .. Len(rounds) /\ Len(rounds) \in Nat
           /\ HaveRun \subseteq Ids
           /\ \A i \in DOMAIN rounds : rounds[i] \subseteq Ids
<1>1. rounds \in Seq(SUBSET Ids)
  BY DEF GraphInv, Ids, IdsIn
<1>2. DOMAIN rounds = 1 .. Len(rounds) /\ Len(rounds) \in Nat /\ \A i \in DOMAIN rounds : rounds[i] \subseteq Ids
  BY <1>1
<1> QED BY <1>1, <1>2 DEF HaveRun

LEMMA GraphIsTyped == GraphInv /\ GraphTyped => GraphTypeOK
<1> SUFFICES ASSUME GraphInv, GraphTyped PROVE GraphTypeOK
  OBVIOUS
<1>1. IsFiniteSet(Ids) /\ Cardinality(Ids) <= Len(nodes) /\ Len(nodes) \in Nat
  BY IdsAreFew DEF GraphTyped
<1>2. HaveRun \subseteq Ids /\ \A i \in DOMAIN rounds : rounds[i] \subseteq Ids
  BY RoundsAreOfIds
<1>3. Cardinality(HaveRun) <= Cardinality(Ids) /\ Cardinality(HaveRun) \in Nat /\ Cardinality(Ids) \in Nat
  BY <1>1, <1>2, FS_Subset, FS_CardinalityType
<1>4. Len(rounds) <= Len(nodes)
  <2>1. PICK h, k, r, n : h = Cardinality(HaveRun) /\ k = Cardinality(Ids) /\ r = Len(rounds) /\ n = Len(nodes)
    OBVIOUS
  <2>2. h \in Nat /\ k \in Nat /\ r \in Nat /\ n \in Nat /\ h <= k /\ k <= n /\ r <= h
    BY <1>1, <1>3, <2>1, RoundsAreOfIds DEF GraphTyped
  <2>3. r <= n
    BY <2>2
  <2> QED BY <2>1, <2>3
<1> QED BY <1>2, <1>4 DEF GraphTyped, GraphTypeOK

LEMMA GraphTypedStep == GraphInv /\ GraphTyped /\ [GraphNext]_graphVars => GraphTyped'
<1> SUFFICES ASSUME GraphInv, GraphTyped, [GraphNext]_graphVars PROVE GraphTyped'
  OBVIOUS
<1>1. CASE _validate_graph
  <2>1. nodes' \in NodeLists /\ graphStage' \in {"draft", "bad draft"} /\ UNCHANGED rounds
    BY <1>1 DEF _validate_graph
  <2>2. edges' \subseteq CandidateEdges
    BY <1>1 DEF _validate_graph, GraphTyped
  <2>3. HaveRun' = HaveRun
    BY <2>1 DEF HaveRun
  <2> QED BY <2>1, <2>2, <2>3 DEF GraphTyped
<1>2. CASE UNCHANGED <<nodes, edges, rounds>> /\ graphStage' \in {graphStage, "drawn", "bad graph", "built",
                       "bad refs", "succeeded", "failed"}
  <2>1. HaveRun' = HaveRun
    BY <1>2 DEF HaveRun
  <2> QED BY <1>2, <2>1 DEF GraphTyped
<1>3. CASE Invoke
  <2>1. UNCHANGED <<nodes, edges>> /\ graphStage' = "running" /\ rounds' = <<OfType("start")>>
    BY <1>3 DEF Invoke
  <2>2. OfType("start") \subseteq Ids /\ OfType("start") # {}
    <3>1. CanRun(nodes, edges)
      BY <1>3 DEF Invoke, GraphInv, Accepted
    <3> QED BY <3>1 DEF CanRun, OfType, TypeIn, Ids
  <2>3. HaveRun' = OfType("start") /\ Len(rounds') = 1
    BY <2>1 DEF HaveRun
  <2>4. IsFiniteSet(OfType("start"))
    BY <2>2, IdsAreFew, FS_Subset DEF GraphTyped
  <2>5. Cardinality(OfType("start")) \in Nat /\ Cardinality(OfType("start")) # 0
    BY <2>2, <2>4, FS_CardinalityType, FS_EmptySet
  <2>6. Len(rounds') <= Cardinality(HaveRun')
    <3>1. \A k \in Nat : k # 0 => 1 <= k
      OBVIOUS
    <3> QED BY <2>3, <2>5, <3>1
  <2> QED BY <2>1, <2>6 DEF GraphTyped
<1>4. CASE RunRound
  <2>1. UNCHANGED <<nodes, edges, graphStage>> /\ Triggered # {} /\ rounds' = Append(rounds, Triggered)
    BY <1>4 DEF RunRound
  <2>2. Triggered \subseteq Ids /\ Triggered \intersect HaveRun = {}
    BY DEF Triggered
  <2>3. /\ rounds \in Seq(SUBSET Ids) /\ DOMAIN rounds = 1 .. Len(rounds) /\ Len(rounds) \in Nat
        /\ HaveRun \subseteq Ids
    BY RoundsAreOfIds
  <2>4. /\ Len(rounds') = Len(rounds) + 1 /\ DOMAIN rounds' = 1 .. Len(rounds) + 1
        /\ \A i \in 1 .. Len(rounds) : rounds'[i] = rounds[i]
        /\ rounds'[Len(rounds) + 1] = Triggered
    BY <2>1, <2>2, <2>3
  <2>5. HaveRun' = HaveRun \union Triggered
    BY <2>3, <2>4 DEF HaveRun
  <2>6. IsFiniteSet(HaveRun) /\ IsFiniteSet(Triggered)
    BY <2>2, <2>3, IdsAreFew, FS_Subset DEF GraphTyped
  <2>7. Cardinality(HaveRun') = Cardinality(HaveRun) + Cardinality(Triggered)
    <3>1. Cardinality(HaveRun') = Cardinality(HaveRun) + Cardinality(Triggered) - Cardinality(HaveRun \cap Triggered)
      BY <2>5, <2>6, FS_Union
    <3>2. Cardinality(HaveRun \cap Triggered) = 0
      BY <2>2, FS_EmptySet
    <3>3. Cardinality(HaveRun) \in Nat /\ Cardinality(Triggered) \in Nat
      BY <2>6, FS_CardinalityType
    <3>4. \A h, k \in Nat : h + k - 0 = h + k
      OBVIOUS
    <3> QED BY <3>1, <3>2, <3>3, <3>4
  <2>8. /\ Cardinality(HaveRun) \in Nat /\ Cardinality(Triggered) \in Nat /\ Cardinality(Triggered) # 0
    BY <2>1, <2>6, FS_CardinalityType, FS_EmptySet
  <2>9. Len(rounds') <= Cardinality(HaveRun')
    <3>1. PICK h, k, r : h = Cardinality(HaveRun) /\ k = Cardinality(Triggered) /\ r = Len(rounds)
      OBVIOUS
    <3>2. h \in Nat /\ k \in Nat /\ k # 0 /\ r \in Nat /\ r <= h
      BY <2>3, <2>8, <3>1 DEF GraphTyped
    <3>3. r + 1 <= h + k
      BY <3>2
    <3> QED BY <2>4, <2>7, <3>1, <3>3
  <2> QED BY <2>1, <2>9 DEF GraphTyped
<1> QED BY <1>1, <1>2, <1>3, <1>4 DEF GraphNext, validate_workflow_config, ValidateReferences, NodeFails,
           InvokeEnds, graphVars

\* A run of a graph never takes more rounds than the graph has nodes, whatever the
\* graph: no node runs twice, and no round is empty.
THEOREM RunsAreShort == GraphSpec => []GraphTypeOK
<1>1. GraphInit => GraphTyped
  <2> SUFFICES ASSUME GraphInit PROVE GraphTyped
    OBVIOUS
  <2>1. HaveRun = {} /\ Len(rounds) = 0
    BY DEF GraphInit, HaveRun
  <2> QED BY <2>1, FS_EmptySet DEF GraphInit, GraphTyped
<1> QED BY <1>1, GraphIsTyped, GraphTypedStep, GraphHolds, PTL DEF GraphSpec
================================================================================
