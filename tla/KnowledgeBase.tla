----------------------------- MODULE KnowledgeBase -----------------------------
(***************************************************************************)
(* One knowledge base: the requests of its user, the Celery workers and    *)
(* the stores they share.                                                  *)
(***************************************************************************)
EXTENDS SegmentRequests

CONSTANT Indexed         \* documents that were built before

ASSUME KnowledgeAssumption ==
    /\ Indexed \subseteq Documents
    /\ Processes = Workers \union Requests /\ Workers \intersect Requests = {}
    /\ None \notin Documents \union Segments \union Processes
    /\ None \notin [document_enabled : BOOLEAN, segment_enabled : BOOLEAN]
    /\ Faults \subseteq FaultKinds
    /\ Operations \subseteq OperationKinds
    /\ MaxSegments \in Nat \ {0} /\ MaxRetries \in Nat /\ MaxRedeliveries \in Nat

VARIABLE crashed         \* history: a process died in the middle of its work

vars == <<storeVars, workerVars, requestVars, crashed>>

TypeOK ==
    /\ StoreTypeOK
    /\ WorkersTypeOK
    /\ RequestsTypeOK
    /\ crashed \in BOOLEAN

Init ==
    /\ StoreInit(Indexed)
    /\ WorkersInit
    /\ RequestsInit
    /\ segmentLock = {}
    /\ crashed = FALSE

DocumentRequest(r) ==
    (Create(r) \/ Remove(r) \/ SwitchDocument(r)) /\ UNCHANGED <<segmentLock, crashed>>

SegmentRequest(r) ==
    /\ AddSegment(r) \/ CutSegment(r) \/ SwitchSegment(r) \/ RewriteSegment(r)
    /\ UNCHANGED crashed

Request(r) == DocumentRequest(r) \/ SegmentRequest(r)

\* The API process dies; the locks it held expire, the one of a toggle that
\* was not yet dispatched included.
RequestDies(r) ==
    /\ "request_crash" \in Faults
    /\ request[r].at # "idle"
    /\ Replies(r)
    /\ LockExpires(r)
    /\ segmentLock' = IF request[r].at \in {"flip", "flipRead", "flipAdd", "flipDelete",
                                            "putFlipped", "flipVector"}
                      THEN segmentLock \ {Seg(r)} ELSE segmentLock
    /\ toggleLock' = IF request[r].at \in {"commit", "send", "undo"}
                     THEN toggleLock \ {ReqDoc(r)} ELSE toggleLock
    /\ crashed' = TRUE
    /\ UNCHANGED <<documentVars, segment, vector, messages, redeliveries, worker>>

Receive(w) == (\E m \in messages : Take(w, m)) /\ UNCHANGED <<requestVars, crashed>>

WorkOn(w) == Work(w) /\ UNCHANGED <<requestVars, crashed>>

Dies(w) == WorkerDies(w) /\ crashed' = TRUE /\ UNCHANGED requestVars

Next ==
    \/ \E r \in Requests : Request(r) \/ RequestDies(r)
    \/ \E w \in Workers : Receive(w) \/ WorkOn(w) \/ Dies(w)

(***************************************************************************)
(* A request that was begun is carried on, and so is a task.  Nobody has   *)
(* to make a request.                                                      *)
(***************************************************************************)
Fairness ==
    /\ \A r \in Requests : WF_vars(request[r].at # "idle" /\ Request(r))
    /\ \A w \in Workers : WF_vars(Receive(w)) /\ WF_vars(WorkOn(w))

Spec == Init /\ [][Next]_vars /\ Fairness

-----------------------------------------------------------------------------
Builders(d) == {w \in Workers : worker[w].document = d /\ worker[w].at \in Building}

\* Nobody works on document d, and no message or half-done request speaks of it.
Quiet(d) ==
    /\ \A m \in messages : m.document # d
    /\ \A w \in Workers : worker[w].document # d
    /\ \A r \in Requests : request[r].document # d

Stage == [waiting |-> {}, parsing |-> {"parse"}, splitting |-> {"split"},
          indexing |-> {"index", "addKeywords", "putKeywords", "store", "settle"},
          completed |-> {}, error |-> {}, unborn |-> {}, gone |-> {}]

\* A document is built by at most one worker, and as long as it is its status
\* is the stage that worker is in: no duplicate message, failed dispatch or
\* delete reaches a document that is being built.
BuildOwnsDocument ==
    \A d \in Documents :
        /\ Cardinality(Builders(d)) <= 1
        /\ \A w \in Builders(d) : worker[w].at \in Stage[status[d]]

\* A document is completed only with all its segments: each of them is in the
\* table of keywords and has a vector, although any batch may have failed.
CompletedIsWhole ==
    \A d \in Documents :
        status[d] = "completed" =>
            \A s \in Rows(d) : /\ segment[s].status = "completed"
                               /\ s \in table
                               /\ vector[s] = Vector(TRUE, TRUE)

\* The task that cleans up never takes a segment from a document that is still
\* there: not when the request has yet to delete the row, nor when it never will.
LiveKeepsSegments ==
    [][\A d \in Documents : Exists(d) => Rows(d) \subseteq Rows(d)']_vars

Alone(w) ==
    /\ \A m \in messages : m.document # Doc(w)
    /\ \A v \in Workers \ {w} : worker[v].document # Doc(w)

\* A cleanup that succeeds, whichever try it is, leaves nothing of its document.
CleanupIsComplete ==
    [][\A w \in Workers, d \in Documents :
         DropKeywords(w) /\ Doc(w) = d /\ Alone(w) =>
             /\ Rows(d)' = {}
             /\ \A s \in Of(d) : vector'[s] = None /\ s \notin table']_vars

Settled(d) == status[d] \in {"unborn", "completed", "error", "gone"}

\* When nobody is at work on a document it is not left half-built: it is
\* completed, or an error its user can delete.
QuietIsSettled == \A d \in Documents : Quiet(d) => Settled(d)

\* A document that was created is completed, becomes an error or is deleted,
\* unless a process dies.
CreatedIsSettled == \A d \in Documents : ~Settled(d) ~> (Settled(d) \/ crashed)

\* When nobody is at work on a document, what a search would find of it, by
\* keyword and by vector, is what its row and the rows of its segments say.
QuietIsConsistent ==
    \A d \in Documents : Exists(d) /\ Quiet(d) =>
        \A s \in Completed(d) :
            /\ vector[s] = Vector(enabled[d], segment[s].enabled)
            /\ (s \in table) <=> (enabled[d] /\ segment[s].enabled)

\* A toggle is refused until the one before it is through.
TogglesOneAtATime ==
    \A d \in Documents :
        Cardinality({m \in messages : m.task = "toggle" /\ m.document = d})
      + Cardinality({w \in Workers : /\ worker[w].document = d
                                     /\ worker[w].at \in {"toggle", "mark", "putToggled", "unlock"}})
      + Cardinality({r \in Requests : request[r].document = d /\ request[r].at \in {"commit", "send"}})
      <= 1

\* A segment that is in service, and that no request is changing, is found by
\* keyword and by vector.
InServiceIsFound ==
    \A s \in Segments :
        Visible(s) /\ (\A r \in Requests : Seg(r) # s) => s \in FullTextHits \intersect SemanticHits

-----------------------------------------------------------------------------
(***************************************************************************)
(* Documents as their users know them.                                     *)
(***************************************************************************)
Progress == [unborn |-> "none", waiting |-> "building", parsing |-> "building",
             splitting |-> "building", indexing |-> "building",
             completed |-> "ready", error |-> "failed", gone |-> "gone"]

UserStage == [d \in Documents |-> Progress[status[d]]]
Contents == [d \in Documents |-> Rows(d)]
ByKeyword == [d \in Documents |-> FullTextHits \intersect Of(d)]
ByVector == [d \in Documents |-> SemanticHits \intersect Of(d)]

DocumentView == INSTANCE DocumentContract WITH
    stage <- UserStage, contents <- Contents, byKeyword <- ByKeyword, byVector <- ByVector

\* As long as users submit and delete documents, all the workers and requests do, one
\* store after the other, looks as if a document were published whole and taken
\* away in one step each, and never built twice.
ImplementsDocumentContract == DocumentView!Spec
=============================================================================
