---------------------------- MODULE KnowledgeStore ----------------------------
(***************************************************************************)
(* The stores of one knowledge base: the document and segment rows in      *)
(* PostgreSQL, the vectors in Weaviate and the keyword table, a JSON       *)
(* column that is rewritten as a whole under a Redis lock.  Nothing spans  *)
(* the stores: each operation below commits by itself.                     *)
(***************************************************************************)
EXTENDS Naturals, FiniteSets

CONSTANTS Documents,
          MaxSegments,   \* bound: segments of one document
          Processes,     \* whoever may hold the lock of the keyword table
          None

VARIABLES status,        \* documents.status; "unborn" before the row is, "gone" after
          enabled,       \* documents.enabled
          segment,       \* the segment rows
          vector,        \* the vector of a segment, or None
          table,         \* the segments the keyword table names
          tableLock,     \* holder of the lock of the keyword table
          found          \* segments its holder read before it writes

documentVars == <<status, enabled>>
tableVars == <<table, tableLock, found>>
storeVars == <<documentVars, segment, vector, tableVars>>

\* Segments are named by document and position.
Of(d) == {d} \X (1..MaxSegments)
Segments == Documents \X (1..MaxSegments)

DocumentStatus == {"waiting", "parsing", "splitting", "indexing", "completed", "error"}
SegmentStatus == {"waiting", "indexing", "completed", "error"}

NoRow == {"unborn", "gone"}

Row(st, on) == [status |-> st, enabled |-> on]
Vector(documentOn, segmentOn) ==
    [document_enabled |-> documentOn, segment_enabled |-> segmentOn]

Exists(d) == status[d] \notin NoRow
Rows(d) == {s \in Of(d) : segment[s].status \notin NoRow}
Fresh(d) == {s \in Of(d) : segment[s].status = "unborn"}
Completed(d) == {s \in Of(d) : segment[s].status = "completed"}

\* What a search returns: candidates of the table or of the vector store, if
\* the database says that they are in service.
Visible(s) ==
    /\ status[s[1]] = "completed" /\ enabled[s[1]]
    /\ segment[s].status = "completed" /\ segment[s].enabled
FullTextHits == {s \in table : Visible(s)}
SemanticHits == {s \in Segments : vector[s] = Vector(TRUE, TRUE) /\ Visible(s)}

StoreTypeOK ==
    /\ status \in [Documents -> DocumentStatus \union NoRow]
    /\ enabled \in [Documents -> BOOLEAN]
    /\ segment \in [Segments -> [status : SegmentStatus \union NoRow, enabled : BOOLEAN]]
    /\ vector \in [Segments -> [document_enabled : BOOLEAN, segment_enabled : BOOLEAN]
                                  \union {None}]
    /\ table \subseteq Segments
    /\ tableLock \in Processes \union {None}
    /\ found \subseteq Segments

\* The documents of `indexed' were built before, with a segment or more each.
StoreInit(indexed) ==
    \E n \in [indexed -> 1..MaxSegments] :
        LET built == {s \in Segments : s[1] \in indexed /\ s[2] <= n[s[1]]}
        IN /\ status = [d \in Documents |-> IF d \in indexed THEN "completed" ELSE "unborn"]
           /\ enabled = [d \in Documents |-> d \in indexed]
           /\ segment = [s \in Segments |-> IF s \in built THEN Row("completed", TRUE)
                                                            ELSE Row("unborn", FALSE)]
           /\ vector = [s \in Segments |-> IF s \in built THEN Vector(TRUE, TRUE) ELSE None]
           /\ table = built
           /\ tableLock = None
           /\ found = {}

-----------------------------------------------------------------------------
(***************************************************************************)
(* Single statements.                                                      *)
(***************************************************************************)
SetStatus(d, st) ==
    /\ status' = [status EXCEPT ![d] = st]
    /\ UNCHANGED enabled

\* An update of a row that is gone has no effect on the stores.
SetEnabled(d, on) ==
    /\ enabled' = [enabled EXCEPT ![d] = Exists(d) /\ on]
    /\ UNCHANGED status

SetSegments(ids, row) ==
    segment' = [s \in Segments |-> IF s \in ids THEN row ELSE segment[s]]

SetVectors(ids, v) ==
    vector' = [s \in Segments |-> IF s \in ids THEN v ELSE vector[s]]

(***************************************************************************)
(* add_keyword_table_from_ids: the rows are read and the table is written  *)
(* with the lock held; segments come and go without it.                    *)
(***************************************************************************)
add_keyword_table_Read(p, ids) ==
    /\ tableLock = None
    /\ tableLock' = p
    /\ found' = {s \in ids : segment[s].status \notin NoRow}
    /\ UNCHANGED table

add_keyword_table_Write(p) ==
    /\ tableLock = p
    /\ tableLock' = None
    /\ table' = table \union found
    /\ found' = {}

delete_keyword_table_from_ids(ids) ==
    /\ tableLock = None
    /\ table' = table \ ids
    /\ UNCHANGED <<tableLock, found>>

\* The lock of a process that died expires.
LockExpires(p) ==
    /\ tableLock' = IF tableLock = p THEN None ELSE tableLock
    /\ found' = IF tableLock = p THEN {} ELSE found
    /\ UNCHANGED table
=============================================================================
