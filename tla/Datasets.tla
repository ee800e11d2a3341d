------------------------------- MODULE Datasets -------------------------------
(***************************************************************************)
(* One knowledge base from DatasetService's side: its deletion, which      *)
(* clears the vector store, the rows and at last the knowledge base, while *)
(* workers go on building and users switch segments; and searches, which   *)
(* ask the vector store and believe the database.                          *)
(***************************************************************************)
EXTENDS Naturals, FiniteSets

CONSTANTS BaseSegments,    \* segments of the knowledge base
          Deleters,        \* requests that delete it
          Searches         \* requests and turns that search it

VARIABLES base,            \* the rows of the knowledge base and of its binding to an app
          rows,            \* the segments' rows: absent, hidden or visible
          vectors,         \* segments in the vector store
          building,        \* how far the worker is with each segment
          deleter,         \* the requests, with what was there when they began
          search           \* the searches

baseVars == <<base, rows, vectors, building, deleter, search>>

RowStates == {"absent", "hidden", "visible"}

BaseTypeOK ==
    /\ base \in [exists : BOOLEAN, joined : BOOLEAN, queries : BOOLEAN]
    /\ rows \in [BaseSegments -> RowStates]
    /\ vectors \subseteq BaseSegments
    /\ building \in [BaseSegments -> {"new", "begun", "split", "indexed", "over"}]
    /\ deleter \in [Deleters -> [at : {"new", "begun", "unindexed", "emptied", "over", "failed"},
                                 rows : SUBSET BaseSegments, vectors : SUBSET BaseSegments]]
    /\ search \in [Searches -> [at : {"new", "allowed", "found", "answered", "counted", "shown", "refused"},
                                found : SUBSET BaseSegments, seen : SUBSET BaseSegments]]

BaseInit ==
    /\ base = [exists |-> TRUE, joined |-> TRUE, queries |-> FALSE]
    /\ rows = [s \in BaseSegments |-> "absent"]
    /\ vectors = {}
    /\ building = [s \in BaseSegments |-> "new"]
    /\ deleter = [d \in Deleters |-> [at |-> "new", rows |-> {}, vectors |-> {}]]
    /\ search = [q \in Searches |-> [at |-> "new", found |-> {}, seen |-> {}]]

Visible == {s \in BaseSegments : rows[s] = "visible"}

\* The rows change, and what has been visible since a search began is remembered.
RowsBecome(values) ==
    /\ rows' = values
    /\ search' = [q \in Searches |->
          IF search[q].at \in {"allowed", "found"}
          THEN [search[q] EXCEPT !.seen = @ \union {s \in BaseSegments : values[s] = "visible"}]
          ELSE search[q]]

-----------------------------------------------------------------------------
(***************************************************************************)
(* Workers and users.  Who builds a segment does not look at the knowledge *)
(* base again, and an UPDATE of a row that is gone updates nothing.        *)
(***************************************************************************)
BuildGoes(s, from, to) ==
    /\ building[s] = from
    /\ building' = [building EXCEPT ![s] = to]
    /\ UNCHANGED <<base, deleter>>

\* The document, or the knowledge base, is found; the row is written later.
BeginSegment(s) ==
    /\ base.exists
    /\ BuildGoes(s, "new", "begun")
    /\ UNCHANGED <<rows, vectors, search>>

SplitSegment(s) ==
    /\ BuildGoes(s, "begun", "split")
    /\ RowsBecome([rows EXCEPT ![s] = "hidden"])
    /\ UNCHANGED vectors

IndexSegment(s) ==
    /\ BuildGoes(s, "split", "indexed")
    /\ vectors' = vectors \union {s}
    /\ UNCHANGED <<rows, search>>

CompleteSegment(s) ==
    /\ BuildGoes(s, "indexed", "over")
    /\ RowsBecome([rows EXCEPT ![s] = IF @ = "absent" THEN @ ELSE "visible"])
    /\ UNCHANGED vectors

\* A segment, or its document, is disabled, and the vector store is not told yet.
HideSegment(s) ==
    /\ rows[s] = "visible"
    /\ RowsBecome([rows EXCEPT ![s] = "hidden"])
    /\ UNCHANGED <<base, vectors, building, deleter>>

-----------------------------------------------------------------------------
(***************************************************************************)
(* delete_dataset.  Any step may fail; the request then answers with an    *)
(* error, and the user may ask again as long as the row is there.          *)
(***************************************************************************)
Deletes(d, from, to) ==
    /\ deleter[d].at = from
    /\ deleter' = [deleter EXCEPT ![d].at = to]
    /\ UNCHANGED building

BeginDataset(d) ==
    /\ base.exists
    /\ deleter[d].at \in {"new", "failed"}
    /\ deleter' = [deleter EXCEPT ![d] = [at |-> "begun", vectors |-> vectors,
                                          rows |-> {s \in BaseSegments : rows[s] # "absent"}]]
    /\ UNCHANGED <<base, rows, vectors, building, search>>

ClearVectors(d) ==
    /\ Deletes(d, "begun", "unindexed")
    /\ vectors' = {}
    /\ UNCHANGED <<base, rows, search>>

\* Documents, segments, keywords and queries, in one commit.
ClearRows(d) ==
    /\ Deletes(d, "unindexed", "emptied")
    /\ RowsBecome([s \in BaseSegments |-> "absent"])
    /\ base' = [base EXCEPT !.queries = FALSE]
    /\ UNCHANGED vectors

\* Mutant: the knowledge base goes first, and a failure after it is for ever.
DropRow_First(d) ==
    /\ Deletes(d, "begun", "unindexed")
    /\ base' = [exists |-> FALSE, joined |-> FALSE, queries |-> base.queries]
    /\ UNCHANGED <<rows, vectors, search>>

DropRow(d) ==
    /\ Deletes(d, "emptied", "over")
    /\ base' = [exists |-> FALSE, joined |-> FALSE, queries |-> base.queries]
    /\ UNCHANGED <<rows, vectors, search>>

DeleteFails(d) ==
    /\ \E from \in {"begun", "unindexed", "emptied"} : Deletes(d, from, "failed")
    /\ UNCHANGED <<base, rows, vectors, search>>

delete_dataset(d) ==
    BeginDataset(d) \/ ClearVectors(d) \/ ClearRows(d) \/ DropRow(d) \/ DeleteFails(d)

-----------------------------------------------------------------------------
(***************************************************************************)
(* search_in_datasets                                                      *)
(***************************************************************************)
SearchGoes(q, from, values) ==
    /\ search[q].at = from
    /\ search' = [search EXCEPT ![q] = values]
    /\ UNCHANGED <<rows, vectors, building, deleter>>

AskSearch(q) ==
    /\ SearchGoes(q, "new", [search[q] EXCEPT
           !.at = IF base.exists THEN "allowed" ELSE "refused", !.seen = Visible])
    /\ UNCHANGED base

\* What the store has, and whatever it says of the rest; k may cut it.
Retrieve(q) ==
    /\ \E found \in SUBSET vectors : SearchGoes(q, "allowed", [search[q] EXCEPT !.at = "found", !.found = found])
    /\ UNCHANGED base

\* Mutant: what the store says is believed.
_get_visible_segments_All(found) == found

_get_visible_segments(found) == found \intersect Visible

\* A query is recorded for the knowledge bases that have an answer.
AnswerSearch(q) ==
    LET found == _get_visible_segments(search[q].found)
    IN /\ SearchGoes(q, "found", [search[q] EXCEPT !.at = "answered", !.found = found])
       /\ base' = [base EXCEPT !.queries = @ \/ found # {}]

\* _increment_hits: a row that has gone is not counted.
CountHits(q) ==
    /\ SearchGoes(q, "answered", [search[q] EXCEPT !.at = "counted"])
    /\ UNCHANGED base

search_in_datasets(q) == AskSearch(q) \/ Retrieve(q) \/ AnswerSearch(q) \/ CountHits(q)

\* The test page reads the rows of its hits again and leaves out those that are gone.
ShowHits(q) ==
    /\ SearchGoes(q, "counted", [search[q] EXCEPT !.at = "shown", !.found = {s \in @ : rows[s] # "absent"}])
    /\ UNCHANGED base

\* A turn is given the documents of the search as they are.
combine_documents(q) ==
    /\ SearchGoes(q, "counted", [search[q] EXCEPT !.at = "shown"])
    /\ UNCHANGED base

hit(q) == search_in_datasets(q) \/ ShowHits(q)
dataset_retrieval(q) == search_in_datasets(q) \/ combine_documents(q)

BaseNext ==
    \/ \E s \in BaseSegments :
          BeginSegment(s) \/ SplitSegment(s) \/ IndexSegment(s) \/ CompleteSegment(s) \/ HideSegment(s)
    \/ \E d \in Deleters : delete_dataset(d)
    \/ \E q \in Searches : hit(q) \/ dataset_retrieval(q)

BaseSpec == BaseInit /\ [][BaseNext]_baseVars

-----------------------------------------------------------------------------
\* Once the knowledge base is gone nobody can ask again for its deletion: by then
\* every row, and every vector of a finished segment, that was there when a deletion
\* began has gone; only what a worker was still writing can be left.
DeleteLeavesOnlyLateWrites ==
    ~base.exists =>
        \E d \in Deleters :
            /\ deleter[d].at = "over"
            /\ \A s \in deleter[d].rows : rows[s] = "absent"
            /\ deleter[d].vectors \intersect vectors = {}

\* A search answers with nothing that was not visible in the database while it ran,
\* though vectors of deleted, disabled and unfinished segments stay in the store, and
\* what is shown of it at last is no more than that.
ResultsWereVisible ==
    \A q \in Searches :
        search[q].at \in {"answered", "counted", "shown"} => search[q].found \subseteq search[q].seen
=============================================================================
