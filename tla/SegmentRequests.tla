---------------------------- MODULE SegmentRequests ----------------------------
(***************************************************************************)
(* The HTTP requests that change one segment of an indexed document:       *)
(* SegmentService.  They write the stores themselves, without a task.      *)
(***************************************************************************)
EXTENDS DocumentRequests

VARIABLE segmentLock     \* segments whose lock_segment_update_enabled is held

requestVars == <<request, segmentLock>>

SegmentPlaces == {"newRow", "newRead", "newVector", "newCount", "newKeywords", "putNew",
                  "cutRow", "cutKeywords", "cutVector",
                  "lookHeld", "hold", "flip", "flipRead", "flipAdd", "flipDelete",
                  "putFlipped", "flipVector",
                  "rewrite", "dropOld", "addNew", "putRewritten", "rewriteVector"}

RequestsTypeOK ==
    /\ request \in [Requests -> [at : {"idle"} \union DocumentPlaces \union SegmentPlaces,
                                 document : Documents \union {None}, segment : Segments \union {None},
                                 want : BOOLEAN, on : BOOLEAN]]
    /\ segmentLock \subseteq Segments

elsewhere == <<documentVars, workerVars>>

Seg(r) == request[r].segment
HasRow(s) == segment[s].status \notin NoRow

\* A segment that could not be brought in line everywhere is put out of service.
Discard(r) == SetSegments({Seg(r)} \intersect Rows(ReqDoc(r)), Row("error", FALSE))

-----------------------------------------------------------------------------
(***************************************************************************)
(* create_segment                                                          *)
(***************************************************************************)
\* Bound: as many new segments as there are names left.
AskNew(r, d) ==
    /\ Cardinality({q \in Requests : request[q].at = "newRow" /\ ReqDoc(q) = d})
         < Cardinality(Fresh(d))
    /\ status[d] = "completed"
    /\ Begin(r, "segment", "newRow", d, None, TRUE)
    /\ UNCHANGED <<segmentLock, storeVars, workerVars>>

NewRow(r) ==
    /\ request[r].at = "newRow"
    /\ \E s \in Fresh(ReqDoc(r)) :
          /\ request' = [request EXCEPT ![r].at = "newRead", ![r].segment = s]
          /\ SetSegments({s}, Row("completed", TRUE))
    /\ UNCHANGED <<segmentLock, elsewhere, vector, tableVars>>

\* document.enabled is read for the vector's metadata; the embedding follows.
NewRead(r) ==
    /\ request[r].at = "newRead"
    /\ Exists(ReqDoc(r))
    /\ request' = [request EXCEPT ![r].at = "newVector", ![r].on = enabled[ReqDoc(r)]]
    /\ UNCHANGED <<segmentLock, storeVars, workerVars>>

NewVector(r) ==
    /\ Goes(r, "newVector", "newCount")
    /\ SetVectors({Seg(r)}, Vector(request[r].on, TRUE))
    /\ UNCHANGED <<segmentLock, elsewhere, segment, tableVars>>

NewCount(r) ==
    /\ Goes(r, "newCount", "newKeywords")
    /\ Exists(ReqDoc(r))
    /\ UNCHANGED <<segmentLock, storeVars, workerVars>>

NewKeywords(r) ==
    /\ Goes(r, "newKeywords", "putNew")
    /\ add_keyword_table_Read(r, {Seg(r)})
    /\ UNCHANGED <<segmentLock, elsewhere, segment, vector>>

PutNew(r) ==
    /\ Ends(r, "putNew")
    /\ add_keyword_table_Write(r)
    /\ UNCHANGED <<segmentLock, elsewhere, segment, vector>>

\* Whatever raises once the row is there, the document being gone included.
NewFails(r) ==
    /\ \/ request[r].at \in {"newRead", "newCount"} /\ ~Exists(ReqDoc(r))
       \/ request[r].at = "newVector" /\ "vector" \in Faults
       \/ request[r].at = "newKeywords" /\ "table" \in Faults
    /\ Replies(r)
    /\ Discard(r)
    /\ UNCHANGED <<segmentLock, elsewhere, vector, tableVars>>

AddSegment(r) ==
    \/ \E d \in Documents : AskNew(r, d)
    \/ NewRow(r) \/ NewRead(r) \/ NewVector(r) \/ NewCount(r) \/ NewKeywords(r) \/ PutNew(r)
    \/ NewFails(r)

-----------------------------------------------------------------------------
(***************************************************************************)
(* delete_segment                                                          *)
(***************************************************************************)
AskCut(r, s) ==
    /\ segment[s].status \in {"completed", "error"}
    /\ Begin(r, "segment", "cutRow", s[1], s, FALSE)
    /\ UNCHANGED <<segmentLock, storeVars, workerVars>>

CutRow(r) ==
    /\ Goes(r, "cutRow", "cutKeywords")
    /\ SetSegments({Seg(r)}, Row("gone", FALSE))
    /\ UNCHANGED <<segmentLock, elsewhere, vector, tableVars>>

CutKeywords(r) ==
    /\ Goes(r, "cutKeywords", "cutVector")
    /\ delete_keyword_table_from_ids({Seg(r)})
    /\ UNCHANGED <<segmentLock, elsewhere, segment, vector>>

\* Nothing puts the row back, and the vector is not reached.
CutFails(r) ==
    /\ Ends(r, "cutKeywords")
    /\ "table" \in Faults
    /\ UNCHANGED <<segmentLock, storeVars, workerVars>>

\* A failure of the vector store is logged and the request succeeds.
CutVector(r) ==
    /\ Ends(r, "cutVector")
    /\ \/ SetVectors({Seg(r)}, None)
       \/ "vector" \in Faults /\ UNCHANGED vector
    /\ UNCHANGED <<segmentLock, elsewhere, segment, tableVars>>

CutSegment(r) ==
    \/ \E s \in Segments : AskCut(r, s)
    \/ CutRow(r) \/ CutKeywords(r) \/ CutFails(r) \/ CutVector(r)

-----------------------------------------------------------------------------
(***************************************************************************)
(* update_segment_enabled                                                  *)
(***************************************************************************)
AskFlip(r, s) ==
    /\ segment[s].status = "completed"
    /\ Begin(r, "segment", "lookHeld", s[1], s, ~segment[s].enabled)
    /\ UNCHANGED <<segmentLock, storeVars, workerVars>>

\* Refused while the lock is held; one that gets past this waits for it.
LookHeld(r) ==
    /\ IF Seg(r) \in segmentLock THEN Ends(r, "lookHeld") ELSE Goes(r, "lookHeld", "hold")
    /\ UNCHANGED <<segmentLock, storeVars, workerVars>>

Hold(r) ==
    /\ Goes(r, "hold", "flip")
    /\ Seg(r) \notin segmentLock
    /\ segmentLock' = segmentLock \union {Seg(r)}
    /\ UNCHANGED <<storeVars, workerVars>>

Release(r) == segmentLock' = segmentLock \ {Seg(r)}

Flip(r) ==
    /\ Goes(r, "flip", "flipRead")
    /\ HasRow(Seg(r))
    /\ segment' = [segment EXCEPT ![Seg(r)].enabled = request[r].want]
    /\ UNCHANGED <<segmentLock, elsewhere, vector, tableVars>>

FlipRead(r) ==
    /\ Goes(r, "flipRead", IF enabled[ReqDoc(r)] /\ request[r].want THEN "flipAdd" ELSE "flipDelete")
    /\ HasRow(Seg(r)) /\ Exists(ReqDoc(r))
    /\ UNCHANGED <<segmentLock, storeVars, workerVars>>

FlipAdd(r) ==
    /\ Goes(r, "flipAdd", "putFlipped")
    /\ add_keyword_table_Read(r, {Seg(r)})
    /\ UNCHANGED <<segmentLock, elsewhere, segment, vector>>

PutFlipped(r) ==
    /\ Goes(r, "putFlipped", "flipVector")
    /\ add_keyword_table_Write(r)
    /\ UNCHANGED <<segmentLock, elsewhere, segment, vector>>

FlipDelete(r) ==
    /\ Goes(r, "flipDelete", "flipVector")
    /\ delete_keyword_table_from_ids({Seg(r)})
    /\ UNCHANGED <<segmentLock, elsewhere, segment, vector>>

FlipVector(r) ==
    /\ Ends(r, "flipVector")
    /\ vector[Seg(r)] # None
    /\ vector' = [vector EXCEPT ![Seg(r)].segment_enabled = request[r].want]
    /\ Release(r)
    /\ UNCHANGED <<elsewhere, segment, tableVars>>

\* Mutant: the lock is released, and the row stays as it is.
FlipFails_RowStays(r) ==
    /\ \/ request[r].at \in {"flipAdd", "flipDelete"} /\ "table" \in Faults
       \/ request[r].at = "flipVector" /\ (vector[Seg(r)] = None \/ "vector" \in Faults)
    /\ Replies(r)
    /\ Release(r)
    /\ UNCHANGED <<elsewhere, storeVars>>

\* The row, the document or the vector is gone, or a store fails.
FlipFails(r) ==
    /\ \/ request[r].at = "flip" /\ ~HasRow(Seg(r))
       \/ request[r].at = "flipRead" /\ ~(HasRow(Seg(r)) /\ Exists(ReqDoc(r)))
       \/ request[r].at \in {"flipAdd", "flipDelete"} /\ "table" \in Faults
       \/ request[r].at = "flipVector" /\ (vector[Seg(r)] = None \/ "vector" \in Faults)
    /\ Replies(r)
    /\ Discard(r)
    /\ Release(r)
    /\ UNCHANGED <<elsewhere, vector, tableVars>>

SwitchSegment(r) ==
    \/ \E s \in Segments : AskFlip(r, s)
    \/ LookHeld(r) \/ Hold(r) \/ Flip(r) \/ FlipRead(r) \/ FlipAdd(r) \/ PutFlipped(r)
    \/ FlipDelete(r) \/ FlipVector(r) \/ FlipFails(r)
-----------------------------------------------------------------------------
(***************************************************************************)
(* update_segment: new content and keywords, which the model does not      *)
(* tell apart; the keywords leave the table before the new ones enter.     *)
(***************************************************************************)
AskRewrite(r, s) ==
    /\ segment[s].status = "completed"
    /\ Begin(r, "segment", "rewrite", s[1], s, FALSE)
    /\ UNCHANGED <<segmentLock, storeVars, workerVars>>

Rewrite(r) ==
    /\ Goes(r, "rewrite", "dropOld")
    /\ HasRow(Seg(r))
    /\ UNCHANGED <<segmentLock, storeVars, workerVars>>

DropOld(r) ==
    /\ Goes(r, "dropOld", "addNew")
    /\ delete_keyword_table_from_ids({Seg(r)})
    /\ UNCHANGED <<segmentLock, elsewhere, segment, vector>>

AddNew(r) ==
    /\ Goes(r, "addNew", "putRewritten")
    /\ add_keyword_table_Read(r, {Seg(r)})
    /\ UNCHANGED <<segmentLock, elsewhere, segment, vector>>

PutRewritten(r) ==
    /\ Goes(r, "putRewritten", "rewriteVector")
    /\ add_keyword_table_Write(r)
    /\ UNCHANGED <<segmentLock, elsewhere, segment, vector>>

\* The text of the vector is new; its flags are not written.
RewriteVector(r) ==
    /\ Ends(r, "rewriteVector")
    /\ HasRow(Seg(r)) /\ vector[Seg(r)] # None
    /\ UNCHANGED <<segmentLock, storeVars, workerVars>>

\* The request fails and nothing is put back: not the old keywords, if the
\* lock of their table cannot be had a second time.
RewriteFails(r) ==
    /\ \/ request[r].at = "rewrite" /\ ~HasRow(Seg(r))
       \/ request[r].at = "dropOld" /\ "table" \in Faults
       \/ request[r].at = "addNew" /\ "second_lock" \in Faults
       \/ /\ request[r].at = "rewriteVector"
          /\ ~HasRow(Seg(r)) \/ vector[Seg(r)] = None \/ "vector" \in Faults
    /\ Replies(r)
    /\ UNCHANGED <<segmentLock, storeVars, workerVars>>

RewriteSegment(r) ==
    \/ \E s \in Segments : AskRewrite(r, s)
    \/ Rewrite(r) \/ DropOld(r) \/ AddNew(r) \/ PutRewritten(r) \/ RewriteVector(r)
    \/ RewriteFails(r)
=============================================================================
