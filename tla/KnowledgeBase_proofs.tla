-------------------------- MODULE KnowledgeBase_proofs --------------------------
(***************************************************************************)
(* Theorems of KnowledgeBase, for any number of documents, segments,       *)
(* workers and requests, whatever fails, crashes or is delivered twice.    *)
(***************************************************************************)
EXTENDS KnowledgeBase, TLAPS, FiniteSetTheorems, WellFoundedInduction

SegmentRecord == [status : SegmentStatus \union NoRow, enabled : BOOLEAN]
VectorRecord == [document_enabled : BOOLEAN, segment_enabled : BOOLEAN]
WorkerRecord == [at : WorkerPlaces, document : Documents \union {None}, tries : 0..MaxRetries,
                 ids : SUBSET Segments, left : SUBSET Segments,
                 live : SUBSET Segments, on : BOOLEAN \union {None}]
RequestRecord == [at : {"idle"} \union DocumentPlaces \union SegmentPlaces,
                  document : Documents \union {None}, segment : Segments \union {None},
                  want : BOOLEAN, on : BOOLEAN]

DocumentsTyped ==
    /\ status \in [Documents -> DocumentStatus \union NoRow]
    /\ enabled \in [Documents -> BOOLEAN]
SegmentsTyped == segment \in [Segments -> SegmentRecord]
VectorsTyped == vector \in [Segments -> VectorRecord \union {None}]
TableTyped ==
    /\ table \subseteq Segments
    /\ tableLock \in Processes \union {None}
    /\ found \subseteq Segments
QueueTyped ==
    /\ messages \subseteq Message
    /\ redeliveries \in 0..MaxRedeliveries
    /\ toggleLock \subseteq Documents

\* A worker that has a task, and a request that is under way, know their document,
\* and a request on a segment one of that document.
WorkersTyped ==
    /\ worker \in [Workers -> WorkerRecord]
    /\ \A w \in Workers : worker[w].at # "idle" => worker[w].document \in Documents
RequestsTyped ==
    /\ request \in [Requests -> RequestRecord]
    /\ segmentLock \subseteq Segments
    /\ \A r \in Requests :
          /\ request[r].at # "idle" => request[r].document \in Documents
          /\ request[r].at \in SegmentPlaces \ {"newRow"} => request[r].segment \in Of(request[r].document)

Typed ==
    /\ DocumentsTyped /\ SegmentsTyped /\ VectorsTyped /\ TableTyped
    /\ QueueTyped /\ WorkersTyped /\ RequestsTyped
    /\ crashed \in BOOLEAN

LEMMA TypedIsTypeOK == Typed => TypeOK
BY DEF Typed, TypeOK, StoreTypeOK, WorkersTypeOK, RequestsTypeOK, DocumentsTyped, SegmentsTyped,
       VectorsTyped, TableTyped, QueueTyped, WorkersTyped, RequestsTyped,
       SegmentRecord, VectorRecord, WorkerRecord, RequestRecord

-----------------------------------------------------------------------------
(***************************************************************************)
(* What the single statements keep.                                        *)
(***************************************************************************)
LEMMA SegmentsOf == \A d \in Documents : Of(d) \subseteq Segments /\ \A s \in Of(d) : s[1] = d
BY DEF Of, Segments

LEMMA RowsOf == \A d \in Documents : Rows(d) \subseteq Of(d) /\ Fresh(d) \subseteq Of(d) /\ Completed(d) \subseteq Of(d)
BY DEF Rows, Fresh, Completed

LEMMA SetStatusTyped ==
    ASSUME DocumentsTyped, NEW d \in Documents, NEW st \in DocumentStatus \union NoRow, SetStatus(d, st)
    PROVE  DocumentsTyped'
BY DEF DocumentsTyped, SetStatus

LEMMA SetEnabledTyped ==
    ASSUME DocumentsTyped, NEW d \in Documents, NEW on \in BOOLEAN, SetEnabled(d, on)
    PROVE  DocumentsTyped'
<1>1. (Exists(d) /\ on) \in BOOLEAN
  BY DEF Exists
<1> QED BY <1>1 DEF DocumentsTyped, SetEnabled

LEMMA SetSegmentsTyped ==
    ASSUME SegmentsTyped, NEW ids, NEW row \in SegmentRecord, SetSegments(ids, row)
    PROVE  SegmentsTyped'
BY DEF SegmentsTyped, SetSegments

LEMMA SetVectorsTyped ==
    ASSUME VectorsTyped, NEW ids, NEW v \in VectorRecord \union {None}, SetVectors(ids, v)
    PROVE  VectorsTyped'
BY DEF VectorsTyped, SetVectors

LEMMA RowTyped ==
    /\ \A st \in SegmentStatus \union NoRow, on \in BOOLEAN : Row(st, on) \in SegmentRecord
    /\ \A a, b \in BOOLEAN : Vector(a, b) \in VectorRecord
BY DEF Row, SegmentRecord, Vector, VectorRecord

LEMMA TableKeepsType ==
    ASSUME TableTyped, NEW p \in Processes, NEW ids \in SUBSET Segments,
           \/ add_keyword_table_Read(p, ids) \/ add_keyword_table_Write(p)
           \/ delete_keyword_table_from_ids(ids) \/ LockExpires(p) \/ UNCHANGED tableVars
    PROVE  TableTyped'
BY DEF TableTyped, add_keyword_table_Read, add_keyword_table_Write, delete_keyword_table_from_ids,
       LockExpires, tableVars

LEMMA StepTyped ==
    ASSUME WorkersTyped, NEW w \in Workers, NEW from, from # "idle", NEW to \in WorkerPlaces, Step(w, from, to)
    PROVE  WorkersTyped'
BY DEF WorkersTyped, WorkerRecord, Step

LEMMA DoneTyped == ASSUME WorkersTyped, NEW w \in Workers, Done(w), MaxRetries \in Nat PROVE WorkersTyped'
BY DEF WorkersTyped, WorkerRecord, WorkerPlaces, Done, Free

LEMMA WorkerTyped ==
    ASSUME WorkersTyped, NEW w \in Workers, NEW now \in WorkerRecord, now.at # "idle" => now.document \in Documents,
           worker' = [worker EXCEPT ![w] = now]
    PROVE  WorkersTyped'
BY DEF WorkersTyped

LEMMA RetryTyped ==
    ASSUME WorkersTyped, QueueTyped, NEW w \in Workers, worker[w].at # "idle", Retry(w), MaxRetries \in Nat
    PROVE  WorkersTyped' /\ QueueTyped'
<1>1. Doc(w) \in Documents /\ worker[w].tries \in 0..MaxRetries
  BY DEF Doc, WorkersTyped, WorkerRecord
<1>2. worker[w].tries < MaxRetries => Msg("delete", Doc(w), worker[w].tries + 1) \in Message
  BY <1>1 DEF Msg, Message
<1>3. WorkersTyped'
  BY DoneTyped DEF Retry
<1> QED BY <1>2, <1>3 DEF Retry, QueueTyped

LEMMA GoesTyped ==
    ASSUME RequestsTyped, NEW r \in Requests, NEW from, NEW to, Goes(r, from, to), segmentLock' \subseteq Segments,
           \/ from \in DocumentPlaces /\ to \in DocumentPlaces
           \/ from \in SegmentPlaces \ {"newRow"} /\ to \in SegmentPlaces \ {"newRow"}
    PROVE  RequestsTyped'
BY DEF RequestsTyped, RequestRecord, Goes, DocumentPlaces, SegmentPlaces

LEMMA RepliesTyped ==
    ASSUME RequestsTyped, NEW r \in Requests, Replies(r), segmentLock' \subseteq Segments
    PROVE  RequestsTyped'
BY DEF RequestsTyped, RequestRecord, Replies, NoRequest, DocumentPlaces, SegmentPlaces

LEMMA BeginTyped ==
    ASSUME RequestsTyped, NEW r \in Requests, NEW operation, NEW d \in Documents, NEW s, NEW want \in BOOLEAN,
           NEW to, Begin(r, operation, to, d, s, want), segmentLock' \subseteq Segments,
           \/ to \in DocumentPlaces \union {"newRow"} /\ s = None
           \/ to \in SegmentPlaces /\ s \in Of(d)
    PROVE  RequestsTyped'
<1>1. s \in Segments \union {None}
  BY SegmentsOf
<1>2. to \notin SegmentPlaces \ {"newRow"} \/ s \in Of(d)
  BY DEF DocumentPlaces, SegmentPlaces
<1>3. to \in {"idle"} \union DocumentPlaces \union SegmentPlaces
  BY DEF SegmentPlaces
<1> QED BY <1>1, <1>2, <1>3 DEF RequestsTyped, RequestRecord, Begin

LEMMA SendTyped ==
    ASSUME QueueTyped, NEW m \in Message, Send(m) \/ SendRaises(m)
    PROVE  QueueTyped' /\ UNCHANGED worker
BY DEF QueueTyped, Send, SendRaises, workerVars

-----------------------------------------------------------------------------
(***************************************************************************)
(* Every operation keeps the types.                                        *)
(***************************************************************************)
\* Of the rest of the state, a step of one kind changes nothing.
WorkTyped == DocumentsTyped /\ SegmentsTyped /\ VectorsTyped /\ TableTyped /\ QueueTyped /\ WorkersTyped

LEMMA Unchanged ==
    /\ UNCHANGED documentVars /\ DocumentsTyped => DocumentsTyped'
    /\ UNCHANGED segment /\ SegmentsTyped => SegmentsTyped'
    /\ UNCHANGED vector /\ VectorsTyped => VectorsTyped'
    /\ UNCHANGED tableVars /\ TableTyped => TableTyped'
    /\ UNCHANGED queueVars /\ QueueTyped => QueueTyped'
    /\ UNCHANGED worker /\ WorkersTyped => WorkersTyped'
    /\ UNCHANGED workerVars /\ WorkersTyped /\ QueueTyped => WorkersTyped' /\ QueueTyped'
BY DEF documentVars, tableVars, queueVars, workerVars,
       DocumentsTyped, SegmentsTyped, VectorsTyped, TableTyped, QueueTyped, WorkersTyped

LEMMA UnchangedStores ==
    UNCHANGED storeVars /\ DocumentsTyped /\ SegmentsTyped /\ VectorsTyped /\ TableTyped =>
        DocumentsTyped' /\ SegmentsTyped' /\ VectorsTyped' /\ TableTyped'
BY Unchanged DEF storeVars

LEMMA BuildTyped ==
    ASSUME KnowledgeAssumption, Typed, NEW w \in Workers, Build(w)
    PROVE  WorkTyped'
<1> DEFINE d == Doc(w)
<1>1. /\ DocumentsTyped /\ SegmentsTyped /\ VectorsTyped /\ TableTyped /\ QueueTyped /\ WorkersTyped
      /\ w \in Processes /\ MaxRetries \in Nat
  BY DEF Typed, KnowledgeAssumption
<1>2. worker[w].at # "idle" => d \in Documents
  BY <1>1 DEF Doc, WorkersTyped
<1>3. d \in Documents => Rows(d) \subseteq Segments
  BY SegmentsOf, RowsOf
<1>4. \A st \in DocumentStatus : st \in DocumentStatus \union NoRow
  OBVIOUS
<1>a. CASE Claim(w)
  <2>1. d \in Documents /\ "parsing" \in DocumentStatus \union NoRow
    BY <1>a, <1>2 DEF Claim, DocumentStatus
  <2>2. DocumentsTyped'
    BY <1>1, <1>a, <2>1, SetStatusTyped, Unchanged DEF Claim
  <2>3. WorkersTyped'
    BY <1>1, <1>a, StepTyped, DoneTyped DEF Claim, WorkerPlaces
  <2> QED BY <1>1, <1>a, <2>2, <2>3, Unchanged DEF WorkTyped, Claim
<1>b. CASE Parse(w)
  <2>1. d \in Documents /\ "splitting" \in DocumentStatus \union NoRow
    BY <1>b, <1>2 DEF Parse, Step, DocumentStatus
  <2>2. WorkersTyped'
    BY <1>1, <1>b, StepTyped DEF Parse, WorkerPlaces
  <2> QED BY <1>1, <1>b, <2>1, <2>2, SetStatusTyped, Unchanged DEF WorkTyped, Parse
<1>c. CASE SplitOne(w)
  <2>1. Row("waiting", FALSE) \in SegmentRecord
    BY RowTyped DEF SegmentStatus
  <2>2. WorkersTyped'
    BY <1>1, <1>c, StepTyped DEF SplitOne, WorkerPlaces
  <2> QED BY <1>1, <1>c, <2>1, <2>2, SetSegmentsTyped, Unchanged DEF WorkTyped, SplitOne
<1>d. CASE SplitDone(w)
  <2>1. d \in Documents /\ "indexing" \in DocumentStatus \union NoRow
    BY <1>d, <1>2 DEF SplitDone, Step, DocumentStatus
  <2>2. WorkersTyped'
    BY <1>1, <1>d, StepTyped DEF SplitDone, WorkerPlaces
  <2> QED BY <1>1, <1>d, <2>1, <2>2, SetStatusTyped, Unchanged DEF WorkTyped, SplitDone
<1>e. CASE Index(w)
  <2>1. Row("indexing", FALSE) \in SegmentRecord
    BY RowTyped DEF SegmentStatus
  <2>2. WorkersTyped'
    BY <1>1, <1>e, StepTyped DEF Index, WorkerPlaces
  <2> QED BY <1>1, <1>e, <2>1, <2>2, SetSegmentsTyped, Unchanged DEF WorkTyped, Index
<1>f. CASE AddKeywords(w)
  <2>1. Rows(d) \in SUBSET Segments
    BY <1>f, <1>2, <1>3 DEF AddKeywords, Step
  <2>2. WorkersTyped'
    BY <1>1, <1>f, StepTyped DEF AddKeywords, WorkerPlaces
  <2>3. TableTyped'
    BY <1>1, <1>f, <2>1, TableKeepsType DEF AddKeywords
  <2> QED BY <1>1, <1>f, <2>2, <2>3, Unchanged DEF WorkTyped, AddKeywords
<1>g. CASE PutKeywords(w)
  <2>2. WorkersTyped'
    BY <1>1, <1>g, StepTyped DEF PutKeywords, WorkerPlaces
  <2>3. TableTyped'
    BY <1>1, <1>g, TableKeepsType DEF PutKeywords
  <2> QED BY <1>1, <1>g, <2>2, <2>3, Unchanged DEF WorkTyped, PutKeywords
<1>h. CASE Store(w)
  <2>1. Row("completed", TRUE) \in SegmentRecord /\ Vector(TRUE, TRUE) \in VectorRecord \union {None}
    BY RowTyped DEF SegmentStatus
  <2>2. WorkersTyped'
    BY <1>1, <1>h, StepTyped DEF Store, WorkerPlaces
  <2> QED BY <1>1, <1>h, <2>1, <2>2, SetSegmentsTyped, SetVectorsTyped, Unchanged DEF WorkTyped, Store
<1>i. CASE StoreFails(w)
  <2>1. Row("error", FALSE) \in SegmentRecord /\ Vector(TRUE, TRUE) \in VectorRecord \union {None}
    BY RowTyped DEF SegmentStatus
  <2>2. WorkersTyped'
    BY <1>1, <1>i, StepTyped DEF StoreFails, WorkerPlaces
  <2> QED BY <1>1, <1>i, <2>1, <2>2, SetSegmentsTyped, SetVectorsTyped, Unchanged DEF WorkTyped, StoreFails
<1>j. CASE StoreDone(w)
  <2>2. WorkersTyped'
    BY <1>1, <1>j, StepTyped DEF StoreDone, WorkerPlaces
  <2> QED BY <1>1, <1>j, <2>2, UnchangedStores, Unchanged DEF WorkTyped, StoreDone
<1>k. CASE Settle(w)
  <2>2. WorkersTyped'
    BY <1>1, <1>k, DoneTyped DEF Settle
  <2>3. DocumentsTyped'
    <3> DEFINE failed == \E s \in Rows(d) : segment[s].status = "error"
    <3>1. (~failed) \in BOOLEAN
      OBVIOUS
    <3>2. (IF failed THEN "error" ELSE "completed") \in DocumentStatus
      BY DEF DocumentStatus
    <3>3. /\ status' = [status EXCEPT ![d] = IF failed THEN "error" ELSE "completed"]
          /\ enabled' = [enabled EXCEPT ![d] = ~failed]
      BY <1>k DEF Settle
    <3> HIDE DEF failed
    <3> QED BY <1>1, <3>1, <3>2, <3>3 DEF DocumentsTyped
  <2> QED BY <1>1, <1>k, <2>2, <2>3, Unchanged DEF WorkTyped, Settle
<1>l. CASE BuildFails(w)
  <2>1. d \in Documents /\ "error" \in DocumentStatus \union NoRow
    BY <1>l, <1>2 DEF BuildFails, DocumentStatus
  <2>2. WorkersTyped'
    BY <1>1, <1>l, DoneTyped DEF BuildFails
  <2> QED BY <1>1, <1>l, <2>1, <2>2, SetStatusTyped, Unchanged DEF WorkTyped, BuildFails
<1> QED BY <1>a, <1>b, <1>c, <1>d, <1>e, <1>f, <1>g, <1>h, <1>i, <1>j, <1>k, <1>l DEF Build

LEMMA DeleteTyped ==
    ASSUME KnowledgeAssumption, Typed, NEW w \in Workers, Delete(w)
    PROVE  WorkTyped'
<1> DEFINE d == Doc(w)
<1>1. /\ DocumentsTyped /\ SegmentsTyped /\ VectorsTyped /\ TableTyped /\ QueueTyped /\ WorkersTyped
      /\ w \in Processes /\ MaxRetries \in Nat
  BY DEF Typed, KnowledgeAssumption
<1>2. worker[w].at # "idle" => d \in Documents
  BY <1>1 DEF Doc, WorkersTyped
<1>3. worker[w] \in WorkerRecord
  BY <1>1 DEF WorkersTyped
<1>a. CASE Look(w)
  <2>1. CASE Retry(w)
    BY <1>1, <1>a, <2>1, RetryTyped, UnchangedStores DEF WorkTyped, Look
  <2>2. CASE worker' = [worker EXCEPT ![w].at = "dropVectors", ![w].ids = Rows(d)] /\ UNCHANGED queueVars
    <3>1. Rows(d) \in SUBSET Segments /\ worker[w].at # "idle" /\ d \in Documents
      BY <1>a, <1>2, SegmentsOf, RowsOf DEF Look
    <3> DEFINE now == [worker[w] EXCEPT !.at = "dropVectors", !.ids = Rows(d)]
    <3>2. now \in WorkerRecord /\ now.document \in Documents
      BY <1>3, <3>1 DEF WorkerRecord, WorkerPlaces, Doc
    <3>3. worker' = [worker EXCEPT ![w] = now]
      BY <1>1, <2>2 DEF WorkersTyped
    <3>4. WorkersTyped'
      BY <1>1, <3>2, <3>3, WorkerTyped
    <3> QED BY <1>1, <1>a, <2>2, <3>4, UnchangedStores, Unchanged DEF WorkTyped, Look
  <2> QED BY <1>a, <2>1, <2>2 DEF Look
<1>b. CASE DropVectors(w)
  <2>2. WorkersTyped'
    BY <1>1, <1>b, StepTyped DEF DropVectors, WorkerPlaces
  <2> QED BY <1>1, <1>b, <2>2, SetVectorsTyped, Unchanged DEF WorkTyped, DropVectors
<1>c. CASE DropSegments(w)
  <2>1. Row("gone", FALSE) \in SegmentRecord
    BY RowTyped DEF NoRow
  <2>2. WorkersTyped'
    BY <1>1, <1>c, StepTyped DEF DropSegments, WorkerPlaces
  <2> QED BY <1>1, <1>c, <2>1, <2>2, SetSegmentsTyped, Unchanged DEF WorkTyped, DropSegments
<1>d. CASE DropKeywords(w)
  <2>1. worker[w].ids \in SUBSET Segments
    BY <1>3 DEF WorkerRecord
  <2>2. TableTyped'
    BY <1>1, <1>d, <2>1, TableKeepsType DEF DropKeywords
  <2> QED BY <1>1, <1>d, <2>2, DoneTyped, Unchanged DEF WorkTyped, DropKeywords
<1>e. CASE DropFails(w)
  BY <1>1, <1>e, RetryTyped, UnchangedStores DEF WorkTyped, DropFails
<1> QED BY <1>a, <1>b, <1>c, <1>d, <1>e DEF Delete

LEMMA ToggleTyped ==
    ASSUME KnowledgeAssumption, Typed, NEW w \in Workers, Toggle(w)
    PROVE  WorkTyped'
<1> DEFINE d == Doc(w)
<1>1. /\ DocumentsTyped /\ SegmentsTyped /\ VectorsTyped /\ TableTyped /\ QueueTyped /\ WorkersTyped
      /\ w \in Processes /\ MaxRetries \in Nat
  BY DEF Typed, KnowledgeAssumption
<1>2. worker[w].at # "idle" => d \in Documents
  BY <1>1 DEF Doc, WorkersTyped
<1>3. worker[w] \in WorkerRecord
  BY <1>1 DEF WorkersTyped
<1>4. d \in Documents => enabled[d] \in BOOLEAN
  BY <1>1 DEF DocumentsTyped
<1>5. d \in Documents => On(w) \in BOOLEAN
  BY <1>3, <1>4 DEF On, WorkerRecord
<1>a. CASE ReadSegments(w)
  <2>1. CASE Done(w)
    BY <1>1, <1>a, <2>1, DoneTyped, UnchangedStores, Unchanged DEF WorkTyped, ReadSegments
  <2>2. CASE Exists(d)
    <3> DEFINE live == {s \in Completed(d) : segment[s].enabled}
               now == [worker[w] EXCEPT !.at = "mark", !.on = enabled[d], !.ids = Completed(d),
                                        !.left = Completed(d), !.live = live]
    <3>1. d \in Documents /\ Completed(d) \in SUBSET Segments /\ live \in SUBSET Segments
      BY <1>2, <1>a, SegmentsOf, RowsOf DEF ReadSegments
    <3>2. worker' = [worker EXCEPT ![w] = now]
      BY <1>a, <2>2 DEF ReadSegments
    <3> HIDE DEF live
    <3>3. now \in WorkerRecord /\ now.document \in Documents
      BY <1>3, <1>4, <3>1 DEF WorkerRecord, WorkerPlaces, Doc
    <3>4. WorkersTyped'
      BY <1>1, <3>2, <3>3, WorkerTyped
    <3> QED BY <1>1, <1>a, <3>4, UnchangedStores, Unchanged DEF WorkTyped, ReadSegments
  <2> QED BY <1>a, <2>1, <2>2 DEF ReadSegments
<1>b. ASSUME NEW s \in Segments, Mark(w, s) PROVE WorkTyped'
  <2> DEFINE now == [worker[w] EXCEPT !.left = @ \ {s}, !.on = On(w)]
  <2>1. d \in Documents /\ now \in WorkerRecord /\ now.document \in Documents
    BY <1>2, <1>3, <1>5, <1>b DEF Mark, WorkerRecord, Doc
  <2>2. WorkersTyped'
    <3>1. worker' = [worker EXCEPT ![w] = now]
      BY <1>1, <1>b DEF Mark, WorkersTyped
    <3> QED BY <1>1, <2>1, <3>1, WorkerTyped
  <2>3. VectorsTyped'
    BY <1>1, <1>5, <1>b, <2>1 DEF Mark, VectorsTyped, VectorRecord
  <2> QED BY <1>1, <1>b, <2>2, <2>3, Unchanged DEF WorkTyped, Mark
<1>c. ASSUME NEW s \in Segments, MarkFails(w, s) PROVE WorkTyped'
  <2> DEFINE now == [worker[w] EXCEPT !.left = @ \ {s}, !.on = None]
  <2>1. now \in WorkerRecord /\ now.document \in Documents
    BY <1>2, <1>3, <1>c DEF MarkFails, WorkerRecord, Doc
  <2>2. WorkersTyped'
    <3>1. worker' = [worker EXCEPT ![w] = now]
      BY <1>1, <1>c DEF MarkFails, WorkersTyped
    <3> QED BY <1>1, <2>1, <3>1, WorkerTyped
  <2>3. Row("error", FALSE) \in SegmentRecord
    BY RowTyped DEF SegmentStatus
  <2> QED BY <1>1, <1>c, <2>2, <2>3, SetSegmentsTyped, Unchanged DEF WorkTyped, MarkFails
<1>d. CASE Sync(w)
  <2>1. worker[w].ids \in SUBSET Segments /\ worker[w].live \in SUBSET Segments
    BY <1>3 DEF WorkerRecord
  <2>2. TableTyped'
    BY <1>1, <1>d, <2>1, TableKeepsType DEF Sync
  <2>3. WorkersTyped'
    BY <1>1, <1>d, StepTyped DEF Sync, WorkerPlaces
  <2> QED BY <1>1, <1>d, <2>2, <2>3, Unchanged DEF WorkTyped, Sync
<1>e. CASE PutToggled(w)
  <2>1. TableTyped'
    BY <1>1, <1>e, TableKeepsType DEF PutToggled
  <2>2. WorkersTyped'
    BY <1>1, <1>e, StepTyped DEF PutToggled, WorkerPlaces
  <2> QED BY <1>1, <1>e, <2>1, <2>2, Unchanged DEF WorkTyped, PutToggled
<1>f. CASE SyncFails(w)
  <2>1. d \in Documents /\ (~On(w)) \in BOOLEAN
    BY <1>2, <1>f DEF SyncFails, Step
  <2>2. WorkersTyped'
    BY <1>1, <1>f, StepTyped DEF SyncFails, WorkerPlaces
  <2> QED BY <1>1, <1>f, <2>1, <2>2, SetEnabledTyped, Unchanged DEF WorkTyped, SyncFails
<1>g. CASE Unlock(w)
  <2>1. QueueTyped'
    BY <1>1, <1>g DEF Unlock, QueueTyped
  <2> QED BY <1>1, <1>g, <2>1, DoneTyped, UnchangedStores DEF WorkTyped, Unlock
<1> QED BY <1>a, <1>b, <1>c, <1>d, <1>e, <1>f, <1>g DEF Toggle

LEMMA MessagesTyped ==
    KnowledgeAssumption => \A d \in Documents : \A task \in {"build", "toggle", "delete"} : Msg(task, d, 0) \in Message
BY DEF KnowledgeAssumption, Message, Msg

LEMMA RequestDocument ==
    ASSUME Typed, NEW r \in Requests, request[r].at # "idle"
    PROVE  ReqDoc(r) \in Documents
BY DEF Typed, RequestsTyped, ReqDoc

LEMMA DocumentRequestTyped ==
    ASSUME KnowledgeAssumption, Typed, NEW r \in Requests, DocumentRequest(r)
    PROVE  WorkTyped' /\ RequestsTyped'
<1> DEFINE d == ReqDoc(r)
<1>1. /\ DocumentsTyped /\ SegmentsTyped /\ VectorsTyped /\ TableTyped /\ QueueTyped /\ WorkersTyped
      /\ RequestsTyped /\ segmentLock' \subseteq Segments /\ UNCHANGED segmentLock
  BY DEF Typed, RequestsTyped, DocumentRequest
<1>2. request[r].at # "idle" => d \in Documents
  BY RequestDocument
<1>3. request[r].want \in BOOLEAN
  BY <1>1 DEF RequestsTyped, RequestRecord
<1>4. \A e \in Documents : \A task \in {"build", "toggle", "delete"} : Msg(task, e, 0) \in Message
  BY MessagesTyped
<1>a. ASSUME NEW e \in Documents, CreateDocument(r, e) PROVE WorkTyped' /\ RequestsTyped'
  <2>1. "waiting" \in DocumentStatus \union NoRow
    BY DEF DocumentStatus
  <2>2. RequestsTyped'
    BY <1>1, <1>a, BeginTyped DEF CreateDocument, DocumentPlaces
  <2> QED BY <1>1, <1>a, <2>1, <2>2, SetStatusTyped, Unchanged DEF WorkTyped, CreateDocument
<1>b. CASE Dispatch(r)
  <2>1. d \in Documents
    BY <1>2, <1>b DEF Dispatch, Ends
  <2>2. QueueTyped' /\ UNCHANGED worker
    BY <1>1, <1>4, <1>b, <2>1, SendTyped DEF Dispatch
  <2> QED BY <1>1, <1>b, <2>2, RepliesTyped, UnchangedStores, Unchanged DEF WorkTyped, Dispatch, Ends
<1>c. CASE DispatchRaises(r)
  <2>1. d \in Documents
    BY <1>2, <1>c DEF DispatchRaises, Goes
  <2>2. QueueTyped' /\ UNCHANGED worker
    BY <1>1, <1>4, <1>c, <2>1, SendTyped DEF DispatchRaises
  <2>3. RequestsTyped'
    BY <1>1, <1>c, GoesTyped DEF DispatchRaises, DocumentPlaces
  <2> QED BY <1>1, <1>c, <2>2, <2>3, UnchangedStores, Unchanged DEF WorkTyped, DispatchRaises
<1>d. CASE MarkUndispatched(r)
  <2>1. d \in Documents /\ "error" \in DocumentStatus \union NoRow
    BY <1>2, <1>d DEF MarkUndispatched, Ends, DocumentStatus
  <2>2. DocumentsTyped'
    BY <1>1, <1>d, <2>1, SetStatusTyped, Unchanged DEF MarkUndispatched
  <2> QED BY <1>1, <1>d, <2>2, RepliesTyped, Unchanged DEF WorkTyped, MarkUndispatched, Ends
<1>e. ASSUME NEW e \in Documents, AskDelete(r, e) PROVE WorkTyped' /\ RequestsTyped'
  <2>2. RequestsTyped'
    BY <1>1, <1>e, BeginTyped DEF AskDelete, DocumentPlaces
  <2> QED BY <1>1, <1>e, <2>2, UnchangedStores, Unchanged DEF WorkTyped, AskDelete
<1>f. CASE SendDelete(r)
  <2>1. d \in Documents
    BY <1>2, <1>f DEF SendDelete, Goes
  <2>2. QueueTyped' /\ UNCHANGED worker
    BY <1>1, <1>4, <1>f, <2>1, SendTyped DEF SendDelete
  <2>3. RequestsTyped'
    BY <1>1, <1>f, GoesTyped DEF SendDelete, DocumentPlaces
  <2> QED BY <1>1, <1>f, <2>2, <2>3, UnchangedStores, Unchanged DEF WorkTyped, SendDelete
<1>g. CASE SendDeleteRaises(r)
  <2>1. d \in Documents
    BY <1>2, <1>g DEF SendDeleteRaises, Ends
  <2>2. QueueTyped' /\ UNCHANGED worker
    BY <1>1, <1>4, <1>g, <2>1, SendTyped DEF SendDeleteRaises
  <2> QED BY <1>1, <1>g, <2>2, RepliesTyped, UnchangedStores, Unchanged DEF WorkTyped, SendDeleteRaises, Ends
<1>h. CASE DeleteRow(r)
  <2>1. DocumentsTyped'
    BY <1>1, <1>h DEF DeleteRow, DocumentsTyped, NoRow
  <2> QED BY <1>1, <1>h, <2>1, RepliesTyped, Unchanged DEF WorkTyped, DeleteRow, Ends
<1>i. ASSUME NEW e \in Documents, AskToggle(r, e) PROVE WorkTyped' /\ RequestsTyped'
  <2>1. (~enabled[e]) \in BOOLEAN
    OBVIOUS
  <2>2. RequestsTyped'
    BY <1>1, <1>i, <2>1, BeginTyped DEF AskToggle, DocumentPlaces
  <2> QED BY <1>1, <1>i, <2>2, UnchangedStores, Unchanged DEF WorkTyped, AskToggle
<1>j. CASE LookLock(r)
  <2>2. RequestsTyped'
    BY <1>1, <1>j, GoesTyped, RepliesTyped DEF LookLock, Ends, DocumentPlaces
  <2> QED BY <1>1, <1>j, <2>2, UnchangedStores, Unchanged DEF WorkTyped, LookLock
<1>k. CASE TakeLock(r)
  <2>1. d \in Documents
    BY <1>2, <1>k DEF TakeLock, Goes
  <2>2. QueueTyped'
    BY <1>1, <1>k, <2>1 DEF QueueTyped, TakeLock
  <2>3. RequestsTyped'
    BY <1>1, <1>k, GoesTyped DEF TakeLock, DocumentPlaces
  <2> QED BY <1>1, <1>k, <2>2, <2>3, UnchangedStores, Unchanged DEF WorkTyped, TakeLock
<1>l. CASE Commit(r)
  <2>1. d \in Documents
    BY <1>2, <1>l DEF Commit
  <2>2. DocumentsTyped' /\ QueueTyped'
    BY <1>1, <1>3, <1>l, <2>1, SetEnabledTyped, Unchanged DEF Commit, QueueTyped
  <2>3. RequestsTyped'
    BY <1>1, <1>l, GoesTyped, RepliesTyped DEF Commit, Ends, DocumentPlaces
  <2> QED BY <1>1, <1>l, <2>2, <2>3, Unchanged DEF WorkTyped, Commit
<1>m. CASE SendToggle(r)
  <2>1. d \in Documents
    BY <1>2, <1>m DEF SendToggle, Ends
  <2>2. QueueTyped' /\ UNCHANGED worker
    BY <1>1, <1>4, <1>m, <2>1, SendTyped DEF SendToggle
  <2> QED BY <1>1, <1>m, <2>2, RepliesTyped, UnchangedStores, Unchanged DEF WorkTyped, SendToggle, Ends
<1>n. CASE SendToggleRaises(r)
  <2>1. d \in Documents
    BY <1>2, <1>n DEF SendToggleRaises, Goes
  <2>2. QueueTyped' /\ UNCHANGED worker
    BY <1>1, <1>4, <1>n, <2>1, SendTyped DEF SendToggleRaises
  <2>3. RequestsTyped'
    BY <1>1, <1>n, GoesTyped DEF SendToggleRaises, DocumentPlaces
  <2> QED BY <1>1, <1>n, <2>2, <2>3, UnchangedStores, Unchanged DEF WorkTyped, SendToggleRaises
<1>o. CASE UndoToggle(r)
  <2>1. d \in Documents /\ (~request[r].want) \in BOOLEAN
    BY <1>2, <1>o DEF UndoToggle, Ends
  <2>2. DocumentsTyped' /\ QueueTyped'
    BY <1>1, <1>o, <2>1, SetEnabledTyped DEF UndoToggle, QueueTyped
  <2> QED BY <1>1, <1>o, <2>2, RepliesTyped, Unchanged DEF WorkTyped, UndoToggle, Ends
<1> QED BY <1>a, <1>b, <1>c, <1>d, <1>e, <1>f, <1>g, <1>h, <1>i, <1>j, <1>k, <1>l, <1>m, <1>n, <1>o
        DEF DocumentRequest, Create, Remove, SwitchDocument

\* A request on a segment leaves documents, workers and the queue alone.
LEMMA SegmentRequestElsewhere ==
    ASSUME NEW r \in Requests, SegmentRequest(r)
    PROVE  UNCHANGED <<elsewhere, crashed>>
BY DEF SegmentRequest, AddSegment, AskNew, NewRow, NewRead, NewVector, NewCount, NewKeywords, PutNew, NewFails,
       CutSegment, AskCut, CutRow, CutKeywords, CutFails, CutVector,
       SwitchSegment, AskFlip, LookHeld, Hold, Flip, FlipRead, FlipAdd, PutFlipped, FlipDelete, FlipVector, FlipFails,
       RewriteSegment, AskRewrite, Rewrite, DropOld, AddNew, PutRewritten, RewriteVector, RewriteFails,
       elsewhere, storeVars

LEMMA SegmentOfRequest ==
    ASSUME Typed, NEW r \in Requests, request[r].at \in SegmentPlaces \ {"newRow"}
    PROVE  Seg(r) \in Of(ReqDoc(r)) /\ Seg(r) \in Segments /\ ReqDoc(r) \in Documents
BY SegmentsOf DEF Typed, RequestsTyped, Seg, ReqDoc, SegmentPlaces

LEMMA RequestTyped ==
    ASSUME RequestsTyped, NEW r \in Requests, NEW now \in RequestRecord, segmentLock' \subseteq Segments,
           now.document \in Documents, now.segment \in Of(now.document),
           request' = [request EXCEPT ![r] = now]
    PROVE  RequestsTyped'
BY DEF RequestsTyped

LEMMA SegmentRequestTyped ==
    ASSUME KnowledgeAssumption, Typed, NEW r \in Requests, SegmentRequest(r)
    PROVE  WorkTyped' /\ RequestsTyped'
<1>1. /\ DocumentsTyped /\ SegmentsTyped /\ VectorsTyped /\ TableTyped /\ QueueTyped /\ WorkersTyped
      /\ RequestsTyped /\ segmentLock \subseteq Segments /\ r \in Processes
  BY DEF Typed, RequestsTyped, KnowledgeAssumption
<1>2. DocumentsTyped' /\ QueueTyped' /\ WorkersTyped'
  BY <1>1, SegmentRequestElsewhere, Unchanged DEF elsewhere
<1>3. request[r].at \in SegmentPlaces \ {"newRow"} => /\ {Seg(r)} \in SUBSET Segments /\ Seg(r) \in Segments
                                                      /\ (segmentLock \union {Seg(r)}) \subseteq Segments
  BY <1>1, SegmentOfRequest
<1>4. request[r].want \in BOOLEAN /\ request[r].on \in BOOLEAN
  BY <1>1 DEF RequestsTyped, RequestRecord
<1>5. /\ Row("error", FALSE) \in SegmentRecord /\ Row("completed", TRUE) \in SegmentRecord
      /\ Row("gone", FALSE) \in SegmentRecord
      /\ Vector(request[r].on, TRUE) \in VectorRecord \union {None} /\ None \in VectorRecord \union {None}
  BY <1>4, RowTyped DEF SegmentStatus, NoRow
<1>6. Discard(r) => SegmentsTyped'
  BY <1>1, <1>5, SetSegmentsTyped DEF Discard
<1>7. Release(r) \/ UNCHANGED segmentLock => segmentLock' \subseteq Segments
  BY <1>1 DEF Release
<1>8. \A s \in Segments : s[1] \in Documents /\ s \in Of(s[1])
  BY DEF Segments, Of
<1>a. CASE AddSegment(r)
  <2>0. segmentLock' \subseteq Segments
    BY <1>1, <1>a DEF AddSegment, AskNew, NewRow, NewRead, NewVector, NewCount, NewKeywords, PutNew, NewFails
  <2>a. ASSUME NEW d \in Documents, AskNew(r, d) PROVE WorkTyped' /\ RequestsTyped'
    <3>1. RequestsTyped'
      BY <1>1, <2>0, <2>a, BeginTyped DEF AskNew
    <3> QED BY <1>1, <1>2, <2>a, <3>1, UnchangedStores DEF WorkTyped, AskNew
  <2>b. CASE NewRow(r)
    <3>1. PICK s \in Fresh(ReqDoc(r)) :
              /\ request' = [request EXCEPT ![r].at = "newRead", ![r].segment = s]
              /\ SetSegments({s}, Row("completed", TRUE))
      BY <2>b DEF NewRow
    <3>2. ReqDoc(r) \in Documents
      BY <2>b, RequestDocument DEF NewRow
    <3>3. s \in Of(ReqDoc(r)) /\ s \in Segments
      BY <3>2, RowsOf, SegmentsOf
    <3> DEFINE now == [request[r] EXCEPT !.at = "newRead", !.segment = s]
    <3>4. RequestsTyped'
      <4>1. now \in RequestRecord /\ now.document = ReqDoc(r) /\ now.segment = s
        <5>1. request[r] \in RequestRecord /\ "newRead" \in SegmentPlaces
          BY <1>1 DEF RequestsTyped, SegmentPlaces
        <5> QED BY <3>3, <5>1 DEF RequestRecord, ReqDoc
      <4>2. request' = [request EXCEPT ![r] = now]
        BY <1>1, <3>1 DEF RequestsTyped
      <4> QED BY <1>1, <2>0, <3>2, <3>3, <4>1, <4>2, RequestTyped
    <3>5. SegmentsTyped'
      BY <1>1, <1>5, <3>1, SetSegmentsTyped
    <3> QED BY <1>1, <1>2, <2>b, <3>4, <3>5, Unchanged DEF WorkTyped, NewRow
  <2>c. CASE NewRead(r)
    <3>0. ReqDoc(r) \in Documents /\ enabled[ReqDoc(r)] \in BOOLEAN
      BY <1>1, <2>c, RequestDocument DEF NewRead, DocumentsTyped
    <3> DEFINE now == [request[r] EXCEPT !.at = "newVector", !.on = enabled[ReqDoc(r)]]
    <3>1. RequestsTyped'
      <4>1. now \in RequestRecord /\ now.document = ReqDoc(r) /\ now.segment = Seg(r)
        <5>1. request[r] \in RequestRecord /\ "newVector" \in SegmentPlaces
          BY <1>1 DEF RequestsTyped, SegmentPlaces
        <5> QED BY <3>0, <5>1 DEF RequestRecord, ReqDoc, Seg
      <4>2. request' = [request EXCEPT ![r] = now]
        BY <1>1, <2>c DEF NewRead, RequestsTyped
      <4>3. Seg(r) \in Of(ReqDoc(r))
        BY <2>c, SegmentOfRequest DEF NewRead, SegmentPlaces
      <4> QED BY <1>1, <2>0, <3>0, <4>1, <4>2, <4>3, RequestTyped
    <3> QED BY <1>1, <1>2, <2>c, <3>1, UnchangedStores DEF WorkTyped, NewRead
  <2>d. CASE NewVector(r)
    <3>1. RequestsTyped'
      BY <1>1, <2>0, <2>d, GoesTyped DEF NewVector, SegmentPlaces
    <3>2. VectorsTyped'
      BY <1>1, <1>5, <2>d, SetVectorsTyped DEF NewVector
    <3> QED BY <1>1, <1>2, <2>d, <3>1, <3>2, Unchanged DEF WorkTyped, NewVector
  <2>e. CASE NewCount(r)
    <3>1. RequestsTyped'
      BY <1>1, <2>0, <2>e, GoesTyped DEF NewCount, SegmentPlaces
    <3> QED BY <1>1, <1>2, <2>e, <3>1, UnchangedStores DEF WorkTyped, NewCount
  <2>f. CASE NewKeywords(r)
    <3>1. RequestsTyped'
      BY <1>1, <2>0, <2>f, GoesTyped DEF NewKeywords, SegmentPlaces
    <3>2. {Seg(r)} \in SUBSET Segments
      BY <1>3, <2>f DEF NewKeywords, Goes, SegmentPlaces
    <3>3. TableTyped'
      BY <1>1, <2>f, <3>2, TableKeepsType DEF NewKeywords
    <3> QED BY <1>1, <1>2, <2>f, <3>1, <3>3, Unchanged DEF WorkTyped, NewKeywords
  <2>g. CASE PutNew(r)
    <3>1. RequestsTyped'
      BY <1>1, <2>0, <2>g, RepliesTyped DEF PutNew, Ends
    <3>3. TableTyped'
      BY <1>1, <2>g, TableKeepsType DEF PutNew
    <3> QED BY <1>1, <1>2, <2>g, <3>1, <3>3, Unchanged DEF WorkTyped, PutNew
  <2>h. CASE NewFails(r)
    <3>1. RequestsTyped'
      BY <1>1, <2>0, <2>h, RepliesTyped DEF NewFails
    <3> QED BY <1>1, <1>2, <1>6, <2>h, <3>1, Unchanged DEF WorkTyped, NewFails
  <2> QED BY <1>a, <2>a, <2>b, <2>c, <2>d, <2>e, <2>f, <2>g, <2>h DEF AddSegment
<1>b. CASE CutSegment(r)
  <2>0. segmentLock' \subseteq Segments
    BY <1>1, <1>b DEF CutSegment, AskCut, CutRow, CutKeywords, CutFails, CutVector
  <2>a. ASSUME NEW s \in Segments, AskCut(r, s) PROVE WorkTyped' /\ RequestsTyped'
    <3>1. RequestsTyped'
      BY <1>1, <1>8, <2>0, <2>a, BeginTyped DEF AskCut, SegmentPlaces
    <3> QED BY <1>1, <1>2, <2>a, <3>1, UnchangedStores DEF WorkTyped, AskCut
  <2>b. CASE CutRow(r)
    <3>1. RequestsTyped'
      BY <1>1, <2>0, <2>b, GoesTyped DEF CutRow, SegmentPlaces
    <3> QED BY <1>1, <1>2, <1>5, <2>b, <3>1, SetSegmentsTyped, Unchanged DEF WorkTyped, CutRow
  <2>c. CASE CutKeywords(r)
    <3>1. RequestsTyped'
      BY <1>1, <2>0, <2>c, GoesTyped DEF CutKeywords, SegmentPlaces
    <3>2. {Seg(r)} \in SUBSET Segments
      BY <1>3, <2>c DEF CutKeywords, Goes, SegmentPlaces
    <3>3. TableTyped'
      BY <1>1, <2>c, <3>2, TableKeepsType DEF CutKeywords
    <3> QED BY <1>1, <1>2, <2>c, <3>1, <3>3, Unchanged DEF WorkTyped, CutKeywords
  <2>d. CASE CutFails(r)
    <3>1. RequestsTyped'
      BY <1>1, <2>0, <2>d, RepliesTyped DEF CutFails, Ends
    <3> QED BY <1>1, <1>2, <2>d, <3>1, UnchangedStores DEF WorkTyped, CutFails
  <2>e. CASE CutVector(r)
    <3>1. RequestsTyped'
      BY <1>1, <2>0, <2>e, RepliesTyped DEF CutVector, Ends
    <3>2. VectorsTyped'
      BY <1>1, <1>5, <2>e, SetVectorsTyped, Unchanged DEF CutVector
    <3> QED BY <1>1, <1>2, <2>e, <3>1, <3>2, Unchanged DEF WorkTyped, CutVector
  <2> QED BY <1>b, <2>a, <2>b, <2>c, <2>d, <2>e DEF CutSegment
<1>c. CASE SwitchSegment(r)
  <2>a. ASSUME NEW s \in Segments, AskFlip(r, s) PROVE WorkTyped' /\ RequestsTyped'
    <3>0. (~segment[s].enabled) \in BOOLEAN /\ segmentLock' \subseteq Segments
      BY <1>1, <2>a DEF AskFlip
    <3>1. RequestsTyped'
      BY <1>1, <1>8, <2>a, <3>0, BeginTyped DEF AskFlip, SegmentPlaces
    <3> QED BY <1>1, <1>2, <2>a, <3>1, UnchangedStores DEF WorkTyped, AskFlip
  <2>b. CASE LookHeld(r)
    <3>0. segmentLock' \subseteq Segments
      BY <1>1, <2>b DEF LookHeld
    <3>1. RequestsTyped'
      BY <1>1, <2>b, <3>0, GoesTyped, RepliesTyped DEF LookHeld, Ends, SegmentPlaces
    <3> QED BY <1>1, <1>2, <2>b, <3>1, UnchangedStores DEF WorkTyped, LookHeld
  <2>c. CASE Hold(r)
    <3>0. segmentLock' \subseteq Segments
      BY <1>1, <1>3, <2>c DEF Hold, Goes, SegmentPlaces
    <3>1. RequestsTyped'
      BY <1>1, <2>c, <3>0, GoesTyped DEF Hold, SegmentPlaces
    <3> QED BY <1>1, <1>2, <2>c, <3>1, UnchangedStores DEF WorkTyped, Hold
  <2>d. CASE Flip(r)
    <3>0. segmentLock' \subseteq Segments
      BY <1>1, <2>d DEF Flip
    <3>1. RequestsTyped'
      BY <1>1, <2>d, <3>0, GoesTyped DEF Flip, SegmentPlaces
    <3>2. SegmentsTyped'
      BY <1>1, <1>4, <2>d DEF Flip, SegmentsTyped, SegmentRecord
    <3> QED BY <1>1, <1>2, <2>d, <3>1, <3>2, Unchanged DEF WorkTyped, Flip
  <2>e. CASE FlipRead(r)
    <3>0. segmentLock' \subseteq Segments
      BY <1>1, <2>e DEF FlipRead
    <3>1. RequestsTyped'
      BY <1>1, <2>e, <3>0, GoesTyped DEF FlipRead, SegmentPlaces
    <3> QED BY <1>1, <1>2, <2>e, <3>1, UnchangedStores DEF WorkTyped, FlipRead
  <2>f. CASE FlipAdd(r)
    <3>0. segmentLock' \subseteq Segments /\ {Seg(r)} \in SUBSET Segments
      BY <1>1, <1>3, <2>f DEF FlipAdd, Goes, SegmentPlaces
    <3>1. RequestsTyped'
      BY <1>1, <2>f, <3>0, GoesTyped DEF FlipAdd, SegmentPlaces
    <3>3. TableTyped'
      BY <1>1, <2>f, <3>0, TableKeepsType DEF FlipAdd
    <3> QED BY <1>1, <1>2, <2>f, <3>1, <3>3, Unchanged DEF WorkTyped, FlipAdd
  <2>g. CASE PutFlipped(r)
    <3>0. segmentLock' \subseteq Segments
      BY <1>1, <2>g DEF PutFlipped
    <3>1. RequestsTyped'
      BY <1>1, <2>g, <3>0, GoesTyped DEF PutFlipped, SegmentPlaces
    <3>3. TableTyped'
      BY <1>1, <2>g, TableKeepsType DEF PutFlipped
    <3> QED BY <1>1, <1>2, <2>g, <3>1, <3>3, Unchanged DEF WorkTyped, PutFlipped
  <2>h. CASE FlipDelete(r)
    <3>0. segmentLock' \subseteq Segments /\ {Seg(r)} \in SUBSET Segments
      BY <1>1, <1>3, <2>h DEF FlipDelete, Goes, SegmentPlaces
    <3>1. RequestsTyped'
      BY <1>1, <2>h, <3>0, GoesTyped DEF FlipDelete, SegmentPlaces
    <3>3. TableTyped'
      BY <1>1, <2>h, <3>0, TableKeepsType DEF FlipDelete
    <3> QED BY <1>1, <1>2, <2>h, <3>1, <3>3, Unchanged DEF WorkTyped, FlipDelete
  <2>i. CASE FlipVector(r)
    <3>1. RequestsTyped'
      BY <1>1, <1>7, <2>i, RepliesTyped DEF FlipVector, Ends
    <3>2. VectorsTyped'
      BY <1>1, <1>4, <2>i DEF FlipVector, VectorsTyped, VectorRecord
    <3> QED BY <1>1, <1>2, <2>i, <3>1, <3>2, Unchanged DEF WorkTyped, FlipVector
  <2>j. CASE FlipFails(r)
    <3>1. RequestsTyped'
      BY <1>1, <1>7, <2>j, RepliesTyped DEF FlipFails
    <3> QED BY <1>1, <1>2, <1>6, <2>j, <3>1, Unchanged DEF WorkTyped, FlipFails
  <2> QED BY <1>c, <2>a, <2>b, <2>c, <2>d, <2>e, <2>f, <2>g, <2>h, <2>i, <2>j DEF SwitchSegment
<1>d. CASE RewriteSegment(r)
  <2>0. segmentLock' \subseteq Segments
    BY <1>1, <1>d DEF RewriteSegment, AskRewrite, Rewrite, DropOld, AddNew, PutRewritten, RewriteVector, RewriteFails
  <2>a. ASSUME NEW s \in Segments, AskRewrite(r, s) PROVE WorkTyped' /\ RequestsTyped'
    <3>1. RequestsTyped'
      BY <1>1, <1>8, <2>0, <2>a, BeginTyped DEF AskRewrite, SegmentPlaces
    <3> QED BY <1>1, <1>2, <2>a, <3>1, UnchangedStores DEF WorkTyped, AskRewrite
  <2>b. CASE Rewrite(r)
    <3>1. RequestsTyped'
      BY <1>1, <2>0, <2>b, GoesTyped DEF Rewrite, SegmentPlaces
    <3> QED BY <1>1, <1>2, <2>b, <3>1, UnchangedStores DEF WorkTyped, Rewrite
  <2>c. CASE DropOld(r)
    <3>1. RequestsTyped'
      BY <1>1, <2>0, <2>c, GoesTyped DEF DropOld, SegmentPlaces
    <3>2. {Seg(r)} \in SUBSET Segments
      BY <1>3, <2>c DEF DropOld, Goes, SegmentPlaces
    <3>3. TableTyped'
      BY <1>1, <2>c, <3>2, TableKeepsType DEF DropOld
    <3> QED BY <1>1, <1>2, <2>c, <3>1, <3>3, Unchanged DEF WorkTyped, DropOld
  <2>d. CASE AddNew(r)
    <3>1. RequestsTyped'
      BY <1>1, <2>0, <2>d, GoesTyped DEF AddNew, SegmentPlaces
    <3>2. {Seg(r)} \in SUBSET Segments
      BY <1>3, <2>d DEF AddNew, Goes, SegmentPlaces
    <3>3. TableTyped'
      BY <1>1, <2>d, <3>2, TableKeepsType DEF AddNew
    <3> QED BY <1>1, <1>2, <2>d, <3>1, <3>3, Unchanged DEF WorkTyped, AddNew
  <2>e. CASE PutRewritten(r)
    <3>1. RequestsTyped'
      BY <1>1, <2>0, <2>e, GoesTyped DEF PutRewritten, SegmentPlaces
    <3>3. TableTyped'
      BY <1>1, <2>e, TableKeepsType DEF PutRewritten
    <3> QED BY <1>1, <1>2, <2>e, <3>1, <3>3, Unchanged DEF WorkTyped, PutRewritten
  <2>f. CASE RewriteVector(r)
    <3>1. RequestsTyped'
      BY <1>1, <2>0, <2>f, RepliesTyped DEF RewriteVector, Ends
    <3> QED BY <1>1, <1>2, <2>f, <3>1, UnchangedStores DEF WorkTyped, RewriteVector
  <2>g. CASE RewriteFails(r)
    <3>1. RequestsTyped'
      BY <1>1, <2>0, <2>g, RepliesTyped DEF RewriteFails
    <3> QED BY <1>1, <1>2, <2>g, <3>1, UnchangedStores DEF WorkTyped, RewriteFails
  <2> QED BY <1>d, <2>a, <2>b, <2>c, <2>d, <2>e, <2>f, <2>g DEF RewriteSegment
<1> QED BY <1>a, <1>b, <1>c, <1>d DEF SegmentRequest

LEMMA ReceiveTyped ==
    ASSUME KnowledgeAssumption, Typed, NEW w \in Workers, NEW m \in messages, Take(w, m)
    PROVE  WorkTyped'
<1>1. /\ DocumentsTyped /\ SegmentsTyped /\ VectorsTyped /\ TableTyped /\ QueueTyped /\ WorkersTyped
      /\ MaxRedeliveries \in Nat
  BY DEF Typed, KnowledgeAssumption
<1>2. m \in Message /\ worker[w] \in WorkerRecord
  BY <1>1 DEF QueueTyped, WorkersTyped
<1> DEFINE now == [worker[w] EXCEPT !.at = m.task, !.document = m.document, !.tries = m.tries]
<1>3. now \in WorkerRecord /\ now.document \in Documents
  BY <1>2 DEF Message, WorkerRecord, WorkerPlaces
<1>4. worker' = [worker EXCEPT ![w] = now]
  BY <1>1 DEF Take, WorkersTyped
<1>5. WorkersTyped'
  BY <1>1, <1>3, <1>4, WorkerTyped
<1>6. QueueTyped'
  BY <1>1 DEF Take, QueueTyped
<1> QED BY <1>1, <1>5, <1>6, UnchangedStores DEF Take, WorkTyped

LEMMA TypedInitially == KnowledgeAssumption /\ Init => Typed
<1> SUFFICES ASSUME KnowledgeAssumption, Init PROVE Typed
  OBVIOUS
<1>1. PICK n \in [Indexed -> 1..MaxSegments] :
        LET built == {s \in Segments : s[1] \in Indexed /\ s[2] <= n[s[1]]}
        IN /\ status = [d \in Documents |-> IF d \in Indexed THEN "completed" ELSE "unborn"]
           /\ enabled = [d \in Documents |-> d \in Indexed]
           /\ segment = [s \in Segments |-> IF s \in built THEN Row("completed", TRUE)
                                                            ELSE Row("unborn", FALSE)]
           /\ vector = [s \in Segments |-> IF s \in built THEN Vector(TRUE, TRUE) ELSE None]
           /\ table = built
           /\ tableLock = None
           /\ found = {}
  BY DEF Init, StoreInit
<1> DEFINE built == {s \in Segments : s[1] \in Indexed /\ s[2] <= n[s[1]]}
<1>2. built \subseteq Segments
  OBVIOUS
<1> HIDE DEF built
<1>3. DocumentsTyped
  BY <1>1 DEF DocumentsTyped, DocumentStatus, NoRow
<1>4. SegmentsTyped
  <2>1. Row("completed", TRUE) \in SegmentRecord /\ Row("unborn", FALSE) \in SegmentRecord
    BY RowTyped DEF SegmentStatus, NoRow
  <2>2. segment = [s \in Segments |-> IF s \in built THEN Row("completed", TRUE) ELSE Row("unborn", FALSE)]
    BY <1>1 DEF built
  <2> QED BY <2>1, <2>2 DEF SegmentsTyped
<1>5. VectorsTyped
  <2>1. Vector(TRUE, TRUE) \in VectorRecord
    BY RowTyped
  <2>2. vector = [s \in Segments |-> IF s \in built THEN Vector(TRUE, TRUE) ELSE None]
    BY <1>1 DEF built
  <2> QED BY <2>1, <2>2 DEF VectorsTyped
<1>6. TableTyped
  BY <1>1, <1>2 DEF TableTyped, built
<1>7. QueueTyped /\ WorkersTyped
  BY DEF Init, WorkersInit, QueueTyped, WorkersTyped, WorkerRecord, WorkerPlaces, Free, KnowledgeAssumption
<1>8. RequestsTyped
  BY DEF Init, RequestsInit, RequestsTyped, RequestRecord, NoRequest, SegmentPlaces
<1> QED BY <1>3, <1>4, <1>5, <1>6, <1>7, <1>8 DEF Typed, Init

LEMMA TypedStep == KnowledgeAssumption /\ Typed /\ [Next]_vars => Typed'
<1> SUFFICES ASSUME KnowledgeAssumption, Typed, [Next]_vars PROVE Typed'
  OBVIOUS
<1>1. /\ DocumentsTyped /\ SegmentsTyped /\ VectorsTyped /\ TableTyped /\ QueueTyped /\ WorkersTyped
      /\ RequestsTyped /\ crashed \in BOOLEAN /\ MaxRetries \in Nat
  BY DEF Typed, KnowledgeAssumption
<1>2. UNCHANGED requestVars => RequestsTyped'
  BY <1>1 DEF requestVars, RequestsTyped
<1>3. WorkTyped' /\ RequestsTyped' /\ crashed' \in BOOLEAN => Typed'
  BY DEF WorkTyped, Typed
<1>a. ASSUME NEW r \in Requests, DocumentRequest(r) PROVE Typed'
  BY <1>1, <1>3, <1>a, DocumentRequestTyped DEF DocumentRequest
<1>b. ASSUME NEW r \in Requests, SegmentRequest(r) PROVE Typed'
  BY <1>1, <1>3, <1>b, SegmentRequestTyped DEF SegmentRequest
<1>c. ASSUME NEW r \in Requests, RequestDies(r) PROVE Typed'
  <2>1. r \in Processes /\ segmentLock' \subseteq Segments /\ {} \in SUBSET Segments
    BY <1>1, <1>c DEF KnowledgeAssumption, RequestDies, RequestsTyped
  <2>2. TableTyped'
    BY <1>1, <1>c, <2>1, TableKeepsType DEF RequestDies
  <2>3. RequestsTyped'
    BY <1>1, <1>c, <2>1, RepliesTyped DEF RequestDies
  <2>4. QueueTyped'
    BY <1>1, <1>c DEF RequestDies, QueueTyped
  <2> QED BY <1>1, <1>3, <1>c, <2>2, <2>3, <2>4, Unchanged DEF RequestDies, WorkTyped
<1>d. ASSUME NEW w \in Workers, Receive(w) PROVE Typed'
  BY <1>1, <1>2, <1>3, <1>d, ReceiveTyped DEF Receive
<1>e. ASSUME NEW w \in Workers, WorkOn(w) PROVE Typed'
  BY <1>1, <1>2, <1>3, <1>e, BuildTyped, DeleteTyped, ToggleTyped DEF WorkOn, Work
<1>f. ASSUME NEW w \in Workers, Dies(w) PROVE Typed'
  <2>1. w \in Processes /\ {} \in SUBSET Segments
    BY DEF KnowledgeAssumption
  <2>2. TableTyped'
    BY <1>1, <1>f, <2>1, TableKeepsType DEF Dies, WorkerDies
  <2>3. WorkersTyped'
    BY <1>1, <1>f, DoneTyped DEF Dies, WorkerDies
  <2> QED BY <1>1, <1>2, <1>3, <1>f, <2>2, <2>3, Unchanged DEF Dies, WorkerDies, WorkTyped
<1>g. CASE UNCHANGED vars
  BY <1>1, <1>2, <1>3, <1>g, Unchanged, UnchangedStores DEF vars, WorkTyped
<1> QED BY <1>a, <1>b, <1>c, <1>d, <1>e, <1>f, <1>g DEF Next, Request

\* Whatever is asked for, fails, dies or is delivered twice, every variable of the
\* knowledge base keeps its type: no task is retried more often than it may be, and
\* nobody works on a document or a segment that has no name.
THEOREM KnowledgeTypeCorrect == Spec => []TypeOK
<1>1. Init => Typed
  BY TypedInitially, KnowledgeAssumption
<1>2. Typed /\ [Next]_vars => Typed'
  BY TypedStep, KnowledgeAssumption
<1> QED BY <1>1, <1>2, TypedIsTypeOK, PTL DEF Spec

-----------------------------------------------------------------------------
(***************************************************************************)
(* A document that is settled, or on its way out, is never built again: no *)
(* message of an old build, and no second delivery, reaches it.            *)
(***************************************************************************)
Final == {"completed", "error", "gone"}
Cleaning == {"dropVectors", "dropSegments", "dropKeywords"}

\* A builder is in the stage of its document, and is alone with it.
BuildsAgree ==
    /\ \A w \in Workers : worker[w].at \in Building => worker[w].at \in Stage[status[Doc(w)]]
    /\ \A v, w \in Workers :
          worker[v].at \in Building /\ worker[w].at \in Building /\ Doc(v) = Doc(w) => v = w

\* Whoever is about to delete has seen a document that nobody builds any more.
DeletesAgree ==
    /\ \A r \in Requests : request[r].at \in {"sendDelete", "deleteRow"} => status[ReqDoc(r)] \in Final
    /\ \A m \in messages : m.task = "delete" => status[m.document] \in Final
    /\ \A w \in Workers : /\ worker[w].at = "delete" => status[Doc(w)] \in Final
                          /\ worker[w].at \in Cleaning => status[Doc(w)] = "gone"

OwnInv == Typed /\ BuildsAgree /\ DeletesAgree

LEMMA StageOf ==
    /\ Stage["waiting"] = {} /\ Stage["unborn"] = {} /\ Stage["completed"] = {} /\ Stage["error"] = {} /\ Stage["gone"] = {}
    /\ Stage["parsing"] = {"parse"} /\ Stage["splitting"] = {"split"}
    /\ Stage["indexing"] = {"index", "addKeywords", "putKeywords", "store", "settle"}
BY DEF Stage

LEMMA StageInverse ==
    \A st \in DocumentStatus \union NoRow :
        /\ "parse" \in Stage[st] => st = "parsing"
        /\ "split" \in Stage[st] => st = "splitting"
        /\ \A p \in {"index", "addKeywords", "putKeywords", "store", "settle"} : p \in Stage[st] => st = "indexing"
BY StageOf DEF DocumentStatus, NoRow

\* A builder's document is in the stage of the place where the builder is.
LEMMA BuilderStatus ==
    ASSUME Typed, BuildsAgree, NEW w \in Workers, worker[w].at \in Building
    PROVE  /\ Doc(w) \in Documents
           /\ worker[w].at = "parse" => status[Doc(w)] = "parsing"
           /\ worker[w].at = "split" => status[Doc(w)] = "splitting"
           /\ worker[w].at \in {"index", "addKeywords", "putKeywords", "store", "settle"} => status[Doc(w)] = "indexing"
           /\ status[Doc(w)] \notin Final \union {"waiting", "unborn"}
<1>1. Doc(w) \in Documents /\ status[Doc(w)] \in DocumentStatus \union NoRow
  BY DEF Typed, WorkersTyped, DocumentsTyped, Building, Doc
<1>2. worker[w].at \in Stage[status[Doc(w)]]
  BY DEF BuildsAgree
<1> QED BY <1>1, <1>2, StageInverse, StageOf DEF Building, Final

\* What one worker and the documents may do: the worker's next place fits its
\* document, which no other worker builds, and the documents of the others stay.
LEMMA OneWorkerMoves ==
    ASSUME Typed, BuildsAgree, NEW w \in Workers, NEW now, worker' = [worker EXCEPT ![w] = now],
           now.at \in Building => /\ now.at \in Stage[status'[now.document]]
                                  /\ \A v \in Workers \ {w} : ~(worker[v].at \in Building /\ Doc(v) = now.document),
           \A v \in Workers \ {w} : worker[v].at \in Building => status'[Doc(v)] = status[Doc(v)]
    PROVE  BuildsAgree'
<1>1. \A v \in Workers : worker'[v] = IF v = w THEN now ELSE worker[v]
  BY DEF Typed, WorkersTyped
<1>2. \A v \in Workers : Doc(v)' = IF v = w THEN now.document ELSE Doc(v)
  BY <1>1 DEF Doc
<1> QED BY <1>1, <1>2 DEF BuildsAgree

\* A document that is completed, an error or deleted is never built again, and one
\* that is deleted stays so.
FinalStays ==
    \A d \in Documents : /\ status[d] \in Final => status'[d] \in Final
                         /\ status[d] = "gone" => status'[d] = "gone"

LEMMA FinalWorkers ==
    ASSUME Typed, DeletesAgree, FinalStays, NEW w \in Workers,
           \E now : /\ worker' = [worker EXCEPT ![w] = now]
                    /\ now.at = "delete" => status'[now.document] \in Final
                    /\ now.at \in Cleaning => status'[now.document] = "gone",
           \A m \in messages' \ messages : m.task = "delete" => status'[m.document] \in Final,
           UNCHANGED request
    PROVE  DeletesAgree'
<1>1. PICK now : /\ worker' = [worker EXCEPT ![w] = now]
                 /\ now.at = "delete" => status'[now.document] \in Final
                 /\ now.at \in Cleaning => status'[now.document] = "gone"
  OBVIOUS
<1>2. \A v \in Workers : worker'[v] = IF v = w THEN now ELSE worker[v]
  BY <1>1 DEF Typed, WorkersTyped
<1>3. \A v \in Workers : worker[v].at \in {"delete"} \union Cleaning => worker[v].document \in Documents
  BY DEF Typed, WorkersTyped, Cleaning
<1>4. ASSUME NEW v \in Workers PROVE /\ worker'[v].at = "delete" => status'[Doc(v)'] \in Final
                                     /\ worker'[v].at \in Cleaning => status'[Doc(v)'] = "gone"
  BY <1>1, <1>2, <1>3 DEF DeletesAgree, FinalStays, Doc
<1>5. ASSUME NEW m \in messages', m.task = "delete" PROVE status'[m.document] \in Final
  <2>1. CASE m \in messages
    <3>1. m.document \in Documents /\ status[m.document] \in Final
      BY <1>5, <2>1 DEF DeletesAgree, Typed, QueueTyped, Message
    <3> QED BY <3>1 DEF FinalStays
  <2> QED BY <1>5, <2>1
<1>6. ASSUME NEW r \in Requests, request[r].at \in {"sendDelete", "deleteRow"} PROVE status'[ReqDoc(r)] \in Final
  BY <1>6, RequestDocument DEF DeletesAgree, FinalStays
<1> QED BY <1>4, <1>5, <1>6 DEF DeletesAgree, ReqDoc

LEMMA FinalRequests ==
    ASSUME Typed, DeletesAgree, FinalStays, NEW r \in Requests,
           \A q \in Requests \ {r} : request'[q] = request[q],
           request'[r].at \in {"sendDelete", "deleteRow"} => status'[request'[r].document] \in Final,
           \A m \in messages' \ messages : m.task = "delete" => status'[m.document] \in Final,
           UNCHANGED worker
    PROVE  DeletesAgree'
<1>3. \A v \in Workers : worker[v].at \in {"delete"} \union Cleaning => worker[v].document \in Documents
  BY DEF Typed, WorkersTyped, Cleaning
<1>4. ASSUME NEW v \in Workers PROVE /\ worker'[v].at = "delete" => status'[Doc(v)'] \in Final
                                     /\ worker'[v].at \in Cleaning => status'[Doc(v)'] = "gone"
  BY <1>3 DEF DeletesAgree, FinalStays, Doc
<1>5. ASSUME NEW m \in messages', m.task = "delete" PROVE status'[m.document] \in Final
  <2>1. CASE m \in messages
    <3>1. m.document \in Documents /\ status[m.document] \in Final
      BY <1>5, <2>1 DEF DeletesAgree, Typed, QueueTyped, Message
    <3> QED BY <3>1 DEF FinalStays
  <2> QED BY <1>5, <2>1
<1>6. ASSUME NEW q \in Requests, request'[q].at \in {"sendDelete", "deleteRow"} PROVE status'[request'[q].document] \in Final
  <2>1. CASE q = r
    BY <1>6, <2>1
  <2>2. CASE q # r
    BY <1>6, <2>2, RequestDocument DEF DeletesAgree, FinalStays, ReqDoc
  <2> QED BY <2>1, <2>2
<1> QED BY <1>4, <1>5, <1>6 DEF DeletesAgree, ReqDoc

LEMMA OwnInitially == KnowledgeAssumption /\ Init => OwnInv
<1> SUFFICES ASSUME KnowledgeAssumption, Init PROVE OwnInv
  OBVIOUS
<1>1. Typed
  BY TypedInitially
<1>2. messages = {} /\ (\A w \in Workers : worker[w].at = "idle") /\ \A r \in Requests : request[r].at = "idle"
  BY DEF Init, WorkersInit, RequestsInit, Free, NoRequest
<1> QED BY <1>1, <1>2 DEF OwnInv, BuildsAgree, DeletesAgree, Building, Cleaning

\* Nothing happens to what the invariant speaks of.
LEMMA OwnStays ==
    OwnInv /\ Typed' /\ UNCHANGED <<status, worker, messages, request>> => OwnInv'
BY DEF OwnInv, BuildsAgree, DeletesAgree, Doc, ReqDoc

\* A builder that is alone with its document goes on with it, or leaves it.
LEMMA BuilderGoes ==
    ASSUME OwnInv, Typed', UNCHANGED <<messages, request>>, NEW w \in Workers, Doc(w) \in Documents,
           status[Doc(w)] \notin Final,
           \A v \in Workers \ {w} : ~(worker[v].at \in Building /\ Doc(v) = Doc(w)),
           NEW st, status' = [status EXCEPT ![Doc(w)] = st],
           NEW now, worker' = [worker EXCEPT ![w] = now], now.at \notin {"delete"} \union Cleaning,
           now.at \in Building => now.document = Doc(w) /\ now.at \in Stage[st]
    PROVE  OwnInv'
<1>1. Typed /\ BuildsAgree /\ DeletesAgree
  BY DEF OwnInv
<1>2. /\ status \in [Documents -> DocumentStatus \union NoRow]
      /\ \A v \in Workers : worker[v].at \in Building => Doc(v) \in Documents
  BY <1>1 DEF Typed, WorkersTyped, DocumentsTyped, Doc, Building
<1>3. status'[Doc(w)] = st /\ \A e \in Documents \ {Doc(w)} : status'[e] = status[e]
  BY <1>2
<1>4. BuildsAgree'
  BY <1>1, <1>2, <1>3, OneWorkerMoves
<1>5. FinalStays
  BY <1>3 DEF FinalStays, Final
<1>6. DeletesAgree'
  BY <1>1, <1>5, FinalWorkers
<1> QED BY <1>4, <1>6 DEF OwnInv

LEMMA WorkerStops ==
    ASSUME OwnInv, Typed', UNCHANGED <<status, request>>, NEW w \in Workers, Done(w),
           \A m \in messages' \ messages : m.task = "delete" => status[m.document] \in Final
    PROVE  OwnInv'
<1>1. Typed /\ BuildsAgree /\ DeletesAgree
  BY DEF OwnInv
<1>2. Free.at \notin Building \union Cleaning \union {"delete"}
  BY DEF Free, Building, Cleaning
<1>3. FinalStays
  BY DEF FinalStays
<1>4. BuildsAgree'
  BY <1>1, <1>2, OneWorkerMoves DEF Done
<1>5. DeletesAgree'
  BY <1>1, <1>2, <1>3, FinalWorkers DEF Done
<1> QED BY <1>4, <1>5 DEF OwnInv

LEMMA OwnBuild ==
    ASSUME OwnInv, Typed', NEW w \in Workers, Build(w), UNCHANGED requestVars
    PROVE  OwnInv'
<1> DEFINE d == Doc(w)
<1>1. Typed /\ BuildsAgree /\ DeletesAgree
  BY DEF OwnInv
<1>2. /\ worker \in [Workers -> WorkerRecord] /\ status \in [Documents -> DocumentStatus \union NoRow]
      /\ worker[w].at # "idle" => d \in Documents
  BY <1>1 DEF Typed, WorkersTyped, DocumentsTyped, Doc
<1>3. UNCHANGED <<messages, request>>
  BY DEF Build, Claim, Parse, SplitOne, SplitDone, Index, AddKeywords, PutKeywords, Store, StoreFails,
         StoreDone, Settle, BuildFails, queueVars, requestVars
<1>4. worker[w].at \in Building =>
          /\ status[d] \notin Final /\ d \in Documents
          /\ \A v \in Workers \ {w} : ~(worker[v].at \in Building /\ Doc(v) = d)
  BY <1>1, BuilderStatus DEF BuildsAgree
<1>5. ASSUME NEW to \in Building, NEW from \in Building, Step(w, from, to), NEW st,
             status' = [status EXCEPT ![d] = st], to \in Stage[st]
      PROVE  OwnInv'
  <2> DEFINE now == [worker[w] EXCEPT !.at = to]
  <2>1. now.at = to /\ now.document = d /\ to \notin {"delete"} \union Cleaning /\ worker[w].at \in Building
    BY <1>2, <1>5 DEF WorkerRecord, Doc, Building, Cleaning, Step
  <2>2. worker' = [worker EXCEPT ![w] = now]
    BY <1>2, <1>5 DEF Step
  <2> HIDE DEF now
  <2> QED BY <1>3, <1>4, <1>5, <2>1, <2>2, BuilderGoes
<1>6. ASSUME worker[w].at \in Building, Done(w), NEW st, status' = [status EXCEPT ![d] = st]
      PROVE  OwnInv'
  <2>1. Free.at \notin Building \union {"delete"} \union Cleaning
    BY DEF Free, Building, Cleaning
  <2> QED BY <1>3, <1>4, <1>6, <2>1, BuilderGoes DEF Done
<1>7. ASSUME NEW to \in Building, NEW from \in Building, Step(w, from, to), UNCHANGED status,
             from = "split" => to = "split",
             from # "split" => {from, to} \subseteq {"index", "addKeywords", "putKeywords", "store", "settle"}
      PROVE  OwnInv'
  <2>1. status' = [status EXCEPT ![d] = status[d]]
    BY <1>2, <1>7
  <2>2. to \in Stage[status[d]]
    BY <1>1, <1>7, BuilderStatus, StageOf DEF Step
  <2> QED BY <1>5, <1>7, <2>1, <2>2
<1>a. CASE Claim(w)
  <2>1. CASE status[d] = "waiting"
    <3> DEFINE now == [worker[w] EXCEPT !.at = "parse"]
    <3>1. now.at = "parse" /\ now.document = d /\ "parse" \notin {"delete"} \union Cleaning /\ d \in Documents
      BY <1>2, <1>a DEF Claim, WorkerRecord, Doc, Cleaning
    <3>2. worker' = [worker EXCEPT ![w] = now] /\ status' = [status EXCEPT ![d] = "parsing"]
      BY <1>2, <1>a, <2>1 DEF Claim, Step, SetStatus
    <3>3. \A v \in Workers \ {w} : ~(worker[v].at \in Building /\ Doc(v) = d)
      BY <1>1, <2>1, BuilderStatus
    <3>4. "parse" \in Stage["parsing"] /\ status[d] \notin Final
      BY <2>1, StageOf DEF Final
    <3> HIDE DEF now
    <3> QED BY <1>3, <3>1, <3>2, <3>3, <3>4, BuilderGoes
  <2>2. CASE status[d] # "waiting"
    BY <1>3, <1>a, <2>2, WorkerStops DEF Claim, documentVars
  <2> QED BY <2>1, <2>2
<1>b. CASE Parse(w)
  <2>1. {"parse", "split"} \subseteq Building /\ "split" \in Stage["splitting"]
    BY StageOf DEF Building
  <2> QED BY <1>5, <1>b, <2>1 DEF Parse, SetStatus
<1>c. CASE SplitDone(w)
  <2>1. {"split", "index"} \subseteq Building /\ "index" \in Stage["indexing"]
    BY StageOf DEF Building
  <2> QED BY <1>5, <1>c, <2>1 DEF SplitDone, SetStatus
<1>d. CASE SplitOne(w) \/ Index(w) \/ AddKeywords(w) \/ PutKeywords(w) \/ Store(w) \/ StoreFails(w) \/ StoreDone(w)
  <2>1. {"split", "index", "addKeywords", "putKeywords", "store", "settle"} \subseteq Building
    BY DEF Building
  <2>2. UNCHANGED status
    BY <1>d DEF SplitOne, Index, AddKeywords, PutKeywords, Store, StoreFails, StoreDone, documentVars, storeVars
  <2>3. \/ Step(w, "split", "split") \/ Step(w, "index", "addKeywords") \/ Step(w, "addKeywords", "putKeywords")
        \/ Step(w, "putKeywords", "store") \/ Step(w, "store", "store") \/ Step(w, "store", "settle")
    BY <1>d DEF SplitOne, Index, AddKeywords, PutKeywords, Store, StoreFails, StoreDone
  <2> QED BY <1>7, <2>1, <2>2, <2>3
<1>e. CASE Settle(w)
  <2>1. worker[w].at \in Building /\ Done(w) /\ \E st : status' = [status EXCEPT ![d] = st]
    BY <1>e DEF Settle, Building
  <2> QED BY <1>6, <2>1
<1>f. CASE BuildFails(w)
  <2>1. worker[w].at \in Building /\ Done(w) /\ status' = [status EXCEPT ![d] = "error"]
    BY <1>f DEF BuildFails, Building, SetStatus
  <2> QED BY <1>6, <2>1
<1> QED BY <1>a, <1>b, <1>c, <1>d, <1>e, <1>f DEF Build

\* A worker outside of builds goes on, and the status of no document changes.
LEMMA WorkerGoes ==
    ASSUME OwnInv, Typed', UNCHANGED <<status, request>>, messages' \subseteq messages, NEW w \in Workers,
           NEW now, worker' = [worker EXCEPT ![w] = now], now.at \notin Building,
           now.at = "delete" => status[now.document] \in Final,
           now.at \in Cleaning => status[now.document] = "gone"
    PROVE  OwnInv'
<1>1. Typed /\ BuildsAgree /\ DeletesAgree
  BY DEF OwnInv
<1>2. FinalStays
  BY DEF FinalStays
<1>3. BuildsAgree'
  BY <1>1, OneWorkerMoves
<1>4. DeletesAgree'
  BY <1>1, <1>2, FinalWorkers
<1> QED BY <1>3, <1>4 DEF OwnInv

LEMMA OwnDelete ==
    ASSUME OwnInv, Typed', NEW w \in Workers, Delete(w), UNCHANGED requestVars
    PROVE  OwnInv'
<1> DEFINE d == Doc(w)
<1>1. Typed /\ BuildsAgree /\ DeletesAgree
  BY DEF OwnInv
<1>2. worker \in [Workers -> WorkerRecord] /\ UNCHANGED request
  BY <1>1 DEF Typed, WorkersTyped, requestVars
<1>3. worker[w].at \in {"delete"} \union Cleaning => d \in Documents /\ status[d] \in Final
  BY <1>1 DEF DeletesAgree, Final, Typed, WorkersTyped, Doc, Cleaning
<1>4. ASSUME Retry(w), UNCHANGED storeVars, worker[w].at \in {"delete"} \union Cleaning PROVE OwnInv'
  <2>1. messages' \subseteq messages \union {Msg("delete", d, worker[w].tries + 1)}
    BY <1>4 DEF Retry
  <2>2. \A m \in messages' \ messages : m.task = "delete" => status[m.document] \in Final
    BY <1>3, <1>4, <2>1 DEF Msg
  <2> QED BY <1>2, <1>4, <2>2, WorkerStops DEF Retry, storeVars, documentVars
<1>a. CASE Look(w)
  <2>1. CASE Exists(d)
    BY <1>4, <1>a, <2>1 DEF Look
  <2>2. CASE ~Exists(d)
    <3> DEFINE now == [worker[w] EXCEPT !.at = "dropVectors", !.ids = Rows(d)]
    <3>1. now.at = "dropVectors" /\ now.document = d /\ "dropVectors" \notin Building
      BY <1>2 DEF WorkerRecord, Doc, Building
    <3>2. worker' = [worker EXCEPT ![w] = now] /\ UNCHANGED <<status, messages>>
      BY <1>2, <1>a, <2>2 DEF Look, queueVars, storeVars, documentVars
    <3>3. status[d] = "gone"
      BY <1>3, <1>a, <2>2 DEF Look, Exists, NoRow, Final
    <3> HIDE DEF now
    <3> QED BY <1>2, <3>1, <3>2, <3>3, WorkerGoes
  <2> QED BY <2>1, <2>2
<1>b. CASE DropVectors(w) \/ DropSegments(w)
  <2>1. PICK to \in {"dropSegments", "dropKeywords"}, from \in Cleaning : Step(w, from, to)
    BY <1>b DEF DropVectors, DropSegments, Cleaning
  <2> DEFINE now == [worker[w] EXCEPT !.at = to]
  <2>2. now.at = to /\ now.document = d /\ to \notin Building \union {"delete"}
    BY <1>2 DEF WorkerRecord, Doc, Building
  <2>3. worker' = [worker EXCEPT ![w] = now] /\ UNCHANGED <<status, messages>>
    BY <1>2, <1>b, <2>1 DEF DropVectors, DropSegments, Step, queueVars, documentVars
  <2>4. status[d] = "gone"
    BY <1>1, <2>1 DEF Step, DeletesAgree
  <2> HIDE DEF now
  <2> QED BY <1>2, <2>2, <2>3, <2>4, WorkerGoes
<1>c. CASE DropKeywords(w)
  BY <1>2, <1>c, WorkerStops DEF DropKeywords, queueVars, documentVars
<1>d. CASE DropFails(w)
  BY <1>4, <1>d DEF DropFails, Cleaning
<1> QED BY <1>a, <1>b, <1>c, <1>d DEF Delete

LEMMA OwnToggle ==
    ASSUME OwnInv, Typed', NEW w \in Workers, Toggle(w), UNCHANGED requestVars
    PROVE  OwnInv'
<1>1. Typed
  BY DEF OwnInv
<1>2. worker \in [Workers -> WorkerRecord] /\ UNCHANGED request
  BY <1>1 DEF Typed, WorkersTyped, requestVars
<1>3. UNCHANGED <<status, messages>>
  BY DEF Toggle, ReadSegments, Mark, MarkFails, Sync, PutToggled, SyncFails, Unlock, SetEnabled,
         queueVars, documentVars, storeVars
<1>4. {"mark", "putToggled", "unlock"} \intersect (Building \union Cleaning \union {"delete"}) = {}
  BY DEF Building, Cleaning
<1>5. \/ Done(w)
      \/ \E now : /\ worker' = [worker EXCEPT ![w] = now]
                  /\ now.at \in {"mark", "putToggled", "unlock"}
  <2>1. ASSUME NEW from, NEW to \in {"mark", "putToggled", "unlock"}, Step(w, from, to)
        PROVE  \E now : worker' = [worker EXCEPT ![w] = now] /\ now.at \in {"mark", "putToggled", "unlock"}
    <3> DEFINE now == [worker[w] EXCEPT !.at = to]
    <3>1. worker' = [worker EXCEPT ![w] = now] /\ now.at = to
      BY <1>2, <2>1 DEF Step, WorkerRecord
    <3> HIDE DEF now
    <3> QED BY <2>1, <3>1
  <2>2. ASSUME ReadSegments(w), ~Done(w) PROVE \E now : worker' = [worker EXCEPT ![w] = now] /\ now.at = "mark"
    <3> DEFINE ids == Completed(Doc(w))
               now == [worker[w] EXCEPT !.at = "mark", !.on = enabled[Doc(w)], !.ids = ids, !.left = ids,
                                        !.live = {s \in ids : segment[s].enabled}]
    <3>1. worker' = [worker EXCEPT ![w] = now] /\ now.at = "mark"
      BY <1>2, <2>2 DEF ReadSegments, WorkerRecord
    <3> HIDE DEF now
    <3> QED BY <3>1
  <2>3. ASSUME NEW s \in Segments, NEW on, worker[w].at = "mark",
               worker' = [worker EXCEPT ![w].left = @ \ {s}, ![w].on = on]
        PROVE  \E now : worker' = [worker EXCEPT ![w] = now] /\ now.at = "mark"
    <3> DEFINE now == [worker[w] EXCEPT !.left = @ \ {s}, !.on = on]
    <3>1. worker' = [worker EXCEPT ![w] = now] /\ now.at = "mark"
      BY <1>2, <2>3 DEF WorkerRecord
    <3> HIDE DEF now
    <3> QED BY <3>1
  <2>4. ASSUME NEW s \in Segments, Mark(w, s) \/ MarkFails(w, s)
        PROVE  \E now : worker' = [worker EXCEPT ![w] = now] /\ now.at = "mark"
    BY <2>3, <2>4 DEF Mark, MarkFails
  <2>5. ASSUME Sync(w) \/ PutToggled(w) \/ SyncFails(w)
        PROVE  \E now : worker' = [worker EXCEPT ![w] = now] /\ now.at \in {"mark", "putToggled", "unlock"}
    BY <2>1, <2>5 DEF Sync, PutToggled, SyncFails
  <2>6. Unlock(w) => Done(w)
    BY DEF Unlock
  <2> QED BY <2>2, <2>4, <2>5, <2>6 DEF Toggle
<1>6. CASE Done(w)
  BY <1>2, <1>3, <1>6, WorkerStops
<1>7. ASSUME NEW now, worker' = [worker EXCEPT ![w] = now], now.at \in {"mark", "putToggled", "unlock"}
      PROVE  OwnInv'
  BY <1>2, <1>3, <1>4, <1>7, WorkerGoes
<1> QED BY <1>5, <1>6, <1>7

\* A request changes at most the status of a document that nobody builds, and gets as
\* far as a deletion only with a document that is done.
LEMMA RequestGoes ==
    ASSUME OwnInv, Typed', UNCHANGED worker, NEW r \in Requests,
           \A q \in Requests \ {r} : request'[q] = request[q],
           \/ UNCHANGED status
           \/ /\ status[ReqDoc(r)] \in Final /\ request[r].at # "idle"
              /\ status' = [status EXCEPT ![ReqDoc(r)] = "gone"]
           \/ \E d \in Documents : /\ status[d] \in {"unborn", "waiting"}
                                   /\ \E st : status' = [status EXCEPT ![d] = st],
           request'[r].at \in {"sendDelete", "deleteRow"} => status'[request'[r].document] \in Final,
           \A m \in messages' \ messages : m.task = "delete" => status'[m.document] \in Final
    PROVE  OwnInv'
<1>1. Typed /\ BuildsAgree /\ DeletesAgree
  BY DEF OwnInv
<1>2. status \in [Documents -> DocumentStatus \union NoRow]
  BY <1>1 DEF Typed, DocumentsTyped
<1>3. \A w \in Workers : worker[w].at \in Building =>
          status[Doc(w)] \notin Final \union {"unborn", "waiting"} /\ Doc(w) \in Documents
  BY <1>1, BuilderStatus
<1>4. request[r].at # "idle" => ReqDoc(r) \in Documents
  BY <1>1, RequestDocument
<1>5. \A w \in Workers : worker[w].at \in Building => status'[Doc(w)] = status[Doc(w)]
  BY <1>2, <1>3, <1>4
<1>6. FinalStays
  BY <1>2, <1>4 DEF FinalStays, Final
<1>7. BuildsAgree'
  BY <1>1, <1>5 DEF BuildsAgree, Doc
<1>8. DeletesAgree'
  BY <1>1, <1>6, FinalRequests
<1> QED BY <1>7, <1>8 DEF OwnInv

LEMMA OwnDocumentRequest ==
    ASSUME OwnInv, Typed', NEW r \in Requests, DocumentRequest(r)
    PROVE  OwnInv'
<1> DEFINE d == ReqDoc(r)
<1>1. Typed /\ BuildsAgree /\ DeletesAgree
  BY DEF OwnInv
<1>2. request \in [Requests -> RequestRecord]
  BY <1>1 DEF Typed, RequestsTyped
<1>3. request[r].at # "idle" => d \in Documents
  BY <1>1, RequestDocument
<1>4. request[r].at \in {"sendDelete", "deleteRow"} => status[d] \in Final
  BY <1>1 DEF DeletesAgree
<1>5. ASSUME NEW task \in {"build", "toggle"}, NEW e, Send(Msg(task, e, 0)) \/ SendRaises(Msg(task, e, 0))
      PROVE  UNCHANGED worker /\ \A m \in messages' \ messages : m.task # "delete"
  BY <1>5 DEF Send, SendRaises, Msg, workerVars
<1>6. ASSUME Send(Msg("delete", d, 0)) \/ SendRaises(Msg("delete", d, 0)), status[d] \in Final
      PROVE  UNCHANGED worker /\ \A m \in messages' \ messages : m.task = "delete" => status[m.document] \in Final
  BY <1>6 DEF Send, SendRaises, Msg, workerVars
<1>7. ASSUME NEW from, NEW to, Goes(r, from, to)
      PROVE  (\A q \in Requests \ {r} : request'[q] = request[q]) /\ request'[r].at = to /\ request'[r].document = d
  BY <1>2, <1>7 DEF Goes, RequestRecord, ReqDoc
<1>8. ASSUME Replies(r)
      PROVE  (\A q \in Requests \ {r} : request'[q] = request[q]) /\ request'[r].at = "idle"
  BY <1>2, <1>8 DEF Replies, NoRequest
<1>9. ASSUME NEW op, NEW to, NEW e, NEW s, NEW want, Begin(r, op, to, e, s, want)
      PROVE  (\A q \in Requests \ {r} : request'[q] = request[q]) /\ request'[r].at = to /\ request'[r].document = e
  BY <1>2, <1>9 DEF Begin
<1>a. ASSUME NEW e \in Documents, CreateDocument(r, e) PROVE OwnInv'
  <2>1. UNCHANGED <<worker, messages>> /\ status[e] = "unborn" /\ status' = [status EXCEPT ![e] = "waiting"]
    BY <1>a DEF CreateDocument, SetStatus, workerVars
  <2>2. (\A q \in Requests \ {r} : request'[q] = request[q]) /\ request'[r].at = "dispatch"
    BY <1>9, <1>a DEF CreateDocument
  <2> QED BY <2>1, <2>2, RequestGoes
<1>b. CASE Dispatch(r) \/ SendToggle(r)
  <2>1. UNCHANGED worker /\ (\A m \in messages' \ messages : m.task # "delete") /\ UNCHANGED status
    BY <1>5, <1>b DEF Dispatch, SendToggle, storeVars, documentVars
  <2>2. (\A q \in Requests \ {r} : request'[q] = request[q]) /\ request'[r].at = "idle"
    BY <1>8, <1>b DEF Dispatch, SendToggle, Ends
  <2> QED BY <2>1, <2>2, RequestGoes
<1>c. CASE DispatchRaises(r) \/ SendToggleRaises(r)
  <2>1. UNCHANGED worker /\ (\A m \in messages' \ messages : m.task # "delete") /\ UNCHANGED status
    BY <1>5, <1>c DEF DispatchRaises, SendToggleRaises, storeVars, documentVars
  <2>2. (\A q \in Requests \ {r} : request'[q] = request[q]) /\ request'[r].at \in {"undispatch", "undo"}
    BY <1>7, <1>c DEF DispatchRaises, SendToggleRaises
  <2> QED BY <2>1, <2>2, RequestGoes
<1>d. CASE MarkUndispatched(r)
  <2>1. UNCHANGED <<worker, messages>> /\ d \in Documents
    BY <1>3, <1>d DEF MarkUndispatched, Ends, workerVars
  <2>2. UNCHANGED status \/ (status[d] = "waiting" /\ status' = [status EXCEPT ![d] = "error"])
    BY <1>d DEF MarkUndispatched, SetStatus, documentVars
  <2>3. (\A q \in Requests \ {r} : request'[q] = request[q]) /\ request'[r].at = "idle"
    BY <1>8, <1>d DEF MarkUndispatched, Ends
  <2> QED BY <2>1, <2>2, <2>3, RequestGoes
<1>e. ASSUME NEW e \in Documents, AskDelete(r, e) PROVE OwnInv'
  <2>1. UNCHANGED <<worker, messages, status>> /\ status[e] \in Final
    BY <1>e DEF AskDelete, workerVars, storeVars, documentVars, Final
  <2>2. (\A q \in Requests \ {r} : request'[q] = request[q]) /\ request'[r].document = e
    BY <1>9, <1>e DEF AskDelete
  <2> QED BY <2>1, <2>2, RequestGoes
<1>f. CASE SendDelete(r)
  <2>1. status[d] \in Final /\ UNCHANGED status
    BY <1>4, <1>f DEF SendDelete, Goes, storeVars, documentVars
  <2>2. UNCHANGED worker /\ \A m \in messages' \ messages : m.task = "delete" => status[m.document] \in Final
    BY <1>6, <1>f, <2>1 DEF SendDelete
  <2>3. (\A q \in Requests \ {r} : request'[q] = request[q]) /\ request'[r].document = d
    BY <1>7, <1>f DEF SendDelete
  <2> QED BY <2>1, <2>2, <2>3, RequestGoes
<1>g. CASE SendDeleteRaises(r)
  <2>1. status[d] \in Final /\ UNCHANGED status
    BY <1>4, <1>g DEF SendDeleteRaises, Ends, storeVars, documentVars
  <2>2. UNCHANGED worker /\ \A m \in messages' \ messages : m.task = "delete" => status[m.document] \in Final
    BY <1>6, <1>g, <2>1 DEF SendDeleteRaises
  <2>3. (\A q \in Requests \ {r} : request'[q] = request[q]) /\ request'[r].at = "idle"
    BY <1>8, <1>g DEF SendDeleteRaises, Ends
  <2> QED BY <2>1, <2>2, <2>3, RequestGoes
<1>h. CASE DeleteRow(r)
  <2>1. /\ status[d] \in Final /\ request[r].at # "idle" /\ UNCHANGED <<worker, messages>>
        /\ status' = [status EXCEPT ![d] = "gone"]
    BY <1>4, <1>h DEF DeleteRow, Ends, workerVars
  <2>2. (\A q \in Requests \ {r} : request'[q] = request[q]) /\ request'[r].at = "idle"
    BY <1>8, <1>h DEF DeleteRow, Ends
  <2> QED BY <2>1, <2>2, RequestGoes
<1>i. ASSUME NEW e \in Documents, AskToggle(r, e) PROVE OwnInv'
  <2>1. UNCHANGED <<worker, messages, status>>
    BY <1>i DEF AskToggle, workerVars, storeVars, documentVars
  <2>2. (\A q \in Requests \ {r} : request'[q] = request[q]) /\ request'[r].at = "lookLock"
    BY <1>9, <1>i DEF AskToggle
  <2> QED BY <2>1, <2>2, RequestGoes
<1>j. CASE LookLock(r) \/ TakeLock(r) \/ Commit(r) \/ UndoToggle(r)
  <2>1. UNCHANGED <<worker, messages, status>>
    BY <1>j DEF LookLock, TakeLock, Commit, UndoToggle, SetEnabled, workerVars, storeVars, documentVars
  <2>2. (\A q \in Requests \ {r} : request'[q] = request[q]) /\ request'[r].at \in {"idle", "takeLock", "commit", "send"}
    BY <1>7, <1>8, <1>j DEF LookLock, TakeLock, Commit, UndoToggle, Ends
  <2> QED BY <2>1, <2>2, RequestGoes
<1> QED BY <1>a, <1>b, <1>c, <1>d, <1>e, <1>f, <1>g, <1>h, <1>i, <1>j
        DEF DocumentRequest, Create, Remove, SwitchDocument

\* Where a request on a segment stands, and that it is the only request that moves.
LEMMA SegmentRequestMoves ==
    ASSUME Typed, NEW r \in Requests, SegmentRequest(r)
    PROVE  /\ \A q \in Requests \ {r} : request'[q] = request[q]
           /\ request'[r].at \in {"idle"} \union SegmentPlaces
<1>1. request \in [Requests -> RequestRecord]
  BY DEF Typed, RequestsTyped
<1>2. ASSUME NEW from, NEW to \in SegmentPlaces, Goes(r, from, to)
      PROVE  (\A q \in Requests \ {r} : request'[q] = request[q]) /\ request'[r].at \in SegmentPlaces
  BY <1>1, <1>2 DEF Goes, RequestRecord
<1>3. ASSUME Replies(r)
      PROVE  (\A q \in Requests \ {r} : request'[q] = request[q]) /\ request'[r].at = "idle"
  BY <1>1, <1>3 DEF Replies, NoRequest
<1>4. ASSUME NEW op, NEW to \in SegmentPlaces, NEW e, NEW s, NEW want, Begin(r, op, to, e, s, want)
      PROVE  (\A q \in Requests \ {r} : request'[q] = request[q]) /\ request'[r].at \in SegmentPlaces
  BY <1>1, <1>4 DEF Begin
<1>5. \A place \in {"newRow", "newRead", "newVector", "newCount", "newKeywords", "putNew",
                  "cutRow", "cutKeywords", "cutVector", "lookHeld", "hold", "flip", "flipRead", "flipAdd",
                  "flipDelete", "putFlipped", "flipVector",
                  "rewrite", "dropOld", "addNew", "putRewritten", "rewriteVector"} : place \in SegmentPlaces
  BY DEF SegmentPlaces
<1>a. CASE AddSegment(r)
  <2>1. CASE NewRow(r)
    BY <1>1, <1>5, <2>1 DEF NewRow, RequestRecord
  <2>2. CASE NewRead(r)
    BY <1>1, <1>5, <2>2 DEF NewRead, RequestRecord
  <2> QED BY <1>2, <1>3, <1>4, <1>5, <1>a, <2>1, <2>2
          DEF AddSegment, AskNew, NewVector, NewCount, NewKeywords, PutNew, NewFails, Ends
<1>b. CASE CutSegment(r)
  BY <1>2, <1>3, <1>4, <1>5, <1>b DEF CutSegment, AskCut, CutRow, CutKeywords, CutFails, CutVector, Ends
<1>c. CASE SwitchSegment(r)
  BY <1>2, <1>3, <1>4, <1>5, <1>c DEF SwitchSegment, AskFlip, LookHeld, Hold, Flip, FlipRead, FlipAdd, PutFlipped,
                                      FlipDelete, FlipVector, FlipFails, Ends
<1>d. CASE RewriteSegment(r)
  BY <1>2, <1>3, <1>4, <1>5, <1>d DEF RewriteSegment, AskRewrite, Rewrite, DropOld, AddNew, PutRewritten, RewriteVector,
                                      RewriteFails, Ends
<1> QED BY <1>a, <1>b, <1>c, <1>d DEF SegmentRequest

LEMMA OwnStep == KnowledgeAssumption /\ OwnInv /\ [Next]_vars => OwnInv'
<1> SUFFICES ASSUME KnowledgeAssumption, OwnInv, [Next]_vars PROVE OwnInv'
  OBVIOUS
<1>1. Typed /\ Typed' /\ BuildsAgree /\ DeletesAgree
  BY TypedStep DEF OwnInv
<1>a. ASSUME NEW r \in Requests, DocumentRequest(r) PROVE OwnInv'
  BY <1>1, <1>a, OwnDocumentRequest
<1>b. ASSUME NEW r \in Requests, SegmentRequest(r) PROVE OwnInv'
  <2>1. UNCHANGED <<status, worker, messages>>
    BY <1>b, SegmentRequestElsewhere DEF elsewhere, documentVars, workerVars
  <2>2. "sendDelete" \notin {"idle"} \union SegmentPlaces /\ "deleteRow" \notin {"idle"} \union SegmentPlaces
    BY DEF SegmentPlaces
  <2> QED BY <1>1, <1>b, <2>1, <2>2, SegmentRequestMoves, RequestGoes
<1>c. ASSUME NEW r \in Requests, RequestDies(r) PROVE OwnInv'
  <2>1. UNCHANGED <<status, worker, messages>>
    BY <1>c DEF RequestDies, documentVars
  <2>2. (\A q \in Requests \ {r} : request'[q] = request[q]) /\ request'[r].at = "idle"
    BY <1>1, <1>c DEF RequestDies, Replies, NoRequest, Typed, RequestsTyped
  <2> QED BY <1>1, <2>1, <2>2, RequestGoes
<1>d. ASSUME NEW w \in Workers, Receive(w) PROVE OwnInv'
  <2>1. PICK m \in messages : Take(w, m)
    BY <1>d DEF Receive
  <2> DEFINE now == [worker[w] EXCEPT !.at = m.task, !.document = m.document, !.tries = m.tries]
  <2>2. m \in Message /\ worker \in [Workers -> WorkerRecord]
    BY <1>1 DEF Typed, QueueTyped, WorkersTyped
  <2>3. /\ worker' = [worker EXCEPT ![w] = now] /\ messages' \subseteq messages
        /\ UNCHANGED <<status, request>>
    BY <1>d, <2>1, <2>2 DEF Take, Receive, requestVars, storeVars, documentVars
  <2>4. now.at = m.task /\ now.document = m.document /\ m.task \notin Building \union Cleaning
    BY <2>2 DEF Message, WorkerRecord, Building, Cleaning
  <2>5. m.task = "delete" => status[m.document] \in Final
    BY <1>1 DEF DeletesAgree
  <2> HIDE DEF now
  <2> QED BY <1>1, <2>3, <2>4, <2>5, WorkerGoes
<1>e. ASSUME NEW w \in Workers, WorkOn(w) PROVE OwnInv'
  BY <1>1, <1>e, OwnBuild, OwnDelete, OwnToggle DEF WorkOn, Work
<1>f. ASSUME NEW w \in Workers, Dies(w) PROVE OwnInv'
  BY <1>1, <1>f, WorkerStops DEF Dies, WorkerDies, queueVars, documentVars, requestVars
<1>g. CASE UNCHANGED vars
  BY <1>1, <1>g, OwnStays DEF vars, storeVars, documentVars, workerVars, requestVars
<1> QED BY <1>a, <1>b, <1>c, <1>d, <1>e, <1>f, <1>g DEF Next, Request

LEMMA OwnInvariant == Spec => []OwnInv
<1>1. Init => OwnInv
  BY OwnInitially, KnowledgeAssumption
<1>2. OwnInv /\ [Next]_vars => OwnInv'
  BY OwnStep, KnowledgeAssumption
<1> QED BY <1>1, <1>2, PTL DEF Spec

\* No document is built by two workers, and a builder is in the stage its document
\* is in, whatever users do meanwhile and whatever is delivered twice or dies.
THEOREM BuildsAreOwned == Spec => []BuildOwnsDocument
<1>1. ASSUME OwnInv, NEW d \in Documents PROVE Cardinality(Builders(d)) <= 1
  <2>1. \A v, w \in Builders(d) : v = w
    BY <1>1 DEF OwnInv, BuildsAgree, Builders, Doc
  <2>2. CASE Builders(d) = {}
    BY <2>2, FS_EmptySet
  <2>3. CASE Builders(d) # {}
    <3>1. PICK w : Builders(d) = {w}
      BY <2>1, <2>3
    <3> QED BY <3>1, FS_Singleton
  <2> QED BY <2>2, <2>3
<1>2. ASSUME OwnInv, NEW d \in Documents, NEW w \in Builders(d) PROVE worker[w].at \in Stage[status[d]]
  BY <1>2 DEF OwnInv, BuildsAgree, Builders, Doc
<1>3. OwnInv => BuildOwnsDocument
  BY <1>1, <1>2 DEF BuildOwnsDocument
<1> QED BY <1>3, OwnInvariant, PTL

-----------------------------------------------------------------------------
(***************************************************************************)
(* Rows of segments.                                                       *)
(***************************************************************************)
\* A row of a segment is lost only by the clean-up of a document that is deleted, or
\* because a user cuts it.
RowStays(s) ==
    \/ segment[s].status \in NoRow
    \/ segment'[s].status \notin NoRow
    \/ status[s[1]] = "gone"
    \/ \E r \in Requests : CutRow(r) /\ Seg(r) = s

LEMMA SetSegmentsKeeps ==
    ASSUME Typed, NEW ids, NEW st \in SegmentStatus, NEW on, SetSegments(ids, Row(st, on)), NEW s \in Segments
    PROVE  RowStays(s)
<1>1. st \notin NoRow
  BY DEF SegmentStatus, NoRow
<1> QED BY <1>1 DEF SetSegments, Row, RowStays

LEMMA UnchangedKeeps == ASSUME UNCHANGED segment, NEW s PROVE RowStays(s)
BY DEF RowStays

LEMMA RowsStay ==
    ASSUME OwnInv, [Next]_vars, NEW s \in Segments
    PROVE  RowStays(s)
<1>1. Typed /\ BuildsAgree /\ DeletesAgree
  BY DEF OwnInv
<1>2. {"waiting", "indexing", "completed", "error"} \subseteq SegmentStatus
  BY DEF SegmentStatus
<1>a. ASSUME NEW r \in Requests, DocumentRequest(r) PROVE RowStays(s)
  <2>1. UNCHANGED segment
    BY <1>a DEF DocumentRequest, Create, Remove, SwitchDocument, CreateDocument, Dispatch, DispatchRaises, MarkUndispatched,
       AskDelete, SendDelete, SendDeleteRaises, DeleteRow, AskToggle, LookLock, TakeLock, Commit, SendToggle,
       SendToggleRaises, UndoToggle, storeVars
  <2> QED BY <2>1, UnchangedKeeps
<1>b. ASSUME NEW r \in Requests, SegmentRequest(r) PROVE RowStays(s)
  <2>1. Discard(r) => RowStays(s)
    BY <1>1, <1>2, SetSegmentsKeeps DEF Discard
  <2>2. CASE AddSegment(r)
    <3>1. CASE NewRow(r)
      BY <1>1, <1>2, <3>1, SetSegmentsKeeps DEF NewRow
    <3>2. CASE NewFails(r)
      BY <2>1, <3>2 DEF NewFails
    <3>3. CASE UNCHANGED segment
      BY <3>3, UnchangedKeeps
    <3> QED BY <2>2, <3>1, <3>2, <3>3 DEF AddSegment, AskNew, NewRead, NewVector, NewCount, NewKeywords, PutNew, storeVars
  <2>3. CASE CutSegment(r)
    <3>1. CASE CutRow(r)
      <4>1. CASE s = Seg(r)
        BY <3>1, <4>1 DEF RowStays
      <4>2. CASE s # Seg(r)
        BY <3>1, <4>2 DEF CutRow, SetSegments, RowStays
      <4> QED BY <4>1, <4>2
    <3>2. CASE UNCHANGED segment
      BY <3>2, UnchangedKeeps
    <3> QED BY <2>3, <3>1, <3>2 DEF CutSegment, AskCut, CutKeywords, CutFails, CutVector, storeVars
  <2>4. CASE SwitchSegment(r)
    <3>1. CASE Flip(r)
      BY <1>1, <3>1 DEF Flip, RowStays, Typed, SegmentsTyped, SegmentRecord
    <3>2. CASE FlipFails(r)
      BY <2>1, <3>2 DEF FlipFails
    <3>3. CASE UNCHANGED segment
      BY <3>3, UnchangedKeeps
    <3> QED BY <2>4, <3>1, <3>2, <3>3 DEF SwitchSegment, AskFlip, LookHeld, Hold, FlipRead, FlipAdd, PutFlipped,
                                          FlipDelete, FlipVector, storeVars
  <2>5. CASE RewriteSegment(r)
    <3>1. UNCHANGED segment
      BY <2>5 DEF RewriteSegment, AskRewrite, Rewrite, DropOld, AddNew, PutRewritten, RewriteVector, RewriteFails, storeVars
    <3> QED BY <3>1, UnchangedKeeps
  <2> QED BY <1>b, <2>2, <2>3, <2>4, <2>5 DEF SegmentRequest
<1>c. ASSUME NEW r \in Requests, RequestDies(r) PROVE RowStays(s)
  BY <1>c, UnchangedKeeps DEF RequestDies
<1>d. ASSUME NEW w \in Workers, Receive(w) PROVE RowStays(s)
  BY <1>d, UnchangedKeeps DEF Receive, Take, storeVars
<1>e. ASSUME NEW w \in Workers, WorkOn(w) PROVE RowStays(s)
  <2>1. CASE Build(w)
    <3>1. CASE SplitOne(w)
      BY <1>1, <1>2, <3>1, SetSegmentsKeeps DEF SplitOne
    <3>2. CASE Index(w) \/ Store(w) \/ StoreFails(w)
      BY <1>1, <1>2, <3>2, SetSegmentsKeeps DEF Index, Store, StoreFails
    <3>3. CASE UNCHANGED segment
      BY <3>3, UnchangedKeeps
    <3> QED BY <2>1, <3>1, <3>2, <3>3 DEF Build, Claim, Parse, SplitDone, AddKeywords, PutKeywords, StoreDone, Settle,
                                          BuildFails, storeVars
  <2>2. CASE Delete(w)
    <3>1. CASE DropSegments(w)
      <4>1. status[Doc(w)] = "gone" /\ Doc(w) \in Documents
        BY <1>1, <3>1 DEF DropSegments, Step, DeletesAgree, Cleaning, Typed, WorkersTyped, Doc
      <4>2. s \in Rows(Doc(w)) => s[1] = Doc(w)
        BY <4>1, RowsOf, SegmentsOf
      <4>3. CASE s \in Rows(Doc(w))
        BY <4>1, <4>2, <4>3 DEF RowStays
      <4>4. CASE s \notin Rows(Doc(w))
        BY <3>1, <4>4 DEF DropSegments, SetSegments, RowStays
      <4> QED BY <4>3, <4>4
    <3>2. CASE UNCHANGED segment
      BY <3>2, UnchangedKeeps
    <3> QED BY <2>2, <3>1, <3>2 DEF Delete, Look, DropVectors, DropKeywords, DropFails, storeVars
  <2>3. CASE Toggle(w)
    <3>1. ASSUME NEW t \in Segments, MarkFails(w, t) PROVE RowStays(s)
      BY <1>1, <1>2, <3>1, SetSegmentsKeeps DEF MarkFails
    <3>2. CASE UNCHANGED segment
      BY <3>2, UnchangedKeeps
    <3> QED BY <2>3, <3>1, <3>2 DEF Toggle, ReadSegments, Mark, Sync, PutToggled, SyncFails, Unlock, storeVars
  <2> QED BY <1>e, <2>1, <2>2, <2>3 DEF WorkOn, Work
<1>f. ASSUME NEW w \in Workers, Dies(w) PROVE RowStays(s)
  BY <1>f, UnchangedKeeps DEF Dies, WorkerDies
<1>g. CASE UNCHANGED vars
  BY <1>g, UnchangedKeeps DEF vars, storeVars
<1> QED BY <1>a, <1>b, <1>c, <1>d, <1>e, <1>f, <1>g DEF Next, Request

\* Whatever tasks and requests do to a document that is still there, a segment of it
\* loses its row only if a user cuts that segment.
THEOREM OnlyUsersCutSegments ==
    Spec => [][\A d \in Documents : Exists(d) =>
                  \A s \in Rows(d) : s \in Rows(d)' \/ \E r \in Requests : CutRow(r) /\ Seg(r) = s]_vars
<1> DEFINE Kept == \A d \in Documents : Exists(d) =>
                  \A s \in Rows(d) : s \in Rows(d)' \/ \E r \in Requests : CutRow(r) /\ Seg(r) = s
<1>1. OwnInv /\ [Next]_vars => [Kept]_vars
  <2> SUFFICES ASSUME OwnInv, [Next]_vars, NEW d \in Documents, Exists(d), NEW s \in Rows(d)
               PROVE  s \in Rows(d)' \/ \E r \in Requests : CutRow(r) /\ Seg(r) = s
    OBVIOUS
  <2>1. s \in Of(d) /\ s \in Segments /\ s[1] = d /\ segment[s].status \notin NoRow
    BY RowsOf, SegmentsOf DEF Rows
  <2>2. status[s[1]] # "gone"
    BY <2>1 DEF Exists, NoRow
  <2> QED BY <2>1, <2>2, RowsStay DEF RowStays, Rows
<1> QED BY <1>1, OwnInvariant, PTL DEF Spec

-----------------------------------------------------------------------------
(***************************************************************************)
(* What was never asked for does not happen.                               *)
(***************************************************************************)
ToggleRequests == {"lookLock", "takeLock", "commit", "send", "undo"}
ToggleTasks == {"toggle", "mark", "putToggled", "unlock"}

\* Requests, messages and tasks are of the kinds that users ask for.
RequestPlaceAskedFor(place) ==
    /\ place \in {"dispatch", "undispatch"} => "create" \in Operations
    /\ place \in {"sendDelete", "deleteRow"} => "delete" \in Operations
    /\ place \in ToggleRequests => "toggle" \in Operations
    /\ place \in SegmentPlaces => "segment" \in Operations
TaskPlaceAskedFor(place) ==
    /\ place \in Building \union {"build"} => "create" \in Operations
    /\ place \in Cleaning \union {"delete"} => "delete" \in Operations
    /\ place \in ToggleTasks => "toggle" \in Operations
AskedFor ==
    /\ \A r \in Requests : RequestPlaceAskedFor(request[r].at)
    /\ \A m \in messages : TaskPlaceAskedFor(m.task)
    /\ \A w \in Workers : TaskPlaceAskedFor(worker[w].at)

LEMMA AskedForInitially == Init => AskedFor
BY DEF Init, RequestsInit, WorkersInit, NoRequest, Free, AskedFor, RequestPlaceAskedFor, TaskPlaceAskedFor,
       ToggleRequests, ToggleTasks, SegmentPlaces, Building, Cleaning

LEMMA AskedForRequests ==
    ASSUME Typed, AskedFor, UNCHANGED worker, NEW r \in Requests, NEW to,
           \A q \in Requests \ {r} : request'[q] = request[q],
           request'[r].at = to, RequestPlaceAskedFor(to),
           \A m \in messages' \ messages : TaskPlaceAskedFor(m.task)
    PROVE  AskedFor'
<1>1. \A q \in Requests : RequestPlaceAskedFor(request'[q].at)
  BY DEF AskedFor
<1>2. \A m \in messages' : TaskPlaceAskedFor(m.task)
  BY DEF AskedFor
<1>3. \A w \in Workers : TaskPlaceAskedFor(worker'[w].at)
  BY DEF AskedFor
<1> QED BY <1>1, <1>2, <1>3 DEF AskedFor, RequestPlaceAskedFor, TaskPlaceAskedFor

LEMMA AskedForWorkers ==
    ASSUME Typed, AskedFor, UNCHANGED request, NEW w \in Workers, NEW to,
           \A v \in Workers \ {w} : worker'[v] = worker[v],
           worker'[w].at = to, TaskPlaceAskedFor(to),
           \A m \in messages' \ messages : TaskPlaceAskedFor(m.task)
    PROVE  AskedFor'
<1>1. \A q \in Requests : RequestPlaceAskedFor(request'[q].at)
  BY DEF AskedFor
<1>2. \A m \in messages' : TaskPlaceAskedFor(m.task)
  BY DEF AskedFor
<1>3. \A v \in Workers : TaskPlaceAskedFor(worker'[v].at)
  BY DEF AskedFor
<1> QED BY <1>1, <1>2, <1>3 DEF AskedFor, RequestPlaceAskedFor, TaskPlaceAskedFor

\* How a request may go on.
LEMMA RequestMoves ==
    ASSUME Typed, NEW r \in Requests
    PROVE  /\ \A from, to : Goes(r, from, to) =>
                 (\A q \in Requests \ {r} : request'[q] = request[q]) /\ request[r].at = from /\ request'[r].at = to
           /\ Replies(r) => (\A q \in Requests \ {r} : request'[q] = request[q]) /\ request'[r].at = "idle"
           /\ \A op, to, d, s, want : Begin(r, op, to, d, s, want) =>
                 (\A q \in Requests \ {r} : request'[q] = request[q]) /\ op \in Operations /\ request'[r].at = to
<1>1. request \in [Requests -> RequestRecord]
  BY DEF Typed, RequestsTyped
<1>2. \A from, to : Goes(r, from, to) =>
                 (\A q \in Requests \ {r} : request'[q] = request[q]) /\ request[r].at = from /\ request'[r].at = to
  BY <1>1 DEF Goes, RequestRecord
<1>3. Replies(r) => (\A q \in Requests \ {r} : request'[q] = request[q]) /\ request'[r].at = "idle"
  BY <1>1 DEF Replies, NoRequest
<1>4. \A op, to, d, s, want : Begin(r, op, to, d, s, want) =>
                 (\A q \in Requests \ {r} : request'[q] = request[q]) /\ op \in Operations /\ request'[r].at = to
  BY <1>1 DEF Begin
<1> QED BY <1>2, <1>3, <1>4

LEMMA PlacesOf ==
    /\ RequestPlaceAskedFor("idle") /\ TaskPlaceAskedFor("idle")
    /\ "create" \in Operations => /\ RequestPlaceAskedFor("dispatch") /\ RequestPlaceAskedFor("undispatch")
                                  /\ \A p \in Building \union {"build"} : TaskPlaceAskedFor(p)
    /\ "delete" \in Operations => /\ RequestPlaceAskedFor("sendDelete") /\ RequestPlaceAskedFor("deleteRow")
                                  /\ \A p \in Cleaning \union {"delete"} : TaskPlaceAskedFor(p)
    /\ "toggle" \in Operations => /\ \A p \in ToggleRequests : RequestPlaceAskedFor(p)
                                  /\ \A p \in ToggleTasks : TaskPlaceAskedFor(p)
    /\ "segment" \in Operations => \A p \in SegmentPlaces : RequestPlaceAskedFor(p)
BY DEF RequestPlaceAskedFor, TaskPlaceAskedFor, ToggleRequests, ToggleTasks, SegmentPlaces, Building, Cleaning

LEMMA AskedForDocumentRequest ==
    ASSUME Typed, AskedFor, NEW r \in Requests, DocumentRequest(r)
    PROVE  AskedFor'
<1>1. RequestPlaceAskedFor(request[r].at)
  BY DEF AskedFor
<1>2. ASSUME NEW m, Send(m) \/ SendRaises(m)
      PROVE  UNCHANGED worker /\ messages' \subseteq messages \union {m}
  BY <1>2 DEF Send, SendRaises, workerVars
<1>3. \A task, d : Msg(task, d, 0).task = task
  BY DEF Msg
<1>a. ASSUME NEW d \in Documents, CreateDocument(r, d) \/ AskDelete(r, d) \/ AskToggle(r, d) PROVE AskedFor'
  <2>1. UNCHANGED <<worker, messages>>
    BY <1>a DEF CreateDocument, AskDelete, AskToggle, workerVars
  <2>2. PICK to : (\A q \in Requests \ {r} : request'[q] = request[q]) /\ request'[r].at = to /\ RequestPlaceAskedFor(to)
    <3>1. CASE CreateDocument(r, d)
      <4>1. Begin(r, "create", "dispatch", d, None, FALSE)
        BY <3>1 DEF CreateDocument
      <4> QED BY <4>1, RequestMoves, PlacesOf
    <3>2. CASE AskDelete(r, d)
      <4>1. Begin(r, "delete", "sendDelete", d, None, FALSE)
        BY <3>2 DEF AskDelete
      <4> QED BY <4>1, RequestMoves, PlacesOf
    <3>3. CASE AskToggle(r, d)
      <4>1. Begin(r, "toggle", "lookLock", d, None, ~enabled[d])
        BY <3>3 DEF AskToggle
      <4>2. "lookLock" \in ToggleRequests
        BY DEF ToggleRequests
      <4> QED BY <4>1, <4>2, RequestMoves, PlacesOf
    <3> QED BY <1>a, <3>1, <3>2, <3>3
  <2> QED BY <2>1, <2>2, AskedForRequests
<1>b. CASE Dispatch(r) \/ DispatchRaises(r)
  <2>1. request[r].at = "dispatch" /\ "create" \in Operations
    BY <1>1, <1>b DEF Dispatch, DispatchRaises, Ends, Goes, RequestPlaceAskedFor
  <2>2. UNCHANGED worker /\ \A m \in messages' \ messages : TaskPlaceAskedFor(m.task)
    BY <1>2, <1>3, <1>b, <2>1, PlacesOf DEF Dispatch, DispatchRaises
  <2>3. PICK to : (\A q \in Requests \ {r} : request'[q] = request[q]) /\ request'[r].at = to /\ RequestPlaceAskedFor(to)
    BY <1>b, <2>1, RequestMoves, PlacesOf DEF Dispatch, DispatchRaises, Ends
  <2> QED BY <2>2, <2>3, AskedForRequests
<1>c. CASE SendDelete(r) \/ SendDeleteRaises(r)
  <2>1. request[r].at = "sendDelete" /\ "delete" \in Operations
    BY <1>1, <1>c DEF SendDelete, SendDeleteRaises, Ends, Goes, RequestPlaceAskedFor
  <2>2. UNCHANGED worker /\ \A m \in messages' \ messages : TaskPlaceAskedFor(m.task)
    BY <1>2, <1>3, <1>c, <2>1, PlacesOf DEF SendDelete, SendDeleteRaises
  <2>3. PICK to : (\A q \in Requests \ {r} : request'[q] = request[q]) /\ request'[r].at = to /\ RequestPlaceAskedFor(to)
    BY <1>c, <2>1, RequestMoves, PlacesOf DEF SendDelete, SendDeleteRaises, Ends
  <2> QED BY <2>2, <2>3, AskedForRequests
<1>d. CASE SendToggle(r) \/ SendToggleRaises(r)
  <2>1. request[r].at = "send" /\ "toggle" \in Operations
    BY <1>1, <1>d DEF SendToggle, SendToggleRaises, Ends, Goes, RequestPlaceAskedFor, ToggleRequests
  <2>2. UNCHANGED worker /\ \A m \in messages' \ messages : TaskPlaceAskedFor(m.task)
    BY <1>2, <1>3, <1>d, <2>1, PlacesOf DEF SendToggle, SendToggleRaises, ToggleTasks
  <2>3. PICK to : (\A q \in Requests \ {r} : request'[q] = request[q]) /\ request'[r].at = to /\ RequestPlaceAskedFor(to)
    BY <1>d, <2>1, RequestMoves, PlacesOf DEF SendToggle, SendToggleRaises, Ends, ToggleRequests
  <2> QED BY <2>2, <2>3, AskedForRequests
<1>e. CASE MarkUndispatched(r) \/ DeleteRow(r) \/ UndoToggle(r)
  <2>1. UNCHANGED <<worker, messages>> /\ Replies(r)
    BY <1>e DEF MarkUndispatched, DeleteRow, UndoToggle, Ends, workerVars
  <2> QED BY <2>1, RequestMoves, PlacesOf, AskedForRequests
<1>f. CASE LookLock(r) \/ TakeLock(r) \/ Commit(r)
  <2>1. UNCHANGED <<worker, messages>> /\ request[r].at \in ToggleRequests
    BY <1>f DEF LookLock, TakeLock, Commit, Ends, Goes, workerVars, ToggleRequests
  <2>2. "toggle" \in Operations
    BY <1>1, <2>1 DEF RequestPlaceAskedFor
  <2>3. PICK to : (\A q \in Requests \ {r} : request'[q] = request[q]) /\ request'[r].at = to /\ RequestPlaceAskedFor(to)
    BY <1>f, <2>2, RequestMoves, PlacesOf DEF LookLock, TakeLock, Commit, Ends, ToggleRequests
  <2> QED BY <2>1, <2>3, AskedForRequests
<1> QED BY <1>a, <1>b, <1>c, <1>d, <1>e, <1>f DEF DocumentRequest, Create, Remove, SwitchDocument

LEMMA SegmentRequestAsked ==
    ASSUME Typed, NEW r \in Requests, SegmentRequest(r), request[r].at \notin SegmentPlaces
    PROVE  "segment" \in Operations
<1>1. \A place \in {"newRow", "newRead", "newVector", "newCount", "newKeywords", "putNew",
                  "cutRow", "cutKeywords", "cutVector", "lookHeld", "hold", "flip", "flipRead", "flipAdd",
                  "flipDelete", "putFlipped", "flipVector",
                  "rewrite", "dropOld", "addNew", "putRewritten", "rewriteVector"} : request[r].at # place
  BY DEF SegmentPlaces
<1>3. AddSegment(r) => \E d : AskNew(r, d)
  BY <1>1 DEF AddSegment, NewRow, NewRead, NewVector, NewCount, NewKeywords, PutNew, NewFails, Goes, Ends
<1>4. CutSegment(r) => \E s : AskCut(r, s)
  BY <1>1 DEF CutSegment, CutRow, CutKeywords, CutFails, CutVector, Goes, Ends
<1>5. SwitchSegment(r) => \E s : AskFlip(r, s)
  BY <1>1 DEF SwitchSegment, LookHeld, Hold, Flip, FlipRead, FlipAdd, PutFlipped, FlipDelete, FlipVector, FlipFails, Goes, Ends
<1>6. RewriteSegment(r) => \E s : AskRewrite(r, s)
  BY <1>1 DEF RewriteSegment, Rewrite, DropOld, AddNew, PutRewritten, RewriteVector, RewriteFails, Goes, Ends
<1> QED BY <1>3, <1>4, <1>5, <1>6 DEF SegmentRequest, AskNew, AskCut, AskFlip, AskRewrite, Begin

LEMMA AskedForTask ==
    ASSUME Typed, AskedFor, NEW w \in Workers, WorkOn(w) \/ Dies(w)
    PROVE  AskedFor'
<1>1. TaskPlaceAskedFor(worker[w].at) /\ worker \in [Workers -> WorkerRecord]
  BY DEF AskedFor, Typed, WorkersTyped
<1>2. UNCHANGED request
  BY DEF WorkOn, Dies, requestVars
<1>3. ASSUME NEW from, NEW to, Step(w, from, to)
      PROVE  (\A v \in Workers \ {w} : worker'[v] = worker[v]) /\ worker[w].at = from /\ worker'[w].at = to
  BY <1>1, <1>3 DEF Step, WorkerRecord
<1>4. ASSUME Done(w)
      PROVE  (\A v \in Workers \ {w} : worker'[v] = worker[v]) /\ worker'[w].at = "idle"
  BY <1>1, <1>4 DEF Done, Free
<1>5. ASSUME Done(w), UNCHANGED messages PROVE AskedFor'
  BY <1>2, <1>4, <1>5, AskedForWorkers, PlacesOf
<1>6. ASSUME NEW from, NEW to, Step(w, from, to), UNCHANGED messages,
             \/ {from, to} \subseteq Building \union {"build"} \/ {from, to} \subseteq Cleaning \union {"delete"}
             \/ {from, to} \subseteq ToggleTasks
      PROVE  AskedFor'
  <2>1. TaskPlaceAskedFor(to)
    BY <1>1, <1>3, <1>6, PlacesOf DEF TaskPlaceAskedFor
  <2> QED BY <1>2, <1>3, <1>6, <2>1, AskedForWorkers
<1>a. CASE Build(w) /\ ~Done(w)
  <2>1. UNCHANGED messages
    BY <1>a DEF Build, Claim, Parse, SplitOne, SplitDone, Index, AddKeywords, PutKeywords, Store, StoreFails,
         StoreDone, Settle, BuildFails, queueVars
  <2>2. \E from, to \in Building \union {"build"} : Step(w, from, to)
    BY <1>a DEF Build, Claim, Parse, SplitOne, SplitDone, Index, AddKeywords, PutKeywords, Store, StoreFails,
         StoreDone, Settle, BuildFails, Building
  <2> QED BY <1>6, <2>1, <2>2
<1>b. CASE Delete(w)
  <2>0. worker[w].at \in Cleaning \union {"delete"}
    BY <1>b DEF Delete, Look, DropVectors, DropSegments, DropKeywords, DropFails, Step, Cleaning
  <2>1. CASE Retry(w)
    <3>1. \A m \in messages' \ messages : TaskPlaceAskedFor(m.task)
      BY <1>1, <2>0, <2>1, PlacesOf DEF Retry, Msg, TaskPlaceAskedFor
    <3> QED BY <1>2, <1>4, <2>1, <3>1, AskedForWorkers, PlacesOf DEF Retry
  <2>2. CASE worker' = [worker EXCEPT ![w].at = "dropVectors", ![w].ids = Rows(Doc(w))] /\ UNCHANGED queueVars
    <3>1. (\A v \in Workers \ {w} : worker'[v] = worker[v]) /\ worker'[w].at = "dropVectors"
      BY <1>1, <2>2 DEF WorkerRecord
    <3>2. TaskPlaceAskedFor("dropVectors")
      BY <1>1, <2>0, PlacesOf DEF TaskPlaceAskedFor, Cleaning
    <3> QED BY <1>2, <2>2, <3>1, <3>2, AskedForWorkers DEF queueVars
  <2>3. CASE DropVectors(w) \/ DropSegments(w)
    BY <1>6, <2>3 DEF DropVectors, DropSegments, queueVars, Cleaning
  <2>4. CASE DropKeywords(w)
    BY <1>5, <2>4 DEF DropKeywords, queueVars
  <2> QED BY <1>b, <2>1, <2>2, <2>3, <2>4 DEF Delete, Look, DropFails
<1>c. CASE Toggle(w) /\ ~Done(w)
  <2>1. UNCHANGED messages
    BY <1>c DEF Toggle, ReadSegments, Mark, MarkFails, Sync, PutToggled, SyncFails, Unlock, queueVars
  <2>2. CASE \E from, to \in ToggleTasks : Step(w, from, to)
    BY <1>6, <2>1, <2>2
  <2>3. CASE ReadSegments(w) \/ \E s \in Segments : Mark(w, s) \/ MarkFails(w, s)
    <3>1. worker[w].at \in ToggleTasks
      BY <2>3 DEF ReadSegments, Mark, MarkFails, ToggleTasks
    <3>2. CASE ReadSegments(w)
      <4>1. worker' = [worker EXCEPT ![w] = [@ EXCEPT
                            !.at = "mark", !.on = enabled[Doc(w)], !.ids = Completed(Doc(w)), !.left = Completed(Doc(w)),
                            !.live = {s \in Completed(Doc(w)) : segment[s].enabled}]]
        BY <1>c, <3>2 DEF ReadSegments
      <4>2. (\A v \in Workers \ {w} : worker'[v] = worker[v]) /\ worker'[w].at = "mark"
        BY <1>1, <4>1 DEF WorkerRecord
      <4>3. TaskPlaceAskedFor("mark")
        BY <1>1, <3>1, PlacesOf DEF TaskPlaceAskedFor, ToggleTasks
      <4> QED BY <1>2, <2>1, <4>2, <4>3, AskedForWorkers
    <3>3. ASSUME NEW s \in Segments, Mark(w, s) \/ MarkFails(w, s) PROVE AskedFor'
      <4>0. \E on : worker' = [worker EXCEPT ![w].left = @ \ {s}, ![w].on = on]
        BY <3>3 DEF Mark, MarkFails
      <4>1. (\A v \in Workers \ {w} : worker'[v] = worker[v]) /\ worker'[w].at = worker[w].at
        BY <1>1, <4>0 DEF WorkerRecord
      <4> QED BY <1>1, <1>2, <2>1, <4>1, AskedForWorkers
    <3> QED BY <2>3, <3>2, <3>3
  <2> QED BY <1>c, <2>2, <2>3 DEF Toggle, Sync, PutToggled, SyncFails, Unlock, ToggleTasks
<1>d. CASE Done(w) /\ ~Delete(w)
  <2>1. UNCHANGED messages
    BY <1>d DEF WorkOn, Work, Dies, WorkerDies, Build, Claim, Parse, SplitOne, SplitDone, Index, AddKeywords, PutKeywords,
         Store, StoreFails, StoreDone, Settle, BuildFails,
         Toggle, ReadSegments, Mark, MarkFails, Sync, PutToggled, SyncFails, Unlock, queueVars
  <2> QED BY <1>5, <1>d, <2>1
<1> QED BY <1>a, <1>b, <1>c, <1>d DEF WorkOn, Work, Dies, WorkerDies

LEMMA AskedForStep == Typed /\ AskedFor /\ [Next]_vars => AskedFor'
<1> SUFFICES ASSUME Typed, AskedFor, [Next]_vars PROVE AskedFor'
  OBVIOUS
<1>a. ASSUME NEW r \in Requests, SegmentRequest(r) PROVE AskedFor'
  <2>1. UNCHANGED <<worker, messages>>
    BY <1>a, SegmentRequestElsewhere DEF elsewhere, workerVars
  <2>2. "segment" \in Operations
    BY <1>a, SegmentRequestAsked DEF AskedFor, RequestPlaceAskedFor
  <2> QED BY <1>a, <2>1, <2>2, SegmentRequestMoves, PlacesOf, AskedForRequests
<1>b. ASSUME NEW r \in Requests, RequestDies(r) PROVE AskedFor'
  BY <1>b, RequestMoves, PlacesOf, AskedForRequests DEF RequestDies
<1>c. ASSUME NEW w \in Workers, Receive(w) PROVE AskedFor'
  <2>1. PICK m \in messages : Take(w, m)
    BY <1>c DEF Receive
  <2>2. (\A v \in Workers \ {w} : worker'[v] = worker[v]) /\ worker'[w].at = m.task
    BY <2>1 DEF Take, Typed, WorkersTyped, WorkerRecord
  <2>3. TaskPlaceAskedFor(m.task) /\ messages' \subseteq messages /\ UNCHANGED request
    BY <1>c, <2>1 DEF AskedFor, Take, Receive, requestVars
  <2> QED BY <2>2, <2>3, AskedForWorkers
<1>d. CASE UNCHANGED vars
  BY <1>d DEF vars, workerVars, requestVars, AskedFor, RequestPlaceAskedFor, TaskPlaceAskedFor
<1> QED BY <1>a, <1>b, <1>c, <1>d, AskedForDocumentRequest, AskedForTask DEF Next, Request

LEMMA AskedForInvariant == Spec => []AskedFor
<1>1. Typed /\ AskedFor /\ [Next]_vars => AskedFor'
  BY AskedForStep
<1>2. OwnInv => Typed
  BY DEF OwnInv
<1> QED BY <1>1, <1>2, AskedForInitially, OwnInvariant, PTL DEF Spec

\* As long as no user cuts segments, a document that is there keeps all of them: the
\* task that cleans up takes none, whatever becomes of the request that sent it.
THEOREM LiveSegmentsStay ==
    ASSUME "segment" \notin Operations
    PROVE  Spec => LiveKeepsSegments
<1> DEFINE Kept == \A d \in Documents : Exists(d) => Rows(d) \subseteq Rows(d)'
<1>1. OwnInv /\ AskedFor /\ [Next]_vars => [Kept]_vars
  <2> SUFFICES ASSUME OwnInv, AskedFor, [Next]_vars, NEW d \in Documents, Exists(d), NEW s \in Rows(d)
               PROVE  s \in Rows(d)'
    OBVIOUS
  <2>1. s \in Of(d) /\ s \in Segments /\ s[1] = d /\ segment[s].status \notin NoRow
    BY RowsOf, SegmentsOf DEF Rows
  <2>2. status[s[1]] # "gone"
    BY <2>1 DEF Exists, NoRow
  <2>3. ~(\E r \in Requests : CutRow(r) /\ Seg(r) = s)
    BY DEF AskedFor, RequestPlaceAskedFor, SegmentPlaces, CutRow, Goes
  <2> QED BY <2>1, <2>2, <2>3, RowsStay DEF RowStays, Rows
<1> QED BY <1>1, OwnInvariant, AskedForInvariant, PTL DEF Spec, LiveKeepsSegments

-----------------------------------------------------------------------------
(***************************************************************************)
(* What a build leaves in the stores.                                      *)
(***************************************************************************)
\* A document that is completed with all its segments.
IsWhole(d) ==
    \A s \in Rows(d) : /\ segment[s].status = "completed"
                       /\ s \in table
                       /\ vector[s] = Vector(TRUE, TRUE)

\* The rows of a document and what the stores have of them, at each place of its build.
BuildIsWhole(w) ==
    /\ worker[w].at \in {"addKeywords", "putKeywords", "store"} =>
          \A s \in Rows(Doc(w)) : segment[s].status \in {"indexing", "completed"}
    /\ worker[w].at = "settle" =>
          \/ \E s \in Rows(Doc(w)) : segment[s].status = "error"
          \/ \A s \in Rows(Doc(w)) : segment[s].status = "completed"
    /\ worker[w].at \in {"addKeywords", "putKeywords"} => \A s \in Rows(Doc(w)) : segment[s].status # "completed"
    /\ worker[w].at = "putKeywords" => tableLock = w /\ Rows(Doc(w)) \subseteq found
    /\ worker[w].at \in {"store", "settle"} => Rows(Doc(w)) \subseteq table
    /\ worker[w].at \in {"store", "settle"} =>
          \A s \in Rows(Doc(w)) : segment[s].status = "completed" => vector[s] = Vector(TRUE, TRUE)

CleanupAgrees(w) == worker[w].at \in Cleaning => worker[w].ids \subseteq Of(Doc(w))

\* The inductive invariant of builds: what a builder has done of its document is
\* there, and a clean-up has looked at its own document only.
WholeInv ==
    /\ \A w \in Workers : BuildIsWhole(w) /\ CleanupAgrees(w)
    /\ \A d \in Documents : status[d] = "completed" => IsWhole(d)

\* The stores keep what they have of document d.
StoresKeep(d) ==
    /\ \A s \in Of(d) : segment'[s] = segment[s] /\ vector'[s] = vector[s]
    /\ \A s \in Of(d) : s \in table => s \in table'

LEMMA KeptRows == ASSUME NEW d, StoresKeep(d) PROVE Rows(d)' = Rows(d)
<1>1. \A s \in Of(d) : segment'[s] = segment[s]
  BY DEF StoresKeep
<1>2. Of(d)' = Of(d)
  BY DEF Of
<1> QED BY <1>1, <1>2 DEF Rows

LEMMA KeptWhole == ASSUME NEW d, StoresKeep(d), IsWhole(d) PROVE IsWhole(d)'
<1>1. Rows(d)' = Rows(d) /\ Rows(d) \subseteq Of(d)
  BY KeptRows DEF Rows
<1> QED BY <1>1 DEF IsWhole, StoresKeep, Vector

LEMMA KeptBuild ==
    ASSUME NEW w \in Workers, BuildIsWhole(w), StoresKeep(Doc(w)), worker'[w] = worker[w],
           worker[w].at = "putKeywords" => UNCHANGED <<tableLock, found>>
    PROVE  BuildIsWhole(w)'
<1>0. Doc(w)' = Doc(w)
  BY DEF Doc
<1>1. Rows(Doc(w))' = Rows(Doc(w)) /\ Rows(Doc(w)) \subseteq Of(Doc(w))
  BY <1>0, KeptRows DEF Rows
<1>2. \A s \in Rows(Doc(w)) : /\ segment'[s] = segment[s] /\ vector'[s] = vector[s]
                              /\ s \in table => s \in table'
  BY <1>1 DEF StoresKeep
<1>3. Vector(TRUE, TRUE)' = Vector(TRUE, TRUE)
  BY DEF Vector
<1> QED BY <1>0, <1>1, <1>2, <1>3 DEF BuildIsWhole

OnlyBuilds == "toggle" \notin Operations /\ "segment" \notin Operations

\* Who leaves alone what the stores have of a document, if it is not deleted.
Bystander(d) == status[d] # "gone" => StoresKeep(d)

LEMMA StoresUnchanged ==
    ASSUME UNCHANGED <<segment, vector>>, table \subseteq table', NEW d
    PROVE  StoresKeep(d)
BY DEF StoresKeep

\* The lock of the keyword table is respected by everybody but its holder.
LEMMA LockIsKept ==
    ASSUME KnowledgeAssumption, NEW p \in Processes, NEW q \in Processes, tableLock = q, p # q,
           \/ \E ids : add_keyword_table_Read(p, ids) \/ delete_keyword_table_from_ids(ids)
           \/ add_keyword_table_Write(p) \/ LockExpires(p) \/ UNCHANGED tableVars
    PROVE  UNCHANGED <<tableLock, found>>
BY DEF KnowledgeAssumption, add_keyword_table_Read, delete_keyword_table_from_ids, add_keyword_table_Write,
       LockExpires, tableVars

\* The first of some segments of a document.
LEMMA FirstSegment ==
    ASSUME KnowledgeAssumption, NEW d \in Documents, NEW S, S \subseteq Of(d), S # {}
    PROVE  \E s \in S : \A t \in S : s[2] <= t[2]
<1> DEFINE T == {s[2] : s \in S}
<1>1. T \subseteq Nat /\ T # {}
  BY DEF Of, KnowledgeAssumption
<1>2. PICK n \in T : \A m \in T : <<m, n>> \notin OpToRel(<, Nat)
  BY <1>1, NatLessThanWellFounded, WFMin
<1>3. \A m \in T : ~(m < n)
  BY <1>1, <1>2 DEF OpToRel
<1>4. \A m \in T : n <= m
  <2> HIDE DEF T
  <2> QED BY <1>1, <1>3
<1> QED BY <1>4

LEMMA NoneLeft ==
    ASSUME KnowledgeAssumption, NEW d \in Documents, Next10(d) = {}
    PROVE  \A s \in Rows(d) : segment[s].status # "indexing"
<1> DEFINE S == {s \in Rows(d) : segment[s].status = "indexing"}
<1> SUFFICES ASSUME S # {} PROVE FALSE
  OBVIOUS
<1>1. S \subseteq Of(d)
  BY RowsOf
<1>2. PICK s \in S : \A t \in S : s[2] <= t[2]
  BY <1>1, FirstSegment
<1> QED BY <1>2 DEF Next10

-----------------------------------------------------------------------------
\* A step that touches neither the stores nor what builders remember.
LEMMA WholeStays ==
    ASSUME KnowledgeAssumption, Typed, WholeInv, UNCHANGED <<segment, vector, table>>,
           \A d \in Documents : status'[d] = "completed" => status[d] = "completed" \/ IsWhole(d),
           \A w \in Workers : \/ /\ worker'[w] = worker[w]
                                 /\ tableLock = w => UNCHANGED <<tableLock, found>>
                              \/ worker'[w].at \notin Building \union Cleaning
    PROVE  WholeInv'
<1>1. \A d : StoresKeep(d)
  BY StoresUnchanged
<1>2. ASSUME NEW w \in Workers PROVE BuildIsWhole(w)' /\ CleanupAgrees(w)'
  <2>1. CASE worker'[w] = worker[w] /\ (tableLock = w => UNCHANGED <<tableLock, found>>)
    <3>1. BuildIsWhole(w)'
      BY <1>1, <2>1, KeptBuild DEF WholeInv, BuildIsWhole
    <3>2. CleanupAgrees(w)'
      BY <2>1 DEF WholeInv, CleanupAgrees, Doc, Of
    <3> QED BY <3>1, <3>2
  <2>2. CASE worker'[w].at \notin Building \union Cleaning
    BY <2>2 DEF BuildIsWhole, CleanupAgrees, Building, Cleaning
  <2> QED BY <2>1, <2>2
<1>3. ASSUME NEW d \in Documents, status'[d] = "completed" PROVE IsWhole(d)'
  BY <1>1, <1>3, KeptWhole DEF WholeInv
<1> QED BY <1>2, <1>3 DEF WholeInv

\* A step of one worker, while the documents that others build, and those that are
\* completed, keep what they have.
LEMMA WholeWorker ==
    ASSUME KnowledgeAssumption, Typed, WholeInv, NEW w \in Workers,
           \A v \in Workers \ {w} : worker'[v] = worker[v],
           \A v \in Workers \ {w} : worker[v].at \in Building => StoresKeep(Doc(v)),
           \A d \in Documents : status'[d] = "completed" => status[d] = "completed" /\ StoresKeep(d),
           \A v \in Workers \ {w} : tableLock = v => UNCHANGED <<tableLock, found>>,
           BuildIsWhole(w)', CleanupAgrees(w)'
    PROVE  WholeInv'
<1>3. ASSUME NEW v \in Workers \ {w} PROVE BuildIsWhole(v)' /\ CleanupAgrees(v)'
  <2>1. CleanupAgrees(v)'
    BY <1>3 DEF WholeInv, CleanupAgrees, Doc, Of
  <2>2. CASE worker[v].at \in Building
    <3>4. worker[v].at = "putKeywords" => UNCHANGED <<tableLock, found>>
      BY DEF WholeInv, BuildIsWhole
    <3> QED BY <1>3, <2>1, <2>2, <3>4, KeptBuild DEF WholeInv
  <2>3. CASE worker[v].at \notin Building
    BY <1>3, <2>1, <2>3 DEF BuildIsWhole, Building
  <2> QED BY <2>2, <2>3
<1>4. ASSUME NEW d \in Documents, status'[d] = "completed" PROVE IsWhole(d)'
  BY <1>4, KeptWhole DEF WholeInv
<1> QED BY <1>3, <1>4 DEF WholeInv

\* Of whom a worker that changes the stores of its own document only need not be afraid.
LEMMA OthersAreKept ==
    ASSUME OwnInv, NEW w \in Workers, worker[w].at \in Building \union Cleaning,
           \A d \in Documents \ {Doc(w)} : StoresKeep(d)
    PROVE  /\ \A v \in Workers \ {w} : worker[v].at \in Building => StoresKeep(Doc(v))
           /\ \A d \in Documents : status[d] = "completed" => StoresKeep(d)
           /\ status[Doc(w)] # "completed" /\ Doc(w) \in Documents
<1>1. Typed /\ BuildsAgree /\ DeletesAgree
  BY DEF OwnInv
<1>2. Doc(w) \in Documents
  BY <1>1 DEF Typed, WorkersTyped, Doc, Building, Cleaning
<1>3. ASSUME NEW v \in Workers \ {w}, worker[v].at \in Building PROVE StoresKeep(Doc(v))
  <2>1. Doc(v) \in Documents /\ status[Doc(v)] # "gone"
    BY <1>1, <1>3, BuilderStatus DEF Final
  <2>2. Doc(v) # Doc(w)
    BY <1>1, <1>3, <2>1 DEF BuildsAgree, DeletesAgree
  <2> QED BY <2>1, <2>2
<1>4. status[Doc(w)] # "completed"
  BY <1>1, BuilderStatus DEF DeletesAgree, Final
<1> QED BY <1>2, <1>3, <1>4

LEMMA StatusOfRow == \A st, on : Row(st, on).status = st
BY DEF Row

LEMMA OwnStores ==
    ASSUME Typed, NEW d \in Documents, NEW ids \in SUBSET Of(d), table \subseteq table',
           UNCHANGED segment \/ \E row : SetSegments(ids, row),
           UNCHANGED vector \/ \E v : SetVectors(ids, v)
    PROVE  \A e \in Documents \ {d} : StoresKeep(e)
<1> SUFFICES ASSUME NEW e \in Documents \ {d}, NEW s \in Of(e)
             PROVE  segment'[s] = segment[s] /\ vector'[s] = vector[s]
  BY DEF StoresKeep
<1>1. s \in Segments /\ s \notin ids
  BY SegmentsOf
<1> QED BY <1>1 DEF SetSegments, SetVectors

LEMMA WholeBuild ==
    ASSUME KnowledgeAssumption, OwnInv, WholeInv, NEW w \in Workers, Build(w)
    PROVE  WholeInv'
<1> DEFINE d == Doc(w)
<1>1. Typed /\ BuildsAgree /\ DeletesAgree
  BY DEF OwnInv
<1>2. /\ worker \in [Workers -> WorkerRecord] /\ status \in [Documents -> DocumentStatus \union NoRow]
      /\ segment \in [Segments -> SegmentRecord] /\ vector \in [Segments -> VectorRecord \union {None}]
      /\ worker[w].at # "idle" => d \in Documents
      /\ w \in Processes /\ None \notin Processes
      /\ Workers \subseteq Processes
  BY <1>1 DEF Typed, WorkersTyped, DocumentsTyped, SegmentsTyped, VectorsTyped, Doc, KnowledgeAssumption
<1>3. ASSUME NEW from, NEW to, Step(w, from, to)
      PROVE  /\ \A v \in Workers \ {w} : worker'[v] = worker[v]
             /\ worker[w].at = from /\ worker'[w].at = to /\ Doc(w)' = d
  BY <1>2, <1>3 DEF Step, WorkerRecord, Doc
<1>4. ASSUME Done(w)
      PROVE  /\ \A v \in Workers \ {w} : worker'[v] = worker[v]
             /\ worker'[w].at = "idle"
  BY <1>2, <1>4 DEF Done, Free
<1>5. BuildIsWhole(w)
  BY DEF WholeInv
<1>6. Rows(d) \subseteq Of(d) /\ Vector(TRUE, TRUE)' = Vector(TRUE, TRUE) /\ (Doc(w)' = d => Of(d)' = Of(d))
  BY DEF Of, Rows, Vector
<1>7. d \in Documents => Of(d) \subseteq Segments
  BY SegmentsOf
<1>8. Next10(d) \subseteq Rows(d) /\ \A s \in Next10(d) : segment[s].status = "indexing"
  BY DEF Next10
<1>9. {"parse", "split", "index", "addKeywords", "putKeywords", "store", "settle"} = Building
  BY DEF Building
\* What is left to show of a step inside the build.
<1>10. ASSUME worker[w].at \in Building, \A v \in Workers \ {w} : worker'[v] = worker[v],
              worker'[w].at \in Building \union {"idle"},
              NEW ids \in SUBSET Of(d), UNCHANGED segment \/ \E row : SetSegments(ids, row),
              UNCHANGED vector \/ \E v : SetVectors(ids, v),
              \/ add_keyword_table_Read(w, Rows(d)) \/ add_keyword_table_Write(w) \/ UNCHANGED tableVars,
              UNCHANGED status \/ \E st : status' = [status EXCEPT ![d] = st] /\ st # "completed",
              BuildIsWhole(w)'
       PROVE  WholeInv'
  <2>1. d \in Documents /\ table \subseteq table'
    BY <1>2, <1>10 DEF Building, add_keyword_table_Read, add_keyword_table_Write, tableVars
  <2>2. \A e \in Documents \ {d} : StoresKeep(e)
    BY <1>1, <1>10, <2>1, OwnStores
  <2>3. /\ \A v \in Workers \ {w} : worker[v].at \in Building => StoresKeep(Doc(v))
        /\ \A e \in Documents : status[e] = "completed" => StoresKeep(e)
        /\ status[d] # "completed"
    BY <1>10, <2>2, OthersAreKept
  <2>4. \A e \in Documents : status'[e] = "completed" => status[e] = "completed"
    BY <1>2, <1>10, <2>1
  <2>5. \A v \in Workers \ {w} : tableLock = v => UNCHANGED <<tableLock, found>>
    BY <1>2, <1>10, LockIsKept
  <2>6. CleanupAgrees(w)'
    BY <1>10 DEF CleanupAgrees, Building, Cleaning
  <2> QED BY <1>1, <1>10, <2>3, <2>4, <2>5, <2>6, WholeWorker
<1>11. {} \in SUBSET Of(d)
  OBVIOUS
<1>a. CASE Claim(w) /\ status[d] = "waiting"
  <2>1. Step(w, "build", "parse") /\ status' = [status EXCEPT ![d] = "parsing"] /\ UNCHANGED <<segment, vector, tableVars>>
    BY <1>a DEF Claim, SetStatus
  <2>2. \A e : StoresKeep(e)
    BY <2>1, StoresUnchanged DEF tableVars
  <2>3. BuildIsWhole(w)' /\ CleanupAgrees(w)'
    <3>1. worker'[w].at = "parse"
      BY <1>3, <2>1
    <3> QED BY <3>1 DEF BuildIsWhole, CleanupAgrees, Cleaning
  <2>4. \A e \in Documents : status'[e] = "completed" => status[e] = "completed"
    BY <1>2, <2>1
  <2> QED BY <1>1, <1>3, <2>1, <2>2, <2>3, <2>4, WholeWorker DEF tableVars
<1>b. CASE Claim(w) /\ status[d] # "waiting"
  <2>1. UNCHANGED <<segment, vector, table, tableLock, found, status>> /\ Done(w)
    BY <1>b DEF Claim, documentVars, tableVars
  <2>2. worker'[w].at \notin Building \union Cleaning
    BY <1>4, <2>1 DEF Building, Cleaning
  <2> QED BY <1>1, <1>4, <2>1, <2>2, WholeStays
<1>c. CASE Parse(w) \/ SplitDone(w)
  <2>1. /\ worker[w].at \in Building /\ (\A v \in Workers \ {w} : worker'[v] = worker[v])
        /\ worker'[w].at \in {"split", "index"}
    BY <1>3, <1>c DEF Parse, SplitDone, Building
  <2>2. /\ UNCHANGED <<segment, vector, tableVars>>
        /\ \E st : status' = [status EXCEPT ![d] = st] /\ st # "completed"
    BY <1>c DEF Parse, SplitDone, SetStatus
  <2>3. BuildIsWhole(w)'
    BY <2>1 DEF BuildIsWhole
  <2>4. worker'[w].at \in Building \union {"idle"}
    BY <1>9, <2>1
  <2> QED BY <1>10, <1>11, <2>1, <2>2, <2>3, <2>4
<1>d. CASE SplitOne(w)
  <2>1. /\ worker[w].at = "split" /\ (\A v \in Workers \ {w} : worker'[v] = worker[v])
        /\ worker'[w].at = "split" /\ UNCHANGED <<status, vector, tableVars>>
    BY <1>3, <1>d DEF SplitOne, documentVars
  <2>2. PICK s \in Fresh(d) : SetSegments({s}, Row("waiting", FALSE))
    BY <1>d DEF SplitOne
  <2>3. {s} \in SUBSET Of(d)
    BY DEF Fresh
  <2>4. BuildIsWhole(w)'
    BY <2>1 DEF BuildIsWhole
  <2>5. worker[w].at \in Building /\ worker'[w].at \in Building \union {"idle"}
    BY <1>9, <2>1
  <2> QED BY <1>10, <2>1, <2>2, <2>3, <2>4, <2>5
<1>e. CASE Index(w)
  <2>1. /\ worker[w].at = "index" /\ (\A v \in Workers \ {w} : worker'[v] = worker[v]) /\ Doc(w)' = d
        /\ worker'[w].at = "addKeywords" /\ UNCHANGED <<status, vector, tableVars>>
        /\ SetSegments(Rows(d), Row("indexing", FALSE))
    BY <1>3, <1>e DEF Index, documentVars
  <2>2. d \in Documents
    BY <1>2, <2>1
  <2>3. \A s \in Of(d) : segment'[s].status = IF s \in Rows(d) THEN "indexing" ELSE segment[s].status
    BY <1>7, <2>1, <2>2, StatusOfRow DEF SetSegments
  <2>4. \A s \in Rows(d)' : segment'[s].status = "indexing"
    <3> SUFFICES ASSUME NEW s \in Rows(d)' PROVE segment'[s].status = "indexing"
      OBVIOUS
    <3>1. s \in Of(d) /\ segment'[s].status \notin NoRow
      BY <1>6, <2>1 DEF Rows
    <3>2. s \notin Rows(d) => segment[s].status \in NoRow
      BY <3>1 DEF Rows
    <3> QED BY <2>3, <3>1, <3>2
  <2>5. BuildIsWhole(w)'
    BY <2>1, <2>4 DEF BuildIsWhole
  <2>6. worker[w].at \in Building /\ worker'[w].at \in Building \union {"idle"}
    BY <1>9, <2>1
  <2> QED BY <1>6, <1>10, <2>1, <2>5, <2>6
<1>f. CASE AddKeywords(w)
  <2>1. /\ worker[w].at = "addKeywords" /\ (\A v \in Workers \ {w} : worker'[v] = worker[v]) /\ Doc(w)' = d
        /\ worker'[w].at = "putKeywords" /\ UNCHANGED <<status, segment, vector>>
        /\ add_keyword_table_Read(w, Rows(d))
    BY <1>3, <1>f DEF AddKeywords, documentVars
  <2>2. Rows(d)' = Rows(d)
    BY <1>6, <2>1 DEF Rows
  <2>3. tableLock' = w /\ Rows(d) \subseteq found'
    BY <2>1 DEF add_keyword_table_Read, Rows
  <2>4. BuildIsWhole(w)'
    BY <1>5, <2>1, <2>2, <2>3 DEF BuildIsWhole
  <2>5. worker[w].at \in Building /\ worker'[w].at \in Building \union {"idle"}
    BY <1>9, <2>1
  <2> QED BY <1>10, <1>11, <2>1, <2>4, <2>5
<1>g. CASE PutKeywords(w)
  <2>1. /\ worker[w].at = "putKeywords" /\ (\A v \in Workers \ {w} : worker'[v] = worker[v]) /\ Doc(w)' = d
        /\ worker'[w].at = "store" /\ UNCHANGED <<status, segment, vector>>
        /\ add_keyword_table_Write(w)
    BY <1>3, <1>g DEF PutKeywords, documentVars
  <2>2. Rows(d)' = Rows(d)
    BY <1>6, <2>1 DEF Rows
  <2>3. Rows(d) \subseteq table'
    BY <1>5, <2>1 DEF add_keyword_table_Write, BuildIsWhole
  <2>4. BuildIsWhole(w)'
    BY <1>5, <2>1, <2>2, <2>3 DEF BuildIsWhole
  <2>5. worker[w].at \in Building /\ worker'[w].at \in Building \union {"idle"}
    BY <1>9, <2>1
  <2> QED BY <1>10, <1>11, <2>1, <2>4, <2>5
<1>h. CASE Store(w)
  <2>1. /\ worker[w].at = "store" /\ (\A v \in Workers \ {w} : worker'[v] = worker[v]) /\ Doc(w)' = d
        /\ worker'[w].at = "store" /\ UNCHANGED <<status, tableVars>>
        /\ SetVectors(Next10(d), Vector(TRUE, TRUE)) /\ SetSegments(Next10(d), Row("completed", TRUE))
    BY <1>3, <1>h DEF Store, documentVars
  <2>2. d \in Documents
    BY <1>2, <2>1
  <2>3. \A s \in Of(d) : /\ segment'[s] = IF s \in Next10(d) THEN Row("completed", TRUE) ELSE segment[s]
                         /\ vector'[s] = IF s \in Next10(d) THEN Vector(TRUE, TRUE) ELSE vector[s]
    BY <1>7, <2>1, <2>2 DEF SetSegments, SetVectors
  <2>4. \A s \in Of(d) : segment'[s].status = IF s \in Next10(d) THEN "completed" ELSE segment[s].status
    <3>1. Row("completed", TRUE).status = "completed"
      BY StatusOfRow
    <3> SUFFICES ASSUME NEW s \in Of(d)
                 PROVE  segment'[s].status = IF s \in Next10(d) THEN "completed" ELSE segment[s].status
      OBVIOUS
    <3>2. CASE s \in Next10(d)
      <4>1. segment'[s] = Row("completed", TRUE)
        BY <2>3, <3>2
      <4> QED BY <3>1, <3>2, <4>1
    <3>3. CASE s \notin Next10(d)
      <4>1. segment'[s] = segment[s]
        BY <2>3, <3>3
      <4> QED BY <3>3, <4>1
    <3> QED BY <3>2, <3>3
  <2>5. Rows(d)' = Rows(d)
    <3>1. \A s \in Of(d) : segment'[s].status \notin NoRow <=> segment[s].status \notin NoRow
      BY <1>8, <2>4 DEF NoRow
    <3> QED BY <1>6, <2>1, <3>1 DEF Rows
  <2>7. BuildIsWhole(w)'
    <3>1. \A s \in Rows(d) : segment'[s].status \in {"indexing", "completed"}
      BY <1>5, <1>6, <2>1, <2>4 DEF BuildIsWhole
    <3>2. \A s \in Rows(d) : segment'[s].status = "completed" => vector'[s] = Vector(TRUE, TRUE)
      BY <1>5, <1>6, <2>1, <2>3, <2>4 DEF BuildIsWhole
    <3>3. Rows(d) \subseteq table'
      BY <1>5, <2>1 DEF BuildIsWhole, tableVars
    <3> QED BY <1>6, <2>1, <2>5, <3>1, <3>2, <3>3 DEF BuildIsWhole
  <2>6. worker[w].at \in Building /\ worker'[w].at \in Building \union {"idle"} /\ Next10(d) \in SUBSET Of(d)
    BY <1>6, <1>8, <1>9, <2>1
  <2> QED BY <1>10, <2>1, <2>6, <2>7
<1>i. CASE StoreFails(w)
  <2>1. /\ worker[w].at = "store" /\ (\A v \in Workers \ {w} : worker'[v] = worker[v]) /\ Doc(w)' = d
        /\ worker'[w].at = "settle" /\ UNCHANGED <<status, tableVars>>
        /\ SetVectors(Next10(d), Vector(TRUE, TRUE)) \/ UNCHANGED vector
        /\ SetSegments(Next10(d), Row("error", FALSE)) /\ Next10(d) # {}
    BY <1>3, <1>i DEF StoreFails, documentVars
  <2>2. d \in Documents
    BY <1>2, <2>1
  <2>3. \A s \in Of(d) : /\ segment'[s] = IF s \in Next10(d) THEN Row("error", FALSE) ELSE segment[s]
                         /\ s \notin Next10(d) => vector'[s] = vector[s]
    BY <1>7, <2>1, <2>2 DEF SetSegments, SetVectors
  <2>9. \A s \in Of(d) : segment'[s].status = IF s \in Next10(d) THEN "error" ELSE segment[s].status
    <3>1. Row("error", FALSE).status = "error"
      BY StatusOfRow
    <3> SUFFICES ASSUME NEW s \in Of(d)
                 PROVE  segment'[s].status = IF s \in Next10(d) THEN "error" ELSE segment[s].status
      OBVIOUS
    <3>2. CASE s \in Next10(d)
      <4>1. segment'[s] = Row("error", FALSE)
        BY <2>3, <3>2
      <4> QED BY <3>1, <3>2, <4>1
    <3>3. CASE s \notin Next10(d)
      <4>1. segment'[s] = segment[s]
        BY <2>3, <3>3
      <4> QED BY <3>3, <4>1
    <3> QED BY <3>2, <3>3
  <2>4. Rows(d)' = Rows(d)
    <3>1. \A s \in Of(d) : segment'[s].status \notin NoRow <=> segment[s].status \notin NoRow
      BY <1>8, <2>9 DEF NoRow
    <3> QED BY <1>6, <2>1, <3>1 DEF Rows
  <2>5. \E s \in Rows(d) : segment'[s].status = "error"
    BY <1>6, <1>8, <2>1, <2>9
  <2>6. \A s \in Rows(d) : segment'[s].status = "completed" => vector'[s] = Vector(TRUE, TRUE)
    BY <1>5, <1>6, <2>1, <2>3, <2>9 DEF BuildIsWhole
  <2>7. BuildIsWhole(w)'
    BY <1>5, <1>6, <2>1, <2>4, <2>5, <2>6 DEF BuildIsWhole, tableVars
  <2>8. worker[w].at \in Building /\ worker'[w].at \in Building \union {"idle"} /\ Next10(d) \in SUBSET Of(d)
    BY <1>6, <1>8, <1>9, <2>1
  <2> QED BY <1>10, <2>1, <2>7, <2>8
<1>j. CASE StoreDone(w)
  <2>1. /\ worker[w].at = "store" /\ (\A v \in Workers \ {w} : worker'[v] = worker[v]) /\ Doc(w)' = d
        /\ worker'[w].at = "settle" /\ UNCHANGED <<status, segment, vector, tableVars>> /\ Next10(d) = {}
    BY <1>3, <1>j DEF StoreDone, documentVars, storeVars
  <2>2. d \in Documents
    BY <1>2, <2>1
  <2>3. \A s \in Rows(d) : segment[s].status = "completed"
    BY <1>5, <2>1, <2>2, NoneLeft DEF BuildIsWhole
  <2>4. Rows(d)' = Rows(d)
    BY <1>6, <2>1 DEF Rows
  <2>5. BuildIsWhole(w)'
    BY <1>5, <1>6, <2>1, <2>3, <2>4 DEF BuildIsWhole, tableVars
  <2>6. worker[w].at \in Building /\ worker'[w].at \in Building \union {"idle"}
    BY <1>9, <2>1
  <2> QED BY <1>10, <1>11, <2>1, <2>5, <2>6
<1>k. CASE Settle(w)
  <2> DEFINE failed == \E s \in Rows(d) : segment[s].status = "error"
  <2>1. /\ worker[w].at = "settle" /\ Done(w) /\ UNCHANGED <<segment, vector, table, tableLock, found>>
        /\ status' = [status EXCEPT ![d] = IF failed THEN "error" ELSE "completed"]
    BY <1>k DEF Settle, tableVars
  <2>2. ~failed => IsWhole(d)
    BY <1>5, <2>1 DEF BuildIsWhole, IsWhole
  <2> HIDE DEF failed
  <2>3. \A e \in Documents : status'[e] = "completed" => status[e] = "completed" \/ IsWhole(e)
    BY <1>2, <2>1, <2>2
  <2>4. worker'[w].at \notin Building \union Cleaning
    BY <1>4, <2>1 DEF Building, Cleaning
  <2> QED BY <1>1, <1>4, <2>1, <2>3, <2>4, WholeStays
<1>l. CASE BuildFails(w)
  <2>1. /\ worker[w].at \in Building /\ Done(w) /\ UNCHANGED <<segment, vector, tableVars>>
        /\ status' = [status EXCEPT ![d] = "error"]
    BY <1>l DEF BuildFails, SetStatus, Building
  <2>2. BuildIsWhole(w)'
    BY <1>4, <2>1 DEF BuildIsWhole
  <2>3. \E st : status' = [status EXCEPT ![d] = st] /\ st # "completed"
    <3>1. status' = [status EXCEPT ![d] = "error"] /\ "error" # "completed"
      BY <2>1
    <3> QED BY <3>1
  <2>4. worker'[w].at \in Building \union {"idle"} /\ \A v \in Workers \ {w} : worker'[v] = worker[v]
    BY <1>4, <2>1
  <2> QED BY <1>10, <1>11, <2>1, <2>2, <2>3, <2>4
<1> QED BY <1>a, <1>b, <1>c, <1>d, <1>e, <1>f, <1>g, <1>h, <1>i, <1>j, <1>k, <1>l DEF Build

LEMMA WholeDelete ==
    ASSUME KnowledgeAssumption, OwnInv, WholeInv, NEW w \in Workers, Delete(w)
    PROVE  WholeInv'
<1> DEFINE d == Doc(w)
<1>1. Typed /\ BuildsAgree /\ DeletesAgree
  BY DEF OwnInv
<1>2. /\ worker \in [Workers -> WorkerRecord]
      /\ worker[w].at # "idle" => d \in Documents
      /\ w \in Processes /\ None \notin Processes
      /\ Workers \subseteq Processes
  BY <1>1 DEF Typed, WorkersTyped, Doc, KnowledgeAssumption
<1>3. ASSUME NEW from, NEW to, Step(w, from, to)
      PROVE  /\ \A v \in Workers \ {w} : worker'[v] = worker[v]
             /\ worker[w].at = from /\ worker'[w].at = to /\ Doc(w)' = d /\ worker'[w].ids = worker[w].ids
  BY <1>2, <1>3 DEF Step, WorkerRecord, Doc
<1>4. ASSUME Done(w)
      PROVE  (\A v \in Workers \ {w} : worker'[v] = worker[v]) /\ worker'[w].at = "idle"
  BY <1>2, <1>4 DEF Done, Free
<1>5. "idle" \notin Building \union Cleaning /\ {"dropVectors", "dropSegments", "dropKeywords"} = Cleaning
  BY DEF Building, Cleaning
<1>6. UNCHANGED status
  BY DEF Delete, Look, DropVectors, DropSegments, DropKeywords, DropFails, documentVars, storeVars
<1>7. ASSUME UNCHANGED storeVars, Done(w) PROVE WholeInv'
  BY <1>1, <1>4, <1>5, <1>6, <1>7, WholeStays DEF storeVars, tableVars
<1>8. ASSUME worker[w].at \in Cleaning, \A v \in Workers \ {w} : worker'[v] = worker[v],
             \A e \in Documents \ {d} : StoresKeep(e),
             UNCHANGED tableVars \/ delete_keyword_table_from_ids(worker[w].ids),
             BuildIsWhole(w)', CleanupAgrees(w)'
      PROVE  WholeInv'
  <2>1. /\ \A v \in Workers \ {w} : worker[v].at \in Building => StoresKeep(Doc(v))
        /\ \A e \in Documents : status[e] = "completed" => StoresKeep(e)
    BY <1>8, OthersAreKept
  <2>2. \A v \in Workers \ {w} : tableLock = v => UNCHANGED <<tableLock, found>>
    BY <1>2, <1>8, LockIsKept
  <2> QED BY <1>1, <1>6, <1>8, <2>1, <2>2, WholeWorker
<1>9. ASSUME NEW to \in {"dropSegments", "dropKeywords"}, NEW from \in Cleaning, Step(w, from, to)
      PROVE  BuildIsWhole(w)' /\ CleanupAgrees(w)'
  <2>1. worker'[w].at = to /\ Doc(w)' = d /\ worker'[w].ids \subseteq Of(d)
    BY <1>3, <1>9 DEF WholeInv, CleanupAgrees
  <2> QED BY <2>1 DEF BuildIsWhole, CleanupAgrees, Of
<1>a. CASE Look(w)
  <2>1. CASE Exists(d)
    BY <1>7, <1>a, <2>1 DEF Look, Retry
  <2>2. CASE ~Exists(d)
    <3>1. worker' = [worker EXCEPT ![w].at = "dropVectors", ![w].ids = Rows(d)] /\ UNCHANGED storeVars
      BY <1>a, <2>2 DEF Look
    <3>2. /\ \A v \in Workers \ {w} : worker'[v] = worker[v]
          /\ worker'[w].at = "dropVectors" /\ worker'[w].ids = Rows(d) /\ Doc(w)' = d
      BY <1>2, <3>1 DEF WorkerRecord, Doc
    <3>3. CleanupAgrees(w)' /\ BuildIsWhole(w)'
      BY <3>2 DEF CleanupAgrees, BuildIsWhole, Rows, Of
    <3>4. \A e : StoresKeep(e)
      BY <3>1, StoresUnchanged DEF storeVars, tableVars
    <3> QED BY <1>1, <1>6, <3>1, <3>2, <3>3, <3>4, WholeWorker DEF storeVars, tableVars
  <2> QED BY <2>1, <2>2
<1>b. CASE DropVectors(w)
  <2>1. Step(w, "dropVectors", "dropSegments") /\ SetVectors(Of(d), None) /\ UNCHANGED <<segment, tableVars>>
    BY <1>b DEF DropVectors
  <2>2. worker[w].at \in Cleaning /\ d \in Documents
    BY <1>2, <1>5, <2>1 DEF Step
  <2>3. Of(d) \in SUBSET Of(d) /\ table \subseteq table'
    BY <2>1 DEF tableVars
  <2>4. \A e \in Documents \ {d} : StoresKeep(e)
    BY <1>1, <2>1, <2>2, <2>3, OwnStores
  <2>5. BuildIsWhole(w)' /\ CleanupAgrees(w)'
    BY <1>5, <1>9, <2>1
  <2> QED BY <1>3, <1>8, <2>1, <2>2, <2>4, <2>5
<1>c. CASE DropSegments(w)
  <2>1. /\ Step(w, "dropSegments", "dropKeywords") /\ SetSegments(Rows(d), Row("gone", FALSE))
        /\ UNCHANGED <<vector, tableVars>>
    BY <1>c DEF DropSegments
  <2>2. worker[w].at \in Cleaning /\ d \in Documents
    BY <1>2, <1>5, <2>1 DEF Step
  <2>3. Rows(d) \in SUBSET Of(d) /\ table \subseteq table'
    BY <2>1 DEF tableVars, Rows
  <2>4. \A e \in Documents \ {d} : StoresKeep(e)
    BY <1>1, <2>1, <2>2, <2>3, OwnStores
  <2>5. BuildIsWhole(w)' /\ CleanupAgrees(w)'
    BY <1>5, <1>9, <2>1
  <2> QED BY <1>3, <1>8, <2>1, <2>2, <2>4, <2>5
<1>d. CASE DropKeywords(w)
  <2>1. /\ worker[w].at = "dropKeywords" /\ Done(w) /\ UNCHANGED <<segment, vector>>
        /\ delete_keyword_table_from_ids(worker[w].ids)
    BY <1>d DEF DropKeywords
  <2>2. worker[w].ids \subseteq Of(d) /\ worker[w].at \in Cleaning /\ d \in Documents
    BY <1>2, <1>5, <2>1 DEF WholeInv, CleanupAgrees
  <2>3. ASSUME NEW e \in Documents \ {d} PROVE StoresKeep(e)
    <3>1. \A s \in Of(e) : s \notin worker[w].ids
      BY <2>2, SegmentsOf
    <3> QED BY <2>1, <3>1 DEF StoresKeep, delete_keyword_table_from_ids
  <2>4. BuildIsWhole(w)' /\ CleanupAgrees(w)'
    BY <1>4, <2>1 DEF BuildIsWhole, CleanupAgrees, Cleaning
  <2> QED BY <1>4, <1>8, <2>1, <2>2, <2>3, <2>4
<1>e. CASE DropFails(w)
  BY <1>7, <1>e DEF DropFails, Retry
<1> QED BY <1>a, <1>b, <1>c, <1>d, <1>e DEF Delete

LEMMA WholeInitially == KnowledgeAssumption /\ Init => WholeInv
<1> SUFFICES ASSUME KnowledgeAssumption, Init PROVE WholeInv
  OBVIOUS
<1>1. PICK n \in [Indexed -> 1..MaxSegments] :
        LET built == {s \in Segments : s[1] \in Indexed /\ s[2] <= n[s[1]]}
        IN /\ status = [d \in Documents |-> IF d \in Indexed THEN "completed" ELSE "unborn"]
           /\ segment = [s \in Segments |-> IF s \in built THEN Row("completed", TRUE)
                                                            ELSE Row("unborn", FALSE)]
           /\ vector = [s \in Segments |-> IF s \in built THEN Vector(TRUE, TRUE) ELSE None]
           /\ table = built
  BY DEF Init, StoreInit
<1> DEFINE built == {s \in Segments : s[1] \in Indexed /\ s[2] <= n[s[1]]}
<1>2. /\ segment = [s \in Segments |-> IF s \in built THEN Row("completed", TRUE) ELSE Row("unborn", FALSE)]
      /\ vector = [s \in Segments |-> IF s \in built THEN Vector(TRUE, TRUE) ELSE None]
      /\ table = built
  BY <1>1
<1> HIDE DEF built
<1>3. ASSUME NEW d \in Documents, NEW s \in Rows(d)
      PROVE  segment[s].status = "completed" /\ s \in table /\ vector[s] = Vector(TRUE, TRUE)
  <2>1. s \in Segments /\ segment[s].status \notin NoRow
    BY RowsOf, SegmentsOf DEF Rows
  <2>2. s \in built
    BY <1>2, <2>1, StatusOfRow DEF NoRow
  <2> QED BY <1>2, <2>1, <2>2, StatusOfRow
<1>4. \A w \in Workers : worker[w].at = "idle"
  BY DEF Init, WorkersInit, Free
<1>5. \A w \in Workers : BuildIsWhole(w) /\ CleanupAgrees(w)
  BY <1>4 DEF BuildIsWhole, CleanupAgrees, Cleaning
<1> QED BY <1>3, <1>5 DEF WholeInv, IsWhole

LEMMA WholeStep ==
    ASSUME KnowledgeAssumption, OnlyBuilds, OwnInv, AskedFor, WholeInv, [Next]_vars
    PROVE  WholeInv'
<1>1. Typed
  BY DEF OwnInv
<1>2. Workers \subseteq Processes /\ Requests \subseteq Processes /\ Workers \intersect Requests = {}
  BY DEF KnowledgeAssumption
<1>a. ASSUME NEW r \in Requests, DocumentRequest(r) PROVE WholeInv'
  <2>1. request[r].at \notin ToggleRequests
    BY DEF AskedFor, RequestPlaceAskedFor, OnlyBuilds
  <2>2. UNCHANGED <<segment, vector, table, tableLock, found, worker>>
    BY <1>a DEF DocumentRequest, Create, Remove, SwitchDocument, CreateDocument, Dispatch, DispatchRaises, MarkUndispatched,
       AskDelete, SendDelete, SendDeleteRaises, DeleteRow, AskToggle, LookLock, TakeLock, Commit, SendToggle,
       SendToggleRaises, UndoToggle, Send, SendRaises, storeVars, tableVars, workerVars
  <2>3. CASE \E d \in Documents : CreateDocument(r, d)
    <3>1. PICK d \in Documents : status' = [status EXCEPT ![d] = "waiting"]
      BY <2>3 DEF CreateDocument, SetStatus
    <3> QED BY <1>1, <2>2, <3>1, WholeStays DEF Typed, DocumentsTyped
  <2>4. CASE MarkUndispatched(r)
    <3>1. UNCHANGED status \/ status' = [status EXCEPT ![ReqDoc(r)] = "error"]
      BY <2>4 DEF MarkUndispatched, SetStatus, documentVars
    <3> QED BY <1>1, <2>2, <3>1, WholeStays DEF Typed, DocumentsTyped
  <2>5. CASE DeleteRow(r)
    <3>1. status' = [status EXCEPT ![ReqDoc(r)] = "gone"]
      BY <2>5 DEF DeleteRow
    <3> QED BY <1>1, <2>2, <3>1, WholeStays DEF Typed, DocumentsTyped
  <2>6. ASSUME ~(\E d \in Documents : CreateDocument(r, d)), ~MarkUndispatched(r), ~DeleteRow(r)
        PROVE  UNCHANGED status
    BY <1>a, <2>6 DEF DocumentRequest, Create, Remove, SwitchDocument, Dispatch, DispatchRaises, AskDelete, SendDelete,
       SendDeleteRaises, AskToggle, LookLock, TakeLock, Commit, SendToggle, SendToggleRaises, UndoToggle, Send, SendRaises,
       SetEnabled, storeVars, documentVars
  <2> QED BY <1>1, <2>2, <2>3, <2>4, <2>5, <2>6, WholeStays
<1>b. ASSUME NEW r \in Requests, SegmentRequest(r) PROVE WholeInv'
  BY <1>1, <1>b, SegmentRequestAsked DEF AskedFor, RequestPlaceAskedFor, OnlyBuilds
<1>c. ASSUME NEW r \in Requests, RequestDies(r) PROVE WholeInv'
  <2>1. UNCHANGED <<segment, vector, table, status, worker>> /\ LockExpires(r)
    BY <1>c DEF RequestDies, LockExpires, documentVars
  <2>2. \A w \in Workers : tableLock = w => UNCHANGED <<tableLock, found>>
    BY <1>2, <2>1, LockIsKept
  <2> QED BY <1>1, <2>1, <2>2, WholeStays
<1>d. ASSUME NEW w \in Workers, Receive(w) PROVE WholeInv'
  <2>1. PICK m \in messages : Take(w, m)
    BY <1>d DEF Receive
  <2>2. (\A v \in Workers \ {w} : worker'[v] = worker[v]) /\ worker'[w].at = m.task
    BY <1>1, <2>1 DEF Take, Typed, WorkersTyped, WorkerRecord
  <2>3. m.task \notin Building \union Cleaning
    BY <1>1 DEF Typed, QueueTyped, Message, Building, Cleaning
  <2>4. UNCHANGED <<segment, vector, table, tableLock, found, status>>
    BY <2>1 DEF Take, storeVars, documentVars, tableVars
  <2> QED BY <1>1, <2>2, <2>3, <2>4, WholeStays
<1>e. ASSUME NEW w \in Workers, WorkOn(w) PROVE WholeInv'
  <2>1. worker[w].at \notin ToggleTasks
    BY DEF AskedFor, TaskPlaceAskedFor, OnlyBuilds
  <2>2. ~Toggle(w)
    BY <2>1 DEF Toggle, ReadSegments, Mark, MarkFails, Sync, PutToggled, SyncFails, Unlock, Step, ToggleTasks
  <2> QED BY <1>e, <2>2, WholeBuild, WholeDelete DEF WorkOn, Work
<1>f. ASSUME NEW w \in Workers, Dies(w) PROVE WholeInv'
  <2>1. UNCHANGED <<segment, vector, table, status>> /\ LockExpires(w) /\ Done(w)
    BY <1>f DEF Dies, WorkerDies, LockExpires, documentVars
  <2>2. (\A v \in Workers \ {w} : worker'[v] = worker[v]) /\ worker'[w].at = "idle"
    BY <1>1, <2>1 DEF Done, Free, Typed, WorkersTyped
  <2>3. \A v \in Workers \ {w} : tableLock = v => UNCHANGED <<tableLock, found>>
    BY <1>2, <2>1, LockIsKept
  <2>4. "idle" \notin Building \union Cleaning
    BY DEF Building, Cleaning
  <2> QED BY <1>1, <2>1, <2>2, <2>3, <2>4, WholeStays
<1>g. CASE UNCHANGED vars
  BY <1>1, <1>g, WholeStays DEF vars, storeVars, documentVars, tableVars, workerVars
<1> QED BY <1>a, <1>b, <1>c, <1>d, <1>e, <1>f, <1>g DEF Next, Request

\* As long as users only submit and delete documents, a completed document is whole:
\* the segments it has are completed, in the table of keywords and in the vector store,
\* although any batch may have failed, and workers may have died or been sent twice.
THEOREM BuildsAreWhole ==
    ASSUME "toggle" \notin Operations, "segment" \notin Operations
    PROVE  Spec => []CompletedIsWhole
<1>1. Init => WholeInv
  BY WholeInitially, KnowledgeAssumption
<1>2. OwnInv /\ AskedFor /\ WholeInv /\ [Next]_vars => WholeInv'
  BY WholeStep, KnowledgeAssumption DEF OnlyBuilds
<1>3. WholeInv => CompletedIsWhole
  BY DEF WholeInv, IsWhole, CompletedIsWhole
<1> QED BY <1>1, <1>2, <1>3, OwnInvariant, AskedForInvariant, PTL DEF Spec

-----------------------------------------------------------------------------
(***************************************************************************)
(* The refinement of DocumentContract.  What the stores, the queue and the *)
(* workers come to for the user of a document is told by its status and    *)
(* its rows alone: both searches find all the rows of a document that is   *)
(* completed, and none of another.                                         *)
(***************************************************************************)
InService ==
    /\ \A d \in Documents : status[d] = "completed" => enabled[d]
    /\ \A s \in Segments : segment[s].status = "completed" => segment[s].enabled

Found(d) == IF status[d] = "completed" THEN Rows(d) ELSE {}

LEMMA HitsOfDocument ==
    ASSUME WholeInv, InService, NEW d \in Documents
    PROVE  FullTextHits \intersect Of(d) = Found(d) /\ SemanticHits \intersect Of(d) = Found(d)
<1>1. \A s \in Of(d) : s \in Segments /\ s[1] = d
  BY SegmentsOf
<1>2. status[d] = "completed" => enabled[d] /\ IsWhole(d)
  BY DEF WholeInv, InService
<1>3. ASSUME NEW s \in Of(d) PROVE Visible(s) <=> status[d] = "completed" /\ s \in Rows(d)
  <2>1. s[1] = d /\ s \in Segments
    BY <1>1
  <2>2. CASE status[d] = "completed" /\ s \in Rows(d)
    BY <1>2, <2>1, <2>2 DEF Visible, IsWhole, InService
  <2>3. CASE ~(status[d] = "completed" /\ s \in Rows(d))
    BY <2>1, <2>3 DEF Visible, Rows, NoRow
  <2> QED BY <2>2, <2>3
<1>4. Rows(d) \subseteq Of(d)
  BY RowsOf
<1>5. status[d] = "completed" => \A s \in Rows(d) : s \in table /\ vector[s] = Vector(TRUE, TRUE)
  BY <1>2 DEF IsWhole
<1>6. FullTextHits \intersect Of(d) = Found(d)
  BY <1>3, <1>4, <1>5 DEF FullTextHits, Found
<1>7. SemanticHits \intersect Of(d) = Found(d)
  BY <1>1, <1>3, <1>4, <1>5 DEF SemanticHits, Found
<1> QED BY <1>6, <1>7

InBuild == {"waiting", "parsing", "splitting", "indexing"}

\* A step leaves the rows of a document as they are; it touches no other document;
\* it takes this one along its life.
SameRows(d) == Rows(d)' = Rows(d)
Elsewhere(d) == \A e \in Documents \ {d} : status'[e] = status[e] /\ SameRows(e)
AsContracted(d) ==
    \/ status[d] = "unborn" /\ status'[d] = "waiting" /\ SameRows(d)
    \/ status[d] \in InBuild /\ status'[d] \in InBuild /\ Rows(d) \subseteq Rows(d)'
    \/ status[d] \in InBuild /\ status'[d] \in {"completed", "error"} /\ SameRows(d)
    \/ status[d] \in {"completed", "error"} /\ status'[d] = "gone" /\ SameRows(d)
    \/ status[d] = "gone" /\ status'[d] = "gone" /\ Rows(d)' = {}
DocumentGoes(d) == Elsewhere(d) /\ AsContracted(d)
AllStay == \A d \in Documents : status'[d] = status[d] /\ SameRows(d)

LEMMA SegmentsSet ==
    ASSUME NEW d \in Documents, NEW ids \in SUBSET Of(d), NEW row, SetSegments(ids, row)
    PROVE  /\ \A e \in Documents \ {d} : SameRows(e)
           /\ row.status \notin NoRow => Rows(d)' = Rows(d) \union ids
           /\ row.status \in NoRow => Rows(d)' = Rows(d) \ ids
<1>1. \A e \in Documents : Of(e) \subseteq Segments /\ Of(e)' = Of(e)
  BY SegmentsOf DEF Of
<1>2. \A s \in Segments : segment'[s] = IF s \in ids THEN row ELSE segment[s]
  BY DEF SetSegments
<1>3. \A e \in Documents \ {d} : Of(e) \intersect ids = {}
  BY SegmentsOf
<1>4. ASSUME NEW e \in Documents \ {d} PROVE SameRows(e)
  BY <1>1, <1>2, <1>3 DEF Rows, SameRows
<1>5. row.status \notin NoRow => Rows(d)' = Rows(d) \union ids
  BY <1>1, <1>2 DEF Rows
<1>6. row.status \in NoRow => Rows(d)' = Rows(d) \ ids
  BY <1>1, <1>2 DEF Rows
<1> QED BY <1>4, <1>5, <1>6

LEMMA RowsUnchanged == ASSUME UNCHANGED segment, NEW d PROVE SameRows(d)
BY DEF SameRows, Rows, Of

\* A step that moves the status, or writes the segments, of one document.
LEMMA StatusGoes ==
    ASSUME Typed, NEW d \in Documents, NEW st, status' = [status EXCEPT ![d] = st], UNCHANGED segment
    PROVE  Elsewhere(d) /\ status'[d] = st /\ SameRows(d)
BY RowsUnchanged DEF Typed, DocumentsTyped, Elsewhere

LEMMA SegmentsGo ==
    ASSUME Typed, NEW d \in Documents, NEW ids \in SUBSET Of(d), NEW st \in SegmentStatus, NEW on,
           SetSegments(ids, Row(st, on)), UNCHANGED status
    PROVE  Elsewhere(d) /\ Rows(d) \subseteq Rows(d)'
<1>1. Row(st, on).status \notin NoRow
  BY StatusOfRow DEF SegmentStatus, NoRow
<1> QED BY <1>1, SegmentsSet DEF Elsewhere

LEMMA MovesInBuild ==
    ASSUME KnowledgeAssumption, OwnInv, NEW w \in Workers, Build(w)
    PROVE  AllStay \/ \E d \in Documents : DocumentGoes(d)
<1>0. PICK d : d = Doc(w)
  OBVIOUS
<1>1. Typed /\ BuildsAgree
  BY DEF OwnInv
<1>2. worker[w].at # "idle" => d \in Documents
  BY <1>0, <1>1 DEF Typed, WorkersTyped, Doc
<1>3. worker[w].at \in Building => d \in Documents /\ status[d] \in InBuild
  <2>1. d \in Documents => status[d] \in DocumentStatus \union NoRow
    BY <1>1 DEF Typed, DocumentsTyped
  <2> QED BY <1>0, <1>1, <2>1, BuilderStatus DEF Final, InBuild, DocumentStatus, NoRow
<1>4. Rows(d) \subseteq Of(d) /\ Fresh(d) \subseteq Of(d) /\ Next10(d) \subseteq Of(d)
  BY DEF Rows, Fresh, Next10
<1>5. {"waiting", "indexing", "completed", "error"} \subseteq SegmentStatus
  BY DEF SegmentStatus
<1>6. InBuild = {"waiting", "parsing", "splitting", "indexing"}
  BY DEF InBuild
<1>a. CASE UNCHANGED <<status, segment>>
  BY <1>a, RowsUnchanged DEF AllStay
<1>b. CASE \E st \in InBuild \union {"completed", "error"} :
             d \in Documents /\ status[d] \in InBuild /\ status' = [status EXCEPT ![d] = st] /\ UNCHANGED segment
  <2>1. PICK st \in InBuild \union {"completed", "error"} :
             d \in Documents /\ status[d] \in InBuild /\ status' = [status EXCEPT ![d] = st] /\ UNCHANGED segment
    BY <1>b
  <2>2. Elsewhere(d) /\ status'[d] = st /\ SameRows(d)
    BY <1>1, <2>1, StatusGoes
  <2>3. AsContracted(d)
    <3>1. Rows(d) \subseteq Rows(d)'
      BY <2>2 DEF SameRows
    <3> QED BY <2>1, <2>2, <3>1 DEF AsContracted
  <2> QED BY <2>1, <2>2, <2>3 DEF DocumentGoes
<1>c. CASE /\ worker[w].at \in Building /\ UNCHANGED status
           /\ \E ids \in SUBSET Of(d), st \in SegmentStatus, on \in BOOLEAN : SetSegments(ids, Row(st, on))
  <2>1. d \in Documents /\ status[d] \in InBuild /\ status'[d] \in InBuild
    BY <1>3, <1>c
  <2>2. PICK ids \in SUBSET Of(d), st \in SegmentStatus, on \in BOOLEAN : SetSegments(ids, Row(st, on))
    BY <1>c
  <2>3. Elsewhere(d) /\ Rows(d) \subseteq Rows(d)'
    BY <1>1, <1>c, <2>1, <2>2, SegmentsGo
  <2>4. AsContracted(d)
    BY <2>1, <2>3 DEF AsContracted
  <2> QED BY <2>1, <2>3, <2>4 DEF DocumentGoes
<1>d. CASE Claim(w)
  <2>1. CASE status[d] = "waiting"
    <3>1. d \in Documents /\ status' = [status EXCEPT ![d] = "parsing"] /\ UNCHANGED segment
      BY <1>0, <1>2, <1>d, <2>1 DEF Claim, SetStatus
    <3> QED BY <1>6, <1>b, <2>1, <3>1
  <2>2. CASE status[d] # "waiting"
    BY <1>0, <1>a, <1>d, <2>2 DEF Claim, documentVars
  <2> QED BY <2>1, <2>2
<1>e. CASE Parse(w) \/ SplitDone(w) \/ BuildFails(w)
  <2>1. worker[w].at \in Building /\ UNCHANGED segment
    BY <1>0, <1>e DEF Parse, SplitDone, BuildFails, Step, Building
  <2>2. \E st \in InBuild \union {"completed", "error"} : status' = [status EXCEPT ![d] = st]
    BY <1>0, <1>6, <1>e DEF Parse, SplitDone, BuildFails, SetStatus
  <2> QED BY <1>3, <1>b, <2>1, <2>2
<1>f. CASE Settle(w)
  <2> DEFINE st == IF \E s \in Rows(d) : segment[s].status = "error" THEN "error" ELSE "completed"
  <2>1. worker[w].at \in Building /\ UNCHANGED segment /\ status' = [status EXCEPT ![d] = st]
    BY <1>0, <1>f DEF Settle, Building
  <2>2. st \in InBuild \union {"completed", "error"}
    OBVIOUS
  <2> HIDE DEF st
  <2> QED BY <1>3, <1>b, <2>1, <2>2
<1>g. CASE SplitOne(w)
  <2>1. worker[w].at \in Building /\ UNCHANGED status
    BY <1>0, <1>g DEF SplitOne, Step, Building, documentVars
  <2>2. PICK s \in Fresh(d) : SetSegments({s}, Row("waiting", FALSE))
    BY <1>0, <1>g DEF SplitOne
  <2>3. {s} \in SUBSET Of(d)
    BY <1>4, <2>2
  <2> QED BY <1>5, <1>c, <2>1, <2>2, <2>3
<1>h. CASE Index(w)
  <2>1. worker[w].at \in Building /\ UNCHANGED status /\ SetSegments(Rows(d), Row("indexing", FALSE))
    BY <1>0, <1>h DEF Index, Step, Building, documentVars
  <2> QED BY <1>4, <1>5, <1>c, <2>1
<1>i. CASE Store(w) \/ StoreFails(w)
  <2>1. worker[w].at \in Building /\ UNCHANGED status
    BY <1>0, <1>i DEF Store, StoreFails, Step, Building, documentVars
  <2>2. SetSegments(Next10(d), Row("completed", TRUE)) \/ SetSegments(Next10(d), Row("error", FALSE))
    BY <1>0, <1>i DEF Store, StoreFails
  <2> QED BY <1>4, <1>5, <1>c, <2>1, <2>2
<1>j. CASE AddKeywords(w) \/ PutKeywords(w) \/ StoreDone(w)
  BY <1>0, <1>a, <1>j DEF AddKeywords, PutKeywords, StoreDone, storeVars, documentVars
<1> QED BY <1>d, <1>e, <1>f, <1>g, <1>h, <1>i, <1>j DEF Build

LEMMA MovesInDelete ==
    ASSUME OwnInv, NEW w \in Workers, Delete(w)
    PROVE  AllStay \/ \E d \in Documents : DocumentGoes(d)
<1>0. PICK d : d = Doc(w)
  OBVIOUS
<1>1. Typed /\ DeletesAgree
  BY DEF OwnInv
<1>a. CASE DropSegments(w)
  <2>1. d \in Documents /\ status[d] = "gone"
    BY <1>0, <1>1, <1>a DEF DropSegments, Step, DeletesAgree, Cleaning, Typed, WorkersTyped, Doc
  <2>2. Rows(d) \in SUBSET Of(d) /\ Row("gone", FALSE).status \in NoRow
    BY StatusOfRow DEF Rows, NoRow
  <2>3. UNCHANGED status /\ SetSegments(Rows(d), Row("gone", FALSE))
    BY <1>0, <1>a DEF DropSegments, documentVars
  <2>4. PICK ids, row : ids = Rows(d) /\ row = Row("gone", FALSE)
    OBVIOUS
  <2>5. ids \in SUBSET Of(d) /\ row.status \in NoRow /\ SetSegments(ids, row)
    BY <2>2, <2>3, <2>4
  <2>6. (\A e \in Documents \ {d} : SameRows(e)) /\ Rows(d)' = Rows(d) \ ids
    BY <2>1, <2>5, SegmentsSet
  <2>7. Elsewhere(d) /\ AsContracted(d)
    BY <2>1, <2>3, <2>4, <2>6 DEF Elsewhere, AsContracted
  <2> QED BY <2>1, <2>7 DEF DocumentGoes
<1>b. CASE UNCHANGED <<status, segment>>
  BY <1>b, RowsUnchanged DEF AllStay
<1> QED BY <1>a, <1>b DEF Delete, Look, DropVectors, DropKeywords, DropFails, storeVars, documentVars

LEMMA MovesInRequest ==
    ASSUME OwnInv, OnlyBuilds, AskedFor, NEW r \in Requests, DocumentRequest(r)
    PROVE  AllStay \/ \E d \in Documents : DocumentGoes(d)
<1>1. Typed /\ DeletesAgree
  BY DEF OwnInv
<1>2. UNCHANGED segment
  BY DEF DocumentRequest, Create, Remove, SwitchDocument, CreateDocument, Dispatch, DispatchRaises, MarkUndispatched,
     AskDelete, SendDelete, SendDeleteRaises, DeleteRow, AskToggle, LookLock, TakeLock, Commit, SendToggle,
     SendToggleRaises, UndoToggle, storeVars
<1>3. ReqDoc(r) \in Documents \/ request[r].at = "idle"
  BY <1>1, RequestDocument
<1>4. ASSUME NEW d \in Documents, NEW st, status' = [status EXCEPT ![d] = st],
             \/ status[d] = "unborn" /\ st = "waiting"
             \/ status[d] = "waiting" /\ st = "error"
             \/ status[d] \in {"completed", "error"} /\ st = "gone"
      PROVE  \E e \in Documents : DocumentGoes(e)
  <2>1. Elsewhere(d) /\ status'[d] = st /\ SameRows(d)
    BY <1>1, <1>2, <1>4, StatusGoes
  <2>2. "waiting" \in InBuild
    BY DEF InBuild
  <2>3. AsContracted(d)
    BY <1>4, <2>1, <2>2 DEF AsContracted
  <2> QED BY <2>1, <2>3 DEF DocumentGoes
<1>a. CASE \E d \in Documents : CreateDocument(r, d)
  <2>1. PICK d \in Documents : status[d] = "unborn" /\ status' = [status EXCEPT ![d] = "waiting"]
    BY <1>a DEF CreateDocument, SetStatus
  <2> QED BY <1>4, <2>1
<1>b. CASE MarkUndispatched(r) /\ status[ReqDoc(r)] = "waiting"
  <2>1. status' = [status EXCEPT ![ReqDoc(r)] = "error"] /\ ReqDoc(r) \in Documents
    BY <1>3, <1>b DEF MarkUndispatched, SetStatus, Ends
  <2> QED BY <1>4, <1>b, <2>1
<1>c. CASE DeleteRow(r)
  <2>1. ReqDoc(r) \in Documents /\ status[ReqDoc(r)] \in Final /\ status' = [status EXCEPT ![ReqDoc(r)] = "gone"]
    BY <1>1, <1>3, <1>c DEF DeleteRow, Ends, DeletesAgree
  <2>2. CASE status[ReqDoc(r)] = "gone"
    <3>1. UNCHANGED status
      BY <1>1, <2>1, <2>2 DEF Typed, DocumentsTyped
    <3> QED BY <1>2, <3>1, RowsUnchanged DEF AllStay
  <2>3. CASE status[ReqDoc(r)] # "gone"
    BY <1>4, <2>1, <2>3 DEF Final
  <2> QED BY <2>2, <2>3
<1>d. ASSUME ~(\E d \in Documents : CreateDocument(r, d)), ~DeleteRow(r), MarkUndispatched(r) => status[ReqDoc(r)] # "waiting"
      PROVE  AllStay
  <2>1. request[r].at \notin ToggleRequests
    BY DEF AskedFor, RequestPlaceAskedFor, OnlyBuilds
  <2>2. UNCHANGED status
    BY <1>d DEF DocumentRequest, Create, Remove, SwitchDocument, Dispatch, DispatchRaises, MarkUndispatched, AskDelete,
       SendDelete, SendDeleteRaises, AskToggle, LookLock, TakeLock, Commit, SendToggle, SendToggleRaises, UndoToggle,
       Send, SendRaises, SetEnabled, storeVars, documentVars
  <2> QED BY <1>2, <2>2, RowsUnchanged DEF AllStay
<1> QED BY <1>a, <1>b, <1>c, <1>d

\* Every step leaves all documents and their rows as they are, or takes one document
\* one step along its life.
LEMMA DocumentsMove ==
    ASSUME KnowledgeAssumption, OnlyBuilds, OwnInv, AskedFor, [Next]_vars
    PROVE  AllStay \/ \E d \in Documents : DocumentGoes(d)
<1>a. ASSUME NEW r \in Requests, SegmentRequest(r) PROVE FALSE
  BY <1>a, SegmentRequestAsked DEF OwnInv, AskedFor, RequestPlaceAskedFor, OnlyBuilds
<1>b. ASSUME NEW w \in Workers, WorkOn(w) PROVE AllStay \/ \E d \in Documents : DocumentGoes(d)
  <2>1. worker[w].at \notin ToggleTasks
    BY DEF AskedFor, TaskPlaceAskedFor, OnlyBuilds
  <2>2. ~Toggle(w)
    BY <2>1 DEF Toggle, ReadSegments, Mark, MarkFails, Sync, PutToggled, SyncFails, Unlock, Step, ToggleTasks
  <2> QED BY <1>b, <2>2, MovesInBuild, MovesInDelete DEF WorkOn, Work
<1>c. CASE UNCHANGED <<status, segment>>
  BY <1>c, RowsUnchanged DEF AllStay
<1>d. ASSUME NEW r \in Requests, RequestDies(r) PROVE AllStay
  BY <1>d, RowsUnchanged DEF RequestDies, documentVars, AllStay
<1>e. ASSUME NEW w \in Workers, Receive(w) \/ Dies(w) PROVE AllStay
  BY <1>e, RowsUnchanged DEF Receive, Take, Dies, WorkerDies, storeVars, documentVars, AllStay
<1>f. CASE UNCHANGED vars
  BY <1>c, <1>f DEF vars, storeVars, documentVars
<1> QED BY <1>a, <1>b, <1>d, <1>e, <1>f, MovesInRequest DEF Next, Request

-----------------------------------------------------------------------------
\* Whatever is completed is in service.
LEMMA ServiceStays ==
    ASSUME InService, Typed, UNCHANGED segment,
           \A d \in Documents : status'[d] = "completed" =>
               (status[d] = "completed" /\ enabled'[d] = enabled[d]) \/ enabled'[d]
    PROVE  InService'
BY DEF InService

LEMMA ServiceSegments ==
    ASSUME InService, Typed, UNCHANGED documentVars, NEW ids, NEW row,
           SetSegments(ids, row), row.status = "completed" => row.enabled
    PROVE  InService'
<1>1. \A s \in Segments : segment'[s] = IF s \in ids THEN row ELSE segment[s]
  BY DEF SetSegments
<1> QED BY <1>1 DEF InService, documentVars

RowsWritten == {Row("waiting", FALSE), Row("indexing", FALSE), Row("completed", TRUE), Row("error", FALSE),
                Row("gone", FALSE)}

LEMMA RowServed == \A row \in RowsWritten : row.status = "completed" => row.enabled
<1>1. Row("waiting", FALSE).status = "waiting" /\ Row("indexing", FALSE).status = "indexing"
  BY DEF Row
<1>2. Row("error", FALSE).status = "error" /\ Row("gone", FALSE).status = "gone" /\ Row("completed", TRUE).enabled
  BY DEF Row
<1> QED BY <1>1, <1>2 DEF RowsWritten

LEMMA ServedInitially == KnowledgeAssumption /\ Init => InService
<1> SUFFICES ASSUME KnowledgeAssumption, Init PROVE InService
  OBVIOUS
<1>1. PICK n \in [Indexed -> 1..MaxSegments] :
        LET built == {s \in Segments : s[1] \in Indexed /\ s[2] <= n[s[1]]}
        IN /\ status = [d \in Documents |-> IF d \in Indexed THEN "completed" ELSE "unborn"]
           /\ enabled = [d \in Documents |-> d \in Indexed]
           /\ segment = [s \in Segments |-> IF s \in built THEN Row("completed", TRUE)
                                                            ELSE Row("unborn", FALSE)]
  BY DEF Init, StoreInit
<1>2. Row("completed", TRUE).enabled /\ Row("unborn", FALSE).status = "unborn"
  BY DEF Row
<1> QED BY <1>1, <1>2 DEF InService

LEMMA ServedStep ==
    ASSUME OnlyBuilds, OwnInv, AskedFor, InService, [Next]_vars
    PROVE  InService'
<1>1. Typed
  BY DEF OwnInv
<1>2. /\ status \in [Documents -> DocumentStatus \union NoRow]
      /\ enabled \in [Documents -> BOOLEAN]
  BY <1>1 DEF Typed, DocumentsTyped
<1>a. CASE UNCHANGED <<status, enabled, segment>>
  BY <1>1, <1>a, ServiceStays
<1>b. ASSUME NEW d, NEW st, SetStatus(d, st), st # "completed", UNCHANGED segment PROVE InService'
  BY <1>1, <1>2, <1>b, ServiceStays DEF SetStatus
<1>c. ASSUME NEW r \in Requests, DocumentRequest(r) PROVE InService'
  <2>1. UNCHANGED segment /\ request[r].at \notin ToggleRequests
    BY <1>c DEF AskedFor, RequestPlaceAskedFor, OnlyBuilds, DocumentRequest, Create, Remove, SwitchDocument, CreateDocument,
       Dispatch, DispatchRaises, MarkUndispatched, AskDelete, SendDelete, SendDeleteRaises, DeleteRow, AskToggle, LookLock,
       TakeLock, Commit, SendToggle, SendToggleRaises, UndoToggle, storeVars
  <2>2. CASE (\E d \in Documents : CreateDocument(r, d)) \/ MarkUndispatched(r)
    BY <1>a, <1>b, <2>1, <2>2 DEF CreateDocument, MarkUndispatched, documentVars
  <2>3. CASE DeleteRow(r)
    <3>1. \A d \in Documents : status'[d] = "completed" => status[d] = "completed" /\ enabled'[d] = enabled[d]
      BY <1>2, <2>3 DEF DeleteRow
    <3> QED BY <1>1, <2>1, <3>1, ServiceStays
  <2>4. ASSUME ~(\E d \in Documents : CreateDocument(r, d)), ~MarkUndispatched(r), ~DeleteRow(r)
        PROVE  UNCHANGED <<status, enabled>>
    BY <1>c, <2>1, <2>4 DEF DocumentRequest, Create, Remove, SwitchDocument, Dispatch, DispatchRaises, AskDelete, SendDelete,
       SendDeleteRaises, AskToggle, LookLock, TakeLock, Commit, SendToggle, SendToggleRaises, UndoToggle, Send, SendRaises,
       ToggleRequests, Goes, Ends, storeVars, documentVars
  <2> QED BY <1>a, <2>1, <2>2, <2>3, <2>4
<1>d. ASSUME NEW r \in Requests, SegmentRequest(r) PROVE FALSE
  BY <1>1, <1>d, SegmentRequestAsked DEF AskedFor, RequestPlaceAskedFor, OnlyBuilds
<1>e. ASSUME NEW w \in Workers, WorkOn(w) PROVE InService'
  <2>1. ~Toggle(w)
    BY DEF AskedFor, TaskPlaceAskedFor, OnlyBuilds, Toggle, ReadSegments, Mark, MarkFails, Sync, PutToggled, SyncFails, Unlock,
       Step, ToggleTasks
  <2>3. CASE Claim(w) \/ Parse(w) \/ SplitDone(w) \/ BuildFails(w)
    BY <1>a, <1>b, <2>3 DEF Claim, Parse, SplitDone, BuildFails, documentVars
  <2>4. CASE SplitOne(w) \/ Index(w) \/ Store(w) \/ StoreFails(w) \/ DropSegments(w)
    <3>1. PICK row \in RowsWritten : \E ids : SetSegments(ids, row)
      BY <2>4 DEF SplitOne, Index, Store, StoreFails, DropSegments, RowsWritten
    <3>2. row.status = "completed" => row.enabled
      BY <3>1, RowServed
    <3>3. UNCHANGED documentVars
      BY <2>4 DEF SplitOne, Index, Store, StoreFails, DropSegments
    <3> QED BY <1>1, <3>1, <3>2, <3>3, ServiceSegments
  <2>5. CASE Settle(w)
    <3>1. PICK failed \in BOOLEAN : /\ status' = [status EXCEPT ![Doc(w)] = IF failed THEN "error" ELSE "completed"]
                                    /\ enabled' = [enabled EXCEPT ![Doc(w)] = ~failed]
      BY <2>5 DEF Settle
    <3>2. UNCHANGED segment
      BY <2>5 DEF Settle
    <3>3. \A d \in Documents : status'[d] = "completed" =>
              (status[d] = "completed" /\ enabled'[d] = enabled[d]) \/ enabled'[d]
      BY <1>2, <3>1
    <3> QED BY <1>1, <3>2, <3>3, ServiceStays
  <2>6. CASE UNCHANGED <<documentVars, segment>>
    BY <1>a, <2>6 DEF documentVars
  <2> QED BY <1>e, <2>1, <2>3, <2>4, <2>5, <2>6
          DEF WorkOn, Work, Build, Delete, AddKeywords, PutKeywords, StoreDone, Look, DropVectors, DropKeywords, DropFails, storeVars
<1>f. ASSUME NEW r \in Requests, RequestDies(r) PROVE InService'
  BY <1>a, <1>f DEF RequestDies, documentVars
<1>g. ASSUME NEW w \in Workers, Receive(w) \/ Dies(w) PROVE InService'
  BY <1>a, <1>g DEF Receive, Take, Dies, WorkerDies, storeVars, documentVars
<1>h. CASE UNCHANGED vars
  BY <1>a, <1>h DEF vars, storeVars, documentVars
<1> QED BY <1>c, <1>d, <1>e, <1>f, <1>g, <1>h DEF Next, Request

-----------------------------------------------------------------------------
\* A step along the life of a document is one of the contract, or changes nothing
\* that its user can tell.
userVars == <<UserStage, Contents, ByKeyword, ByVector>>

LEMMA ProgressOf ==
    /\ Progress["unborn"] = "none" /\ \A st \in InBuild : Progress[st] = "building"
    /\ Progress["completed"] = "ready" /\ Progress["error"] = "failed" /\ Progress["gone"] = "gone"
BY DEF Progress, InBuild

LEMMA HitsSaid ==
    WholeInv /\ InService =>
        ByKeyword = [d \in Documents |-> Found(d)] /\ ByVector = [d \in Documents |-> Found(d)]
<1> SUFFICES ASSUME WholeInv, InService
             PROVE  ByKeyword = [d \in Documents |-> Found(d)] /\ ByVector = [d \in Documents |-> Found(d)]
  OBVIOUS
<1>1. \A d \in Documents : FullTextHits \intersect Of(d) = Found(d) /\ SemanticHits \intersect Of(d) = Found(d)
  BY HitsOfDocument
<1> QED BY <1>1 DEF ByKeyword, ByVector

LEMMA HitsSaidNext ==
    (WholeInv /\ InService =>
        ByKeyword = [d \in Documents |-> Found(d)] /\ ByVector = [d \in Documents |-> Found(d)])'
BY HitsSaid, PTL

LEMMA NothingToTell ==
    ASSUME WholeInv, InService, WholeInv', InService', AllStay
    PROVE  UNCHANGED userVars
<1>1. \A d \in Documents : status'[d] = status[d] /\ Rows(d)' = Rows(d) /\ Found(d)' = Found(d)
  BY DEF AllStay, SameRows, Found
<1>2. /\ ByKeyword' = [d \in Documents |-> Found(d)'] /\ ByVector' = [d \in Documents |-> Found(d)']
  BY HitsSaidNext
<1>3. UserStage' = UserStage /\ Contents' = Contents
  BY <1>1 DEF UserStage, Contents, Progress
<1>4. ByKeyword' = ByKeyword /\ ByVector' = ByVector
  BY <1>1, <1>2, HitsSaid
<1> QED BY <1>3, <1>4 DEF userVars

\* What the step of one document does to what its user sees.
LEMMA OneToTell ==
    ASSUME WholeInv, InService, WholeInv', InService', NEW d \in Documents, Elsewhere(d)
    PROVE  /\ UserStage' = [UserStage EXCEPT ![d] = Progress[status'[d]]]
           /\ Contents' = [Contents EXCEPT ![d] = Rows(d)']
           /\ ByKeyword' = [ByKeyword EXCEPT ![d] = Found(d)']
           /\ ByVector' = [ByVector EXCEPT ![d] = Found(d)']
           /\ UserStage[d] = Progress[status[d]] /\ UserStage = [UserStage EXCEPT ![d] = UserStage[d]]
           /\ Contents[d] = Rows(d) /\ Contents = [Contents EXCEPT ![d] = Rows(d)]
           /\ ByKeyword = [ByKeyword EXCEPT ![d] = Found(d)] /\ ByVector = [ByVector EXCEPT ![d] = Found(d)]
<1>1. \A e \in Documents \ {d} : status'[e] = status[e] /\ Rows(e)' = Rows(e) /\ Found(e)' = Found(e)
  BY DEF Elsewhere, SameRows, Found
<1>2. /\ ByKeyword' = [e \in Documents |-> Found(e)'] /\ ByVector' = [e \in Documents |-> Found(e)']
  BY HitsSaidNext
<1>3. UserStage' = [UserStage EXCEPT ![d] = Progress[status'[d]]] /\ Contents' = [Contents EXCEPT ![d] = Rows(d)']
  BY <1>1 DEF UserStage, Contents, Progress
<1>4. ByKeyword' = [ByKeyword EXCEPT ![d] = Found(d)'] /\ ByVector' = [ByVector EXCEPT ![d] = Found(d)']
  BY <1>1, <1>2, HitsSaid
<1>5. ByKeyword = [ByKeyword EXCEPT ![d] = Found(d)] /\ ByVector = [ByVector EXCEPT ![d] = Found(d)]
  BY HitsSaid
<1>6. /\ UserStage[d] = Progress[status[d]] /\ UserStage = [UserStage EXCEPT ![d] = UserStage[d]]
      /\ Contents[d] = Rows(d) /\ Contents = [Contents EXCEPT ![d] = Rows(d)]
  BY DEF UserStage, Contents
<1> QED BY <1>3, <1>4, <1>5, <1>6

LEMMA GoesByContract ==
    ASSUME WholeInv, InService, WholeInv', InService', NEW d \in Documents, DocumentGoes(d)
    PROVE  [DocumentView!Next]_userVars
<1>1. Elsewhere(d) /\ AsContracted(d)
  BY DEF DocumentGoes
<1>2. /\ UserStage' = [UserStage EXCEPT ![d] = Progress[status'[d]]]
      /\ Contents' = [Contents EXCEPT ![d] = Rows(d)']
      /\ ByKeyword' = [ByKeyword EXCEPT ![d] = Found(d)']
      /\ ByVector' = [ByVector EXCEPT ![d] = Found(d)']
      /\ UserStage[d] = Progress[status[d]] /\ UserStage = [UserStage EXCEPT ![d] = UserStage[d]]
      /\ Contents[d] = Rows(d) /\ Contents = [Contents EXCEPT ![d] = Rows(d)]
      /\ ByKeyword = [ByKeyword EXCEPT ![d] = Found(d)] /\ ByVector = [ByVector EXCEPT ![d] = Found(d)]
  BY <1>1, OneToTell
<1>3. "completed" \notin InBuild
  BY DEF InBuild
<1>a. CASE status[d] = "unborn" /\ status'[d] = "waiting" /\ SameRows(d)
  <2>1. Found(d)' = Found(d) /\ Rows(d)' = Rows(d) /\ "waiting" \in InBuild
    BY <1>a DEF Found, SameRows, InBuild
  <2>2. UserStage[d] = "none" /\ Progress[status'[d]] = "building"
    BY <1>a, <1>2, <2>1, ProgressOf
  <2>3. DocumentView!Accept(d)
    BY <1>2, <2>1, <2>2 DEF DocumentView!Accept, DocumentView!Becomes
  <2> QED BY <2>3 DEF DocumentView!Next
<1>b. CASE status[d] \in InBuild /\ status'[d] \in InBuild /\ Rows(d) \subseteq Rows(d)'
  <2>1. Found(d)' = Found(d)
    BY <1>3, <1>b DEF Found
  <2>2. UserStage[d] = "building" /\ Progress[status'[d]] = "building"
    BY <1>b, <1>2, ProgressOf
  <2>3. Contents'[d] = Rows(d)'
    BY DEF Contents
  <2>4. DocumentView!Grow(d)
    BY <1>b, <1>2, <2>1, <2>2, <2>3 DEF DocumentView!Grow
  <2> QED BY <2>4 DEF DocumentView!Next
<1>c. CASE status[d] \in InBuild /\ status'[d] \in {"completed", "error"} /\ SameRows(d)
  <2>1. Rows(d)' = Rows(d) /\ UserStage[d] = "building"
    BY <1>c, <1>2, ProgressOf DEF SameRows
  <2>2. CASE status'[d] = "completed"
    <3>1. Found(d)' = Rows(d) /\ Progress[status'[d]] = "ready"
      BY <2>1, <2>2, ProgressOf DEF Found
    <3>2. DocumentView!Publish(d)
      BY <1>2, <2>1, <3>1 DEF DocumentView!Publish, DocumentView!Becomes, DocumentView!Find
    <3> QED BY <3>2 DEF DocumentView!Next
  <2>3. CASE status'[d] = "error"
    <3>1. Found(d)' = Found(d) /\ Progress[status'[d]] = "failed"
      BY <1>3, <1>c, <2>1, <2>3, ProgressOf DEF Found
    <3>2. DocumentView!GiveUp(d)
      BY <1>2, <2>1, <3>1 DEF DocumentView!GiveUp, DocumentView!Becomes
    <3> QED BY <3>2 DEF DocumentView!Next
  <2> QED BY <1>c, <2>2, <2>3
<1>d. CASE status[d] \in {"completed", "error"} /\ status'[d] = "gone" /\ SameRows(d)
  <2>1. Found(d)' = {} /\ Rows(d)' = Rows(d)
    BY <1>d DEF Found, SameRows
  <2>2. UserStage[d] \in {"ready", "failed"} /\ Progress[status'[d]] = "gone"
    BY <1>d, <1>2, ProgressOf
  <2>3. DocumentView!Remove(d)
    BY <1>2, <2>1, <2>2 DEF DocumentView!Remove, DocumentView!Becomes, DocumentView!Find
  <2> QED BY <2>3 DEF DocumentView!Next
<1>e. CASE status[d] = "gone" /\ status'[d] = "gone" /\ Rows(d)' = {}
  <2>1. Found(d)' = Found(d)
    BY <1>e DEF Found
  <2>2. UserStage[d] = "gone" /\ Progress[status'[d]] = "gone"
    BY <1>e, <1>2, ProgressOf
  <2>3. DocumentView!CleanUp(d)
    BY <1>e, <1>2, <2>1, <2>2 DEF DocumentView!CleanUp
  <2> QED BY <2>3 DEF DocumentView!Next
<1> QED BY <1>1, <1>a, <1>b, <1>c, <1>d, <1>e DEF AsContracted

LEMMA ContractInitially == KnowledgeAssumption /\ Init => DocumentView!Init
<1> SUFFICES ASSUME KnowledgeAssumption, Init PROVE DocumentView!Init
  OBVIOUS
<1>1. WholeInv /\ InService
  BY WholeInitially, ServedInitially
<1>2. ByKeyword = [d \in Documents |-> Found(d)] /\ ByVector = [d \in Documents |-> Found(d)]
  BY <1>1, HitsSaid
<1>3. PICK n \in [Indexed -> 1..MaxSegments] :
        LET built == {s \in Segments : s[1] \in Indexed /\ s[2] <= n[s[1]]}
        IN /\ status = [d \in Documents |-> IF d \in Indexed THEN "completed" ELSE "unborn"]
           /\ segment = [s \in Segments |-> IF s \in built THEN Row("completed", TRUE)
                                                            ELSE Row("unborn", FALSE)]
  BY DEF Init, StoreInit
<1>4. \A d \in Documents : status[d] = IF d \in Indexed THEN "completed" ELSE "unborn"
  BY <1>3
<1>5. ASSUME NEW d \in Documents, status[d] # "completed" PROVE Rows(d) = {}
  <2>1. d \notin Indexed
    BY <1>4, <1>5
  <2>2. ASSUME NEW s \in Of(d) PROVE segment[s] = Row("unborn", FALSE)
    <3>1. s \in Segments /\ s[1] = d
      BY SegmentsOf
    <3> QED BY <1>3, <2>1, <3>1
  <2>3. Row("unborn", FALSE).status = "unborn"
    BY DEF Row
  <2> QED BY <2>2, <2>3 DEF Rows, NoRow
<1>6. \A d \in Documents : Found(d) = Rows(d) /\ Contents[d] = Rows(d)
  BY <1>5 DEF Found, Contents
<1>7. \A d \in Documents : /\ UserStage[d] \in {"none", "ready"}
                           /\ UserStage[d] = "none" => Contents[d] = {}
  BY <1>4, <1>5, <1>6, ProgressOf DEF UserStage
<1>8. UserStage \in [Documents -> {"none", "ready"}]
  BY <1>7 DEF UserStage
<1>9. ByKeyword = [d \in Documents |-> Contents[d]] /\ ByVector = [d \in Documents |-> Contents[d]]
  BY <1>2, <1>6
<1> QED BY <1>7, <1>8, <1>9 DEF DocumentView!Init

\* As long as users only submit and delete documents, every step of the requests, the
\* workers, the crashes and the second deliveries is a step of the contract, or changes
\* nothing of a document that its user or a search can tell.
THEOREM DocumentsImplementContract ==
    ASSUME "toggle" \notin Operations, "segment" \notin Operations
    PROVE  Spec => ImplementsDocumentContract
<1>1. KnowledgeAssumption /\ OnlyBuilds
  BY KnowledgeAssumption DEF OnlyBuilds
<1>2. Init => DocumentView!Init /\ WholeInv /\ InService
  BY <1>1, ContractInitially, WholeInitially, ServedInitially
<1>3. OwnInv /\ AskedFor /\ WholeInv /\ InService /\ [Next]_vars => WholeInv' /\ InService'
  BY <1>1, WholeStep, ServedStep
<1>4. OwnInv /\ AskedFor /\ WholeInv /\ InService /\ [Next]_vars => [DocumentView!Next]_userVars
  BY <1>1, <1>3, DocumentsMove, NothingToTell, GoesByContract
<1> QED BY <1>2, <1>3, <1>4, OwnInvariant, AskedForInvariant, PTL
        DEF Spec, ImplementsDocumentContract, DocumentView!Spec, userVars

\* What the contract of a document promises to who searches, in the knowledge base as
\* in any other system that keeps the contract.
ExactView ==
    /\ DocumentView!SearchesAreExact
    /\ DOMAIN UserStage = Documents /\ DOMAIN Contents = Documents
    /\ DOMAIN ByKeyword = Documents /\ DOMAIN ByVector = Documents

LEMMA ExactStays == ExactView /\ [DocumentView!Next]_userVars => ExactView'
<1> SUFFICES ASSUME ExactView, [DocumentView!Next]_userVars PROVE ExactView'
  OBVIOUS
<1>1. CASE UNCHANGED userVars
  BY <1>1 DEF userVars, ExactView, DocumentView!SearchesAreExact
<1> USE DEF ExactView, DocumentView!SearchesAreExact, DocumentView!Becomes, DocumentView!Find
<1>2. ASSUME NEW d \in Documents, DocumentView!Accept(d) PROVE ExactView'
  BY <1>2 DEF DocumentView!Accept
<1>3. ASSUME NEW d \in Documents, DocumentView!Grow(d) PROVE ExactView'
  BY <1>3 DEF DocumentView!Grow
<1>4. ASSUME NEW d \in Documents, DocumentView!Publish(d) PROVE ExactView'
  BY <1>4 DEF DocumentView!Publish
<1>5. ASSUME NEW d \in Documents, DocumentView!GiveUp(d) PROVE ExactView'
  BY <1>5 DEF DocumentView!GiveUp
<1>6. ASSUME NEW d \in Documents, DocumentView!Remove(d) PROVE ExactView'
  BY <1>6 DEF DocumentView!Remove
<1>7. ASSUME NEW d \in Documents, DocumentView!CleanUp(d) PROVE ExactView'
  BY <1>7 DEF DocumentView!CleanUp
<1> QED BY <1>1, <1>2, <1>3, <1>4, <1>5, <1>6, <1>7 DEF DocumentView!Next

\* Whoever keeps the contract shows exactly what is ready.
LEMMA ContractIsExact == DocumentView!Spec => []DocumentView!SearchesAreExact
<1>1. DocumentView!Init => ExactView
  BY DEF DocumentView!Init, ExactView, DocumentView!SearchesAreExact, UserStage, Contents
<1>2. ExactView => DocumentView!SearchesAreExact
  BY DEF ExactView
<1> QED BY <1>1, <1>2, ExactStays, PTL DEF DocumentView!Spec, userVars

\* What the contract comes to for the code: at every moment, in the middle of every
\* request, build, failure and crash, a search of either kind finds the whole of a
\* document that is ready, and nothing of one that is being built, has failed or is gone.
THEOREM SearchesFindWhatIsReady ==
    ASSUME "toggle" \notin Operations, "segment" \notin Operations
    PROVE  Spec => []DocumentView!SearchesAreExact
<1>1. ImplementsDocumentContract => []DocumentView!SearchesAreExact
  BY ContractIsExact DEF ImplementsDocumentContract
<1>2. Spec => ImplementsDocumentContract
  BY DocumentsImplementContract
<1> QED BY <1>1, <1>2

-----------------------------------------------------------------------------
(***************************************************************************)
(* What several requests on one segment leave of it in the three stores.   *)
(***************************************************************************)
Creating == {"newRead", "newVector", "newCount", "newKeywords", "putNew"}
Flipping == {"flipRead", "flipAdd", "flipDelete", "putFlipped", "flipVector"}
Holding == Flipping \union {"flip"}
Putting == {"putNew", "putFlipped", "putRewritten"}

\* Who stands there will bring the keywords of its segment into the table.
Adding == Creating \union {"flipRead", "flipAdd", "putFlipped", "addNew", "putRewritten"}

InUse(s) == segment[s].status = "completed"

\* What a request has done of its segment, and what of it is still as the request left it.
Stands(r) ==
    /\ request[r].at = "newRow" => enabled[ReqDoc(r)]
    /\ request[r].at \in SegmentPlaces \ {"newRow"} => segment[Seg(r)].status # "unborn"
    /\ request[r].at \in {"cutKeywords", "cutVector"} => segment[Seg(r)].status = "gone"
    /\ request[r].at \in {"newRead", "newVector"} => vector[Seg(r)] = None
    /\ request[r].at = "newVector" /\ InUse(Seg(r)) => request[r].on
    /\ request[r].at \in Holding => Seg(r) \in segmentLock
    /\ request[r].at \in Flipping /\ InUse(Seg(r)) => segment[Seg(r)].enabled = request[r].want
    /\ request[r].at \in {"flipAdd", "putFlipped"} => request[r].want
    /\ request[r].at = "flipDelete" /\ InUse(Seg(r)) => ~request[r].want
    /\ request[r].at \in Putting => tableLock = r /\ (InUse(Seg(r)) => Seg(r) \in found)

\* A segment is created once, and switched by one request at a time.
Excluded(q, r) ==
    Seg(q) = Seg(r) =>
        /\ request[q].at \in Creating /\ request[r].at \in Creating => q = r
        /\ request[q].at \in Holding /\ request[r].at \in Holding => q = r

Engaged(s, places) == \E r \in Requests : request[r].at \in places /\ Seg(r) = s

\* A segment in use has a vector that says so, and its keywords in the table, unless
\* the request that will see to it is under way.
Served(s) == InUse(s) =>
    /\ enabled[s[1]]
    /\ vector[s] = None => Engaged(s, {"newRead", "newVector"})
    /\ vector[s] # None => vector[s].document_enabled
    /\ \/ Engaged(s, Flipping)
       \/ segment[s].enabled <=> (vector[s] = None \/ vector[s].segment_enabled)
    /\ segment[s].enabled /\ s \notin table => Engaged(s, Adding)

ServiceInv ==
    /\ \A d \in Documents : status[d] = "completed" => enabled[d]
    /\ \A s \in Segments : segment[s].status = "unborn" => vector[s] = None
    /\ \A r \in Requests : Stands(r)
    /\ \A q, r \in Requests : Excluded(q, r)
    /\ \A s \in Segments : Served(s)

OnlySegments == Operations \subseteq {"segment"} /\ "request_crash" \notin Faults /\ "second_lock" \notin Faults

\* Request r goes on and leaves the others where they are.
Moves(r) == \A q \in Requests \ {r} : request'[q] = request[q]

\* It leaves no place of these at segment s.
Remains(r, s, places) ==
    request[r].at \in places /\ Seg(r) = s => request'[r].at \in places /\ request'[r].segment = s

LEMMA EngagedStays ==
    ASSUME NEW r \in Requests, NEW s, NEW places, Moves(r), Remains(r, s, places), Engaged(s, places)
    PROVE  Engaged(s, places)'
<1>1. PICK q \in Requests : request[q].at \in places /\ Seg(q) = s
  BY DEF Engaged
<1>2. CASE q = r
  BY <1>1, <1>2 DEF Remains, Engaged, Seg
<1>3. CASE q # r
  BY <1>1, <1>3 DEF Moves, Engaged, Seg
<1> QED BY <1>2, <1>3

LEMMA ServedStays ==
    ASSUME NEW r \in Requests, NEW s, Moves(r), UNCHANGED enabled, Served(s),
           InUse(s)' => InUse(s) /\ segment'[s].enabled = segment[s].enabled,
           InUse(s)' => vector'[s] = vector[s] /\ (s \in table => s \in table'),
           InUse(s)' => /\ Remains(r, s, {"newRead", "newVector"})
                        /\ Remains(r, s, Flipping) /\ Remains(r, s, Adding)
    PROVE  Served(s)'
<1> SUFFICES ASSUME InUse(s)' PROVE Served(s)'
  BY DEF Served
<1>1. /\ Engaged(s, {"newRead", "newVector"}) => Engaged(s, {"newRead", "newVector"})'
      /\ Engaged(s, Flipping) => Engaged(s, Flipping)'
      /\ Engaged(s, Adding) => Engaged(s, Adding)'
  BY EngagedStays
<1> QED BY <1>1 DEF Served

\* What another request may rely on while r takes a step at segment s.
Spares(r, s) ==
    /\ \A t \in Segments \ {s} : /\ segment'[t] = segment[t] /\ vector'[t] = vector[t]
                                 /\ t \in table => t \in table'
                                 /\ t \in segmentLock => t \in segmentLock'
    /\ segment[s].status # "unborn" => segment'[s].status # "unborn"
    /\ segment[s].status = "gone" => segment'[s].status = "gone"
    /\ InUse(s)' => InUse(s) \/ segment[s].status = "unborn"
    /\ InUse(s)' /\ ~(request[r].at = "flip" /\ Seg(r) = s) => segment'[s].enabled = segment[s].enabled \/ segment[s].status = "unborn"
    /\ vector[s] = None => vector'[s] = None \/ (request[r].at = "newVector" /\ Seg(r) = s)
    /\ s \in segmentLock => s \in segmentLock' \/ (request[r].at \in Holding /\ Seg(r) = s)
    /\ UNCHANGED <<tableLock, found>> \/ tableLock = None \/ tableLock = r

LEMMA OthersStand ==
    ASSUME KnowledgeAssumption, Typed, ServiceInv, NEW r \in Requests, NEW s \in Segments, Moves(r), UNCHANGED enabled, Spares(r, s),
           NEW q \in Requests, q # r
    PROVE  Stands(q)'
<1>1. request'[q] = request[q] /\ Stands(q) /\ Excluded(q, r)
  BY DEF Moves, ServiceInv
<1>2. CASE request[q].at \notin SegmentPlaces \ {"newRow"}
  <2>1. request[q].at \notin Putting \union Holding \union Flipping
                     \union {"cutKeywords", "cutVector", "newRead", "newVector", "flipAdd", "putFlipped", "flipDelete"}
    BY <1>2 DEF Putting, Holding, Flipping, SegmentPlaces
  <2> QED BY <1>1, <1>2, <2>1 DEF Stands, ReqDoc
<1>3. CASE request[q].at \in SegmentPlaces \ {"newRow"}
  <2>1. Seg(q) \in Segments /\ segment[Seg(q)].status # "unborn"
    BY <1>1, <1>3, SegmentOfRequest DEF Stands
  <2>2. request[q].at \in Putting => UNCHANGED <<tableLock, found>>
    <3>1. q # None /\ r # q
      BY DEF KnowledgeAssumption
    <3> QED BY <1>1, <3>1 DEF Stands, Spares
  <2>3. CASE Seg(q) # s
    <3>1. /\ segment'[Seg(q)] = segment[Seg(q)] /\ vector'[Seg(q)] = vector[Seg(q)]
          /\ Seg(q) \in segmentLock => Seg(q) \in segmentLock'
      BY <2>1, <2>3 DEF Spares
    <3> QED BY <1>1, <2>2, <3>1 DEF Stands, Seg, ReqDoc, InUse
  <2>4. CASE Seg(q) = s
    <3>1. /\ segment'[s].status # "unborn"
          /\ segment[s].status = "gone" => segment'[s].status = "gone"
          /\ InUse(s)' => InUse(s)
      BY <2>1, <2>4 DEF Spares
    <3>2. request[q].at \in {"newRead", "newVector"} => vector'[s] = None
      BY <1>1, <2>4 DEF Spares, Stands, Excluded, Creating
    <3>3. request[q].at \in Holding => s \in segmentLock'
      BY <1>1, <2>4 DEF Spares, Stands, Excluded
    <3>4. request[q].at \in Flipping /\ InUse(s)' => segment'[s].enabled = segment[s].enabled
      BY <1>1, <2>1, <2>4 DEF Spares, Excluded, Holding
    <3> QED BY <1>1, <2>2, <2>4, <3>1, <3>2, <3>3, <3>4 DEF Stands, Seg, ReqDoc, InUse
  <2> QED BY <2>3, <2>4
<1> QED BY <1>2, <1>3

\* A step of request r at segment s keeps the invariant if it leaves its own place and
\* its segment in order.
LEMMA ServiceGoes ==
    ASSUME KnowledgeAssumption, Typed, ServiceInv, NEW r \in Requests, NEW s \in Segments,
           Moves(r), UNCHANGED <<status, enabled>>, Spares(r, s),
           request[r].at \in SegmentPlaces \ {"newRow"} => Seg(r) = s,
           request'[r].at \in Creating => \/ request[r].at \in Creating
                                         \/ segment[s].status = "unborn",
           request'[r].at \in Holding => request[r].at \in Holding \/ s \notin segmentLock,
           request'[r].at \in Creating \union Holding => request'[r].segment = s,
           segment'[s].status = "unborn" => vector'[s] = None,
           Stands(r)', Served(s)'
    PROVE  ServiceInv'
<1>1. \A q \in Requests : Stands(q)'
  BY OthersStand
<1>2. /\ Creating \subseteq SegmentPlaces \ {"newRow"} /\ Holding \subseteq SegmentPlaces \ {"newRow"}
      /\ Flipping \subseteq SegmentPlaces \ {"newRow"} /\ Adding \subseteq SegmentPlaces \ {"newRow"}
      /\ {"newRead", "newVector"} \subseteq SegmentPlaces \ {"newRow"}
  BY DEF Creating, Holding, Flipping, Adding, SegmentPlaces
<1>3. ASSUME NEW q \in Requests \ {r} PROVE Excluded(q, r)' /\ Excluded(r, q)'
  <2>1. request'[q] = request[q] /\ Stands(q) /\ Excluded(q, r)
    BY DEF Moves, ServiceInv
  <2>2. ~(request[q].at \in Creating /\ Seg(q) = s /\ request'[r].at \in Creating)
    <3> SUFFICES ASSUME request[q].at \in Creating, Seg(q) = s, request'[r].at \in Creating PROVE FALSE
      OBVIOUS
    <3>1. request[r].at \in Creating
      BY <1>2, <2>1 DEF Stands
    <3> QED BY <1>2, <2>1, <3>1 DEF Excluded
  <2>3. ~(request[q].at \in Holding /\ Seg(q) = s /\ request'[r].at \in Holding)
    <3> SUFFICES ASSUME request[q].at \in Holding, Seg(q) = s, request'[r].at \in Holding PROVE FALSE
      OBVIOUS
    <3>1. request[r].at \in Holding
      BY <2>1 DEF Stands
    <3> QED BY <1>2, <2>1, <3>1 DEF Excluded
  <2> QED BY <2>1, <2>2, <2>3 DEF Excluded, Seg
<1>4. ASSUME NEW q \in Requests, NEW p \in Requests PROVE Excluded(q, p)'
  <2>1. CASE q = p
    BY <2>1 DEF Excluded
  <2>2. CASE q # p /\ (q = r \/ p = r)
    BY <1>3, <2>2
  <2>3. CASE q # r /\ p # r
    <3>1. request'[q] = request[q] /\ request'[p] = request[p] /\ Excluded(q, p)
      BY <2>3 DEF Moves, ServiceInv
    <3> QED BY <3>1 DEF Excluded, Seg
  <2> QED BY <2>1, <2>2, <2>3
<1>5. ASSUME NEW t \in Segments \ {s} PROVE Served(t)' /\ (segment'[t].status = "unborn" => vector'[t] = None)
  <2>1. segment'[t] = segment[t] /\ vector'[t] = vector[t] /\ (t \in table => t \in table')
    BY DEF Spares
  <2>2. Served(t) /\ (segment[t].status = "unborn" => vector[t] = None)
    BY DEF ServiceInv
  <2>3. Remains(r, t, {"newRead", "newVector"}) /\ Remains(r, t, Flipping) /\ Remains(r, t, Adding)
    BY <1>2 DEF Remains
  <2>4. Served(t)'
    BY <2>1, <2>2, <2>3, ServedStays DEF InUse
  <2> QED BY <2>1, <2>2, <2>4
<1>6. \A d \in Documents : status'[d] = "completed" => enabled'[d]
  BY DEF ServiceInv
<1>7. \A t \in Segments : Served(t)' /\ (segment'[t].status = "unborn" => vector'[t] = None)
  BY <1>5
<1> QED BY <1>1, <1>4, <1>6, <1>7 DEF ServiceInv

\* A step that touches no store and no lock.
LEMMA QuietGoes ==
    ASSUME KnowledgeAssumption, Typed, ServiceInv, NEW r \in Requests, NEW s \in Segments,
           Moves(r), UNCHANGED <<storeVars, segmentLock>>,
           request[r].at \in SegmentPlaces \ {"newRow"} => Seg(r) = s,
           request'[r].at \in Creating => request[r].at \in Creating,
           request'[r].at \in Holding => request[r].at \in Holding,
           request'[r].at \in Creating \union Holding => request'[r].segment = s,
           Stands(r)',
           Remains(r, s, {"newRead", "newVector"}), Remains(r, s, Flipping), Remains(r, s, Adding)
    PROVE  ServiceInv'
<1>1. UNCHANGED <<status, enabled, segment, vector, table, tableLock, found>>
  BY DEF storeVars, documentVars, tableVars
<1>2. Spares(r, s)
  BY <1>1 DEF Spares, InUse
<1>3. Served(s) /\ (segment[s].status = "unborn" => vector[s] = None)
  BY DEF ServiceInv
<1>4. Served(s)'
  BY <1>1, <1>3, ServedStays DEF InUse
<1> QED BY <1>1, <1>2, <1>3, <1>4, ServiceGoes

LEMMA PlaceGoes ==
    ASSUME Typed, NEW r \in Requests
    PROVE  /\ \A from, to : Goes(r, from, to) =>
                 /\ Moves(r) /\ request[r].at = from /\ request'[r].at = to
                 /\ request'[r].segment = Seg(r) /\ request'[r].document = ReqDoc(r)
                 /\ request'[r].want = request[r].want /\ request'[r].on = request[r].on
           /\ Replies(r) => Moves(r) /\ request'[r].at = "idle"
           /\ \A op, to, d, s, want : Begin(r, op, to, d, s, want) =>
                 /\ Moves(r) /\ request[r].at = "idle" /\ request'[r].at = to
                 /\ request'[r].segment = s /\ request'[r].document = d
<1>1. request \in [Requests -> RequestRecord]
  BY DEF Typed, RequestsTyped
<1>2. \A from, to : Goes(r, from, to) =>
                 /\ Moves(r) /\ request[r].at = from /\ request'[r].at = to
                 /\ request'[r].segment = Seg(r) /\ request'[r].document = ReqDoc(r)
                 /\ request'[r].want = request[r].want /\ request'[r].on = request[r].on
  BY <1>1 DEF Goes, RequestRecord, Moves, Seg, ReqDoc
<1>3. Replies(r) => Moves(r) /\ request'[r].at = "idle"
  BY <1>1 DEF Replies, NoRequest, Moves
<1>4. \A op, to, d, s, want : Begin(r, op, to, d, s, want) =>
                 /\ Moves(r) /\ request[r].at = "idle" /\ request'[r].at = to
                 /\ request'[r].segment = s /\ request'[r].document = d
  BY <1>1 DEF Begin, Moves
<1> QED BY <1>2, <1>3, <1>4

\* A step that answers, or that leads to a place where nothing is done yet, touches nothing.
LEMMA IdleGoes ==
    ASSUME KnowledgeAssumption, Typed, ServiceInv, NEW r \in Requests, NEW s \in Segments,
           Moves(r), UNCHANGED <<storeVars, segmentLock>>,
           request[r].at \in SegmentPlaces \ {"newRow"} => Seg(r) = s,
           request'[r].at \in {"idle", "newRow", "cutRow", "lookHeld", "hold", "rewrite", "dropOld", "rewriteVector"},
           request'[r].at = "newRow" => enabled[request'[r].document],
           request'[r].at \notin {"idle", "newRow"} => segment[request'[r].segment].status # "unborn",
           request[r].at \notin Adding \union Flipping
    PROVE  ServiceInv'
<1>1. UNCHANGED <<status, enabled, segment, vector>>
  BY DEF storeVars, documentVars
<1>2. /\ request'[r].at \notin Creating /\ request'[r].at \notin Holding /\ request'[r].at \notin Flipping
      /\ request'[r].at \notin Putting /\ request[r].at \notin {"newRead", "newVector"}
      /\ request'[r].at \notin {"cutKeywords", "cutVector", "newRead", "newVector", "flipAdd", "putFlipped", "flipDelete"}
  BY DEF Creating, Holding, Flipping, Putting, Adding
<1>3. Stands(r)'
  <2>1. request'[r].at \in SegmentPlaces \ {"newRow"} => request'[r].at \notin {"idle", "newRow"}
    BY DEF SegmentPlaces
  <2> QED BY <1>1, <1>2, <2>1 DEF Stands, ReqDoc, Seg
<1>4. Remains(r, s, {"newRead", "newVector"}) /\ Remains(r, s, Flipping) /\ Remains(r, s, Adding)
  BY <1>2 DEF Remains
<1> QED BY <1>2, <1>3, <1>4, QuietGoes

\* A segment that is put out of service is not in use any more, whatever was left of it.
LEMMA OutOfUse ==
    ASSUME KnowledgeAssumption, Typed, ServiceInv, NEW r \in Requests, Replies(r),
           request[r].at \in SegmentPlaces \ {"newRow"},
           UNCHANGED <<status, enabled, vector, tableVars>>, Discard(r),
           \/ UNCHANGED segmentLock
           \/ request[r].at \in Holding /\ Release(r)
    PROVE  ServiceInv'
<1>0. PICK s \in Segments : s = Seg(r)
  BY SegmentOfRequest
<1>1. ReqDoc(r) \in Documents /\ s \in Of(ReqDoc(r)) /\ Stands(r)
  BY <1>0, SegmentOfRequest DEF ServiceInv
<1>2. segment \in [Segments -> SegmentRecord]
  BY DEF Typed, SegmentsTyped
<1>3. \A t \in Segments \ {s} : segment'[t] = segment[t]
  BY <1>0 DEF Discard, SetSegments
<1>4. segment[s].status # "unborn" /\ segment'[s] = IF segment[s].status = "gone" THEN segment[s] ELSE Row("error", FALSE)
  BY <1>0, <1>1, <1>2 DEF Discard, SetSegments, Rows, NoRow, Stands
<1>5. Row("error", FALSE).status = "error"
  BY DEF Row
<1>6. ~InUse(s)' /\ segment'[s].status # "unborn" /\ (segment[s].status = "gone" => segment'[s].status = "gone")
  BY <1>4, <1>5 DEF InUse
<1>7. UNCHANGED <<table, tableLock, found>>
  BY DEF tableVars
<1>8. Moves(r) /\ request'[r].at = "idle"
  BY PlaceGoes
<1>9. Spares(r, s)
  <2>1. \A t \in Segments \ {s} : t \in segmentLock => t \in segmentLock'
    BY <1>0 DEF Release
  <2> QED BY <1>0, <1>3, <1>4, <1>6, <1>7, <2>1 DEF Spares
<1>10. Stands(r)' /\ request'[r].at \notin Creating \union Holding
  BY <1>8 DEF Stands, Creating, Flipping, Holding, Putting, SegmentPlaces
<1>11. Served(s)'
  BY <1>6 DEF Served
<1> QED BY <1>0, <1>1, <1>6, <1>8, <1>9, <1>10, <1>11, ServiceGoes

\* A request takes the lock of the table and reads the row of its segment.
LEMMA ServedRead ==
    ASSUME KnowledgeAssumption, Typed, ServiceInv, NEW r \in Requests, NEW from, NEW to,
           Goes(r, from, to), add_keyword_table_Read(r, {Seg(r)}),
           UNCHANGED <<status, enabled, segment, vector, segmentLock>>,
           \/ from = "newKeywords" /\ to = "putNew"
           \/ from = "flipAdd" /\ to = "putFlipped"
           \/ from = "addNew" /\ to = "putRewritten"
    PROVE  ServiceInv'
<1>1. /\ Moves(r) /\ request[r].at = from /\ request'[r].at = to /\ request'[r].segment = Seg(r) /\ Seg(r)' = Seg(r)
      /\ request'[r].want = request[r].want
  BY PlaceGoes DEF Seg
<1>2. request[r].at \in SegmentPlaces \ {"newRow"} /\ request'[r].at \in SegmentPlaces \ {"newRow"}
  BY <1>1 DEF SegmentPlaces
<1>0. PICK s \in Segments : s = Seg(r)
  BY <1>2, SegmentOfRequest
<1>3. Stands(r) /\ Served(s) /\ (segment[s].status = "unborn" => vector[s] = None)
  BY DEF ServiceInv
<1>4. tableLock = None /\ tableLock' = r /\ UNCHANGED table /\ (InUse(s) => s \in found')
  BY <1>0 DEF add_keyword_table_Read, InUse, NoRow
<1>5. Spares(r, s)
  BY <1>4 DEF Spares, InUse
<1>6. Stands(r)'
  BY <1>0, <1>1, <1>2, <1>3, <1>4 DEF Stands, InUse, Holding, Flipping, Putting
<1>7. Remains(r, s, {"newRead", "newVector"}) /\ Remains(r, s, Flipping) /\ Remains(r, s, Adding)
  BY <1>0, <1>1 DEF Remains, Flipping, Adding, Creating
<1>8. Served(s)'
  BY <1>1, <1>3, <1>4, <1>7, ServedStays DEF InUse
<1>9. /\ request'[r].at \in Creating => request[r].at \in Creating
      /\ request'[r].at \in Holding => request[r].at \in Holding
  BY <1>1 DEF Creating, Holding, Flipping
<1> QED BY <1>0, <1>1, <1>3, <1>5, <1>6, <1>8, <1>9, ServiceGoes

\* It writes what it has read and gives the lock back.
LEMMA ServedPut ==
    ASSUME KnowledgeAssumption, Typed, ServiceInv, NEW r \in Requests,
           add_keyword_table_Write(r), UNCHANGED <<status, enabled, segment, vector, segmentLock>>, Moves(r),
           \/ request[r].at \in {"putNew", "putRewritten"} /\ request'[r].at = "idle"
           \/ /\ request[r].at = "putRewritten" /\ request'[r].at = "rewriteVector"
              /\ request'[r].segment = Seg(r)
           \/ /\ request[r].at = "putFlipped" /\ request'[r].at = "flipVector"
              /\ request'[r].segment = Seg(r) /\ request'[r].want = request[r].want
    PROVE  ServiceInv'
<1>2. request[r].at \in (SegmentPlaces \ {"newRow"}) \intersect Putting
  BY DEF SegmentPlaces, Putting
<1>0. PICK s \in Segments : s = Seg(r)
  BY <1>2, SegmentOfRequest
<1>3. Stands(r) /\ Served(s) /\ (segment[s].status = "unborn" => vector[s] = None)
  BY DEF ServiceInv
<1>4. tableLock = r /\ table' = table \union found /\ (InUse(s) => s \in table')
  BY <1>0, <1>2, <1>3 DEF add_keyword_table_Write, Stands
<1>5. Spares(r, s)
  BY <1>4 DEF Spares, InUse
<1>6. Stands(r)'
  BY <1>0, <1>2, <1>3 DEF Stands, InUse, Holding, Flipping, Putting, SegmentPlaces, Seg
<1>7. Remains(r, s, {"newRead", "newVector"}) /\ Remains(r, s, Flipping)
  BY <1>0 DEF Remains, Flipping
<1>8. /\ Engaged(s, {"newRead", "newVector"}) => Engaged(s, {"newRead", "newVector"})'
      /\ Engaged(s, Flipping) => Engaged(s, Flipping)'
  BY <1>7, EngagedStays
<1>9. Served(s)'
  <2>1. UNCHANGED InUse(s) /\ (InUse(s) => s \in table')
    BY <1>4 DEF InUse
  <2> QED BY <1>3, <1>8, <2>1 DEF Served
<1>10. /\ request'[r].at \in Creating => request[r].at \in Creating
       /\ request'[r].at \in Holding => request[r].at \in Holding
       /\ request'[r].at \in Creating \union Holding => request'[r].segment = s
  BY <1>0 DEF Creating, Holding, Flipping
<1> QED BY <1>0, <1>3, <1>5, <1>6, <1>9, <1>10, ServiceGoes

LEMMA ServedWhileAdding ==
    ASSUME KnowledgeAssumption, Typed, ServiceInv, NEW r \in Requests, AddSegment(r),
           UNCHANGED <<status, enabled>>, "request_crash" \notin Faults
    PROVE  ServiceInv'
<1>1. Stands(r) /\ segment \in [Segments -> SegmentRecord] /\ vector \in [Segments -> VectorRecord \union {None}]
  BY DEF ServiceInv, Typed, SegmentsTyped, VectorsTyped
<1>2. request[r].at \in SegmentPlaces \ {"newRow"} =>
          Seg(r) \in Segments /\ ReqDoc(r) \in Documents /\ Seg(r)[1] = ReqDoc(r) /\ segment[Seg(r)].status # "unborn"
  BY <1>1, SegmentOfRequest, SegmentsOf DEF Stands
<1>3. request[r].at \in SegmentPlaces \ {"newRow"} => Served(Seg(r))
  BY <1>2 DEF ServiceInv
<1>p. /\ Creating \subseteq SegmentPlaces \ {"newRow"} /\ Creating \intersect Holding = {}
  BY DEF Creating, Flipping, Holding, SegmentPlaces
<1>a. ASSUME NEW d \in Documents, AskNew(r, d) PROVE ServiceInv'
  <2>1. /\ Moves(r) /\ request[r].at = "idle" /\ request'[r].at = "newRow" /\ request'[r].document = d
        /\ UNCHANGED <<storeVars, segmentLock>> /\ enabled[d]
    <3>1. Begin(r, "segment", "newRow", d, None, TRUE) /\ status[d] = "completed" /\ UNCHANGED <<storeVars, segmentLock>>
      BY <1>a DEF AskNew
    <3>2. /\ Moves(r) /\ request[r].at = "idle" /\ request'[r].at = "newRow" /\ request'[r].document = d
      BY <3>1 DEF Begin, Typed, RequestsTyped, Moves
    <3> QED BY <3>1, <3>2 DEF ServiceInv
  <2>2. <<d, 1>> \in Segments
    BY DEF Segments, KnowledgeAssumption
  <2>3. "idle" \notin SegmentPlaces /\ "idle" \notin Adding \union Flipping
    BY DEF SegmentPlaces, Adding, Creating, Flipping
  <2> QED BY <2>1, <2>2, <2>3, IdleGoes
<1>b. CASE NewRow(r)
  <2>1. PICK s \in Fresh(ReqDoc(r)) :
            /\ request' = [request EXCEPT ![r].at = "newRead", ![r].segment = s]
            /\ SetSegments({s}, Row("completed", TRUE))
    BY <1>b DEF NewRow
  <2>2. request[r].at = "newRow" /\ ReqDoc(r) \in Documents /\ request \in [Requests -> RequestRecord] /\ enabled[ReqDoc(r)]
    BY <1>1, <1>b DEF NewRow, Typed, RequestsTyped, Stands, ReqDoc
  <2>3. s \in Segments /\ s[1] = ReqDoc(r) /\ segment[s].status = "unborn" /\ vector[s] = None
    BY <2>2, SegmentsOf DEF Fresh, ServiceInv
  <2>4. /\ Moves(r) /\ request'[r].at = "newRead" /\ Seg(r)' = s /\ request'[r].segment = s
    BY <2>1, <2>2 DEF Moves, RequestRecord, Seg
  <2>5. /\ segment'[s] = Row("completed", TRUE) /\ \A t \in Segments \ {s} : segment'[t] = segment[t]
    BY <2>1, <2>3 DEF SetSegments
  <2>6. Row("completed", TRUE).status = "completed" /\ Row("completed", TRUE).enabled = TRUE
    BY DEF Row
  <2>7. UNCHANGED <<vector, table, tableLock, found, segmentLock>>
    BY <1>b DEF NewRow, tableVars
  <2>8. Spares(r, s)
    BY <2>3, <2>5, <2>6, <2>7 DEF Spares, InUse
  <2>9. Engaged(s, {"newRead", "newVector"})' /\ Engaged(s, Adding)'
    BY <2>4 DEF Engaged, Adding, Creating
  <2>10. Served(s)'
    BY <2>2, <2>3, <2>5, <2>6, <2>7, <2>9 DEF Served
  <2>11. Stands(r)'
    BY <2>3, <2>4, <2>5, <2>6, <2>7 DEF Stands, Holding, Flipping, Putting, SegmentPlaces
  <2>12. "newRow" \notin SegmentPlaces \ {"newRow"} /\ "newRead" \notin Holding
    BY DEF Holding, Flipping
  <2> QED BY <2>2, <2>3, <2>4, <2>5, <2>6, <2>8, <2>10, <2>11, <2>12, ServiceGoes
<1>c. CASE NewRead(r)
  <2>0. PICK s \in Segments : s = Seg(r)
    BY <1>2, <1>c DEF NewRead, Goes, SegmentPlaces
  <2>1. /\ request[r].at = "newRead" /\ request \in [Requests -> RequestRecord]
        /\ UNCHANGED <<storeVars, segmentLock>>
    BY <2>0, <1>c DEF NewRead, Typed, RequestsTyped
  <2>2. /\ Moves(r) /\ request'[r].at = "newVector" /\ request'[r].segment = Seg(r)
        /\ request'[r].on = enabled[ReqDoc(r)]
    BY <2>0, <1>c, <2>1 DEF NewRead, Moves, RequestRecord, Seg
  <2>3. request[r].at \in SegmentPlaces \ {"newRow"}
    BY <2>0, <2>1 DEF SegmentPlaces
  <2>4. UNCHANGED <<segment, vector>>
    BY <2>0, <2>1 DEF storeVars
  <2>5. vector[s] = None /\ (InUse(s) => enabled[ReqDoc(r)])
    BY <2>0, <1>1, <1>2, <1>3, <2>1, <2>3 DEF Stands, Served
  <2>6. Stands(r)'
    <3>1. Seg(r)' = Seg(r)
      BY <2>0, <2>2 DEF Seg
    <3> QED BY <2>0, <1>2, <2>2, <2>3, <2>4, <2>5, <3>1 DEF Stands, InUse, Holding, Flipping, Putting
  <2>7. Remains(r, s, {"newRead", "newVector"}) /\ Remains(r, s, Flipping) /\ Remains(r, s, Adding)
    BY <2>0, <2>1, <2>2 DEF Remains, Flipping, Adding, Creating
  <2>8. request[r].at \in Creating /\ request'[r].at \notin Holding
    BY <2>0, <2>1, <2>2 DEF Creating, Holding, Flipping
  <2> QED BY <2>0, <1>2, <2>1, <2>2, <2>3, <2>6, <2>7, <2>8, QuietGoes
<1>d. CASE NewVector(r)
  <2>0. PICK s \in Segments : s = Seg(r)
    BY <1>2, <1>d DEF NewVector, Goes, SegmentPlaces
  <2>1. /\ request[r].at = "newVector" /\ Moves(r) /\ request'[r].at = "newCount" /\ request'[r].segment = Seg(r)
        /\ Seg(r)' = Seg(r)
        /\ UNCHANGED <<segment, table, tableLock, found, segmentLock>>
        /\ SetVectors({s}, Vector(request[r].on, TRUE))
    <3>1. /\ Goes(r, "newVector", "newCount") /\ SetVectors({Seg(r)}, Vector(request[r].on, TRUE))
          /\ UNCHANGED <<segment, table, tableLock, found, segmentLock>>
      BY <1>d DEF NewVector, tableVars
    <3>2. /\ Moves(r) /\ request[r].at = "newVector" /\ request'[r].at = "newCount" /\ request'[r].segment = Seg(r)
      BY <3>1, PlaceGoes
    <3>3. Seg(r)' = Seg(r)
      BY <3>2 DEF Seg
    <3> QED BY <2>0, <3>1, <3>2, <3>3
  <2>2. request[r].at \in SegmentPlaces \ {"newRow"}
    BY <2>0, <2>1 DEF SegmentPlaces
  <2>3. /\ vector'[s] = Vector(request[r].on, TRUE) /\ \A t \in Segments \ {s} : vector'[t] = vector[t]
    BY <2>0, <1>2, <2>1, <2>2 DEF SetVectors
  <2>4. /\ Vector(request[r].on, TRUE).document_enabled = request[r].on
        /\ Vector(request[r].on, TRUE).segment_enabled = TRUE
    BY DEF Vector
  <2>5. vector[s] = None /\ (InUse(s) => request[r].on)
    BY <2>0, <1>1, <2>1 DEF Stands
  <2>6. Spares(r, s)
    BY <2>0, <2>1, <2>3 DEF Spares, InUse
  <2>7. Engaged(s, Adding)'
    BY <2>0, <2>1 DEF Engaged, Adding, Creating
  <2>8. Engaged(s, Flipping) => Engaged(s, Flipping)'
    <3>1. Remains(r, s, Flipping)
      BY <2>0, <2>1 DEF Remains, Flipping
    <3> QED BY <2>0, <2>1, <3>1, EngagedStays
  <2>9. vector'[s] # None => vector'[s].segment_enabled = TRUE
    BY <2>3, <2>4
  <2>10. vector'[s] # None
    <3>1. request[r].on \in BOOLEAN
      BY DEF Typed, RequestsTyped, RequestRecord
    <3>2. Vector(request[r].on, TRUE) \in [document_enabled : BOOLEAN, segment_enabled : BOOLEAN]
      BY <3>1 DEF Vector
    <3>3. None \notin [document_enabled : BOOLEAN, segment_enabled : BOOLEAN]
      BY DEF KnowledgeAssumption
    <3> QED BY <2>3, <3>2, <3>3
  <2>11. Served(s)'
    BY <2>0, <1>3, <2>1, <2>2, <2>3, <2>4, <2>5, <2>7, <2>8, <2>10 DEF Served, InUse
  <2>12. Stands(r)'
    BY <2>0, <1>2, <2>1, <2>2 DEF Stands, Holding, Flipping, Putting
  <2>13. request[r].at \in Creating /\ request'[r].at \notin Holding
    BY <2>0, <2>1 DEF Creating, Holding, Flipping
  <2> QED BY <2>0, <1>2, <2>1, <2>2, <2>6, <2>11, <2>12, <2>13, ServiceGoes
<1>e. CASE NewCount(r)
  <2>0. PICK s \in Segments : s = Seg(r)
    BY <1>2, <1>e DEF NewCount, Goes, SegmentPlaces
  <2>1. /\ request[r].at = "newCount" /\ Moves(r) /\ request'[r].at = "newKeywords" /\ Seg(r)' = Seg(r)
        /\ request'[r].segment = Seg(r) /\ UNCHANGED <<storeVars, segmentLock>>
    BY <2>0, <1>e, PlaceGoes DEF NewCount, Seg
  <2>2. request[r].at \in SegmentPlaces \ {"newRow"}
    BY <2>0, <2>1 DEF SegmentPlaces
  <2>3. UNCHANGED segment
    BY <2>0, <2>1 DEF storeVars
  <2>4. Stands(r)'
    BY <2>0, <1>2, <2>1, <2>2, <2>3 DEF Stands, Holding, Flipping, Putting
  <2>5. Remains(r, s, {"newRead", "newVector"}) /\ Remains(r, s, Flipping) /\ Remains(r, s, Adding)
    BY <2>0, <2>1 DEF Remains, Flipping, Adding, Creating
  <2>6. request[r].at \in Creating /\ request'[r].at \notin Holding
    BY <2>0, <2>1 DEF Creating, Holding, Flipping
  <2> QED BY <2>0, <1>2, <2>1, <2>2, <2>4, <2>5, <2>6, QuietGoes
<1>f. CASE NewKeywords(r)
  <2>1. /\ request[r].at = "newKeywords" /\ request'[r].at = "putNew"
        /\ Goes(r, "newKeywords", "putNew") /\ add_keyword_table_Read(r, {Seg(r)})
        /\ UNCHANGED <<segmentLock, segment, vector>>
    BY <1>f, PlaceGoes DEF NewKeywords
  <2> QED BY <2>1, ServedRead
<1>g. CASE PutNew(r)
  <2>1. /\ request[r].at = "putNew" /\ Replies(r) /\ add_keyword_table_Write(r) /\ UNCHANGED <<segmentLock, segment, vector>>
    BY <1>g DEF PutNew, Ends
  <2>2. Moves(r) /\ request'[r].at = "idle"
    BY <2>1, PlaceGoes
  <2> QED BY <2>1, <2>2, ServedPut
<1>h. CASE NewFails(r)
  <2>1. request[r].at \in SegmentPlaces \ {"newRow"}
    BY <1>h DEF NewFails, SegmentPlaces
  <2> QED BY <1>h, <2>1, OutOfUse DEF NewFails
<1> QED BY <1>a, <1>b, <1>c, <1>d, <1>e, <1>f, <1>g, <1>h DEF AddSegment

LEMMA ServedWhileCutting ==
    ASSUME KnowledgeAssumption, Typed, ServiceInv, NEW r \in Requests, CutSegment(r),
           UNCHANGED <<status, enabled>>
    PROVE  ServiceInv'
<1>1. Stands(r) /\ segment \in [Segments -> SegmentRecord]
  BY DEF ServiceInv, Typed, SegmentsTyped
<1>2. request[r].at \in SegmentPlaces \ {"newRow"} => Seg(r) \in Segments /\ segment[Seg(r)].status # "unborn"
  BY <1>1, SegmentOfRequest DEF Stands
<1>a. ASSUME NEW s \in Segments, AskCut(r, s) PROVE ServiceInv'
  <2>1. /\ Begin(r, "segment", "cutRow", s[1], s, FALSE) /\ segment[s].status \in {"completed", "error"}
        /\ UNCHANGED <<storeVars, segmentLock>>
    BY <1>a DEF AskCut
  <2>2. Moves(r) /\ request[r].at = "idle" /\ request'[r].at = "cutRow" /\ request'[r].segment = s
    BY <2>1 DEF Begin, Typed, RequestsTyped, Moves
  <2>3. "idle" \notin SegmentPlaces /\ "idle" \notin Adding \union Flipping
    BY DEF SegmentPlaces, Adding, Creating, Flipping
  <2> QED BY <2>1, <2>2, <2>3, IdleGoes
<1>b. CASE CutRow(r)
  <2>0. PICK s \in Segments : s = Seg(r)
    BY <1>2, <1>b DEF CutRow, Goes, SegmentPlaces
  <2>1. /\ Goes(r, "cutRow", "cutKeywords") /\ SetSegments({Seg(r)}, Row("gone", FALSE))
        /\ UNCHANGED <<segmentLock, vector, table, tableLock, found>>
    BY <1>b DEF CutRow, tableVars
  <2>2. Moves(r) /\ request[r].at = "cutRow" /\ request'[r].at = "cutKeywords" /\ request'[r].segment = s
    BY <2>0, <2>1, PlaceGoes
  <2>3. segment'[s].status = "gone" /\ \A t \in Segments \ {s} : segment'[t] = segment[t]
    BY <2>0, <2>1 DEF SetSegments, Row
  <2>4. Spares(r, s) /\ Served(s)'
    BY <2>1, <2>2, <2>3 DEF Spares, Served, InUse
  <2>5. Stands(r)'
    BY <2>2, <2>3 DEF Stands, Holding, Flipping, Putting, Seg
  <2>6. request'[r].at \notin Creating \union Holding
    BY <2>2 DEF Creating, Holding, Flipping
  <2> QED BY <2>0, <2>1, <2>2, <2>3, <2>4, <2>5, <2>6, ServiceGoes
<1>c. CASE CutKeywords(r)
  <2>0. PICK s \in Segments : s = Seg(r)
    BY <1>2, <1>c DEF CutKeywords, Goes, SegmentPlaces
  <2>1. /\ Goes(r, "cutKeywords", "cutVector") /\ delete_keyword_table_from_ids({Seg(r)})
        /\ UNCHANGED <<segmentLock, segment, vector>>
    BY <1>c DEF CutKeywords
  <2>2. Moves(r) /\ request[r].at = "cutKeywords" /\ request'[r].at = "cutVector" /\ request'[r].segment = s
    BY <2>0, <2>1, PlaceGoes
  <2>3. segment[s].status = "gone" /\ table' = table \ {s} /\ UNCHANGED <<tableLock, found>>
    BY <1>1, <2>0, <2>1, <2>2 DEF Stands, delete_keyword_table_from_ids
  <2>4. Spares(r, s) /\ Served(s)'
    BY <2>1, <2>2, <2>3 DEF Spares, Served, InUse
  <2>5. Stands(r)'
    BY <2>1, <2>2, <2>3 DEF Stands, Holding, Flipping, Putting, Seg
  <2>6. request'[r].at \notin Creating \union Holding
    BY <2>2 DEF Creating, Holding, Flipping
  <2> QED BY <2>0, <2>1, <2>2, <2>3, <2>4, <2>5, <2>6, ServiceGoes
<1>d. CASE CutFails(r)
  <2>0. PICK s \in Segments : s = Seg(r)
    BY <1>2, <1>d DEF CutFails, Ends, SegmentPlaces
  <2>1. Replies(r) /\ request[r].at = "cutKeywords" /\ UNCHANGED <<segmentLock, storeVars>>
    BY <1>d DEF CutFails, Ends
  <2>2. Moves(r) /\ request'[r].at = "idle" /\ request[r].at \notin Adding \union Flipping
    BY <2>1, PlaceGoes DEF Adding, Creating, Flipping
  <2> QED BY <2>0, <2>1, <2>2, IdleGoes
<1>e. CASE CutVector(r)
  <2>0. PICK s \in Segments : s = Seg(r)
    BY <1>2, <1>e DEF CutVector, Ends, SegmentPlaces
  <2>1. /\ Replies(r) /\ request[r].at = "cutVector" /\ UNCHANGED <<segmentLock, segment, table, tableLock, found>>
        /\ SetVectors({Seg(r)}, None) \/ UNCHANGED vector
    BY <1>e DEF CutVector, Ends, tableVars
  <2>2. Moves(r) /\ request'[r].at = "idle"
    BY <2>1, PlaceGoes
  <2>3. segment[s].status = "gone"
    BY <1>1, <2>0, <2>1 DEF Stands
  <2>4. (\A t \in Segments \ {s} : vector'[t] = vector[t]) /\ (vector[s] = None => vector'[s] = None)
    BY <2>0, <2>1 DEF SetVectors
  <2>5. Spares(r, s) /\ Served(s)'
    BY <2>1, <2>3, <2>4 DEF Spares, Served, InUse
  <2>6. Stands(r)' /\ request'[r].at \notin Creating \union Holding
    BY <2>2 DEF Stands, Creating, Holding, Flipping, Putting, SegmentPlaces
  <2> QED BY <2>0, <2>1, <2>2, <2>3, <2>5, <2>6, ServiceGoes
<1> QED BY <1>a, <1>b, <1>c, <1>d, <1>e DEF CutSegment

LEMMA ServedWhileRewriting ==
    ASSUME KnowledgeAssumption, Typed, ServiceInv, NEW r \in Requests, RewriteSegment(r),
           UNCHANGED <<status, enabled>>, "second_lock" \notin Faults
    PROVE  ServiceInv'
<1>1. Stands(r) /\ segment \in [Segments -> SegmentRecord]
  BY DEF ServiceInv, Typed, SegmentsTyped
<1>2. request[r].at \in SegmentPlaces \ {"newRow"} => Seg(r) \in Segments /\ segment[Seg(r)].status # "unborn"
  BY <1>1, SegmentOfRequest DEF Stands
<1>a. ASSUME NEW s \in Segments, AskRewrite(r, s) PROVE ServiceInv'
  <2>1. /\ Begin(r, "segment", "rewrite", s[1], s, FALSE) /\ segment[s].status = "completed"
        /\ UNCHANGED <<storeVars, segmentLock>>
    BY <1>a DEF AskRewrite
  <2>2. Moves(r) /\ request[r].at = "idle" /\ request'[r].at = "rewrite" /\ request'[r].segment = s
    BY <2>1 DEF Begin, Typed, RequestsTyped, Moves
  <2>3. "idle" \notin SegmentPlaces /\ "idle" \notin Adding \union Flipping
    BY DEF SegmentPlaces, Adding, Creating, Flipping
  <2> QED BY <2>1, <2>2, <2>3, IdleGoes
<1>b. CASE Rewrite(r) \/ RewriteVector(r) \/ RewriteFails(r)
  <2>1. /\ request[r].at \in {"rewrite", "dropOld", "rewriteVector"} /\ UNCHANGED <<segmentLock, storeVars>>
        /\ Goes(r, "rewrite", "dropOld") \/ Replies(r)
    BY <1>b DEF Rewrite, RewriteVector, RewriteFails, Goes, Ends
  <2>2. PICK s \in Segments : s = Seg(r)
    BY <1>2, <2>1 DEF SegmentPlaces
  <2>3. /\ Moves(r)
        /\ \/ request'[r].at = "idle"
           \/ request'[r].at = "dropOld" /\ request'[r].segment = s
    BY <2>1, <2>2, PlaceGoes
  <2>4. request[r].at \notin Adding \union Flipping /\ request[r].at \in SegmentPlaces \ {"newRow"}
    BY <2>1 DEF Adding, Creating, Flipping, SegmentPlaces
  <2> QED BY <1>2, <2>1, <2>2, <2>3, <2>4, IdleGoes
<1>c. CASE DropOld(r)
  <2>0. PICK s \in Segments : s = Seg(r)
    BY <1>2, <1>c DEF DropOld, Goes, SegmentPlaces
  <2>1. /\ Goes(r, "dropOld", "addNew") /\ delete_keyword_table_from_ids({Seg(r)})
        /\ UNCHANGED <<segmentLock, segment, vector>>
    BY <1>c DEF DropOld
  <2>2. Moves(r) /\ request[r].at = "dropOld" /\ request'[r].at = "addNew" /\ request'[r].segment = s
    BY <2>0, <2>1, PlaceGoes
  <2>3. /\ table' = table \ {s} /\ UNCHANGED <<tableLock, found>> /\ segment[s].status # "unborn"
        /\ Served(s)
    BY <1>2, <2>0, <2>1, <2>2 DEF delete_keyword_table_from_ids, SegmentPlaces, ServiceInv
  <2>4. Spares(r, s)
    BY <2>1, <2>3 DEF Spares, InUse
  <2>5. Engaged(s, Adding)'
    BY <2>2 DEF Engaged, Adding, Seg
  <2>6. /\ Engaged(s, {"newRead", "newVector"}) => Engaged(s, {"newRead", "newVector"})'
        /\ Engaged(s, Flipping) => Engaged(s, Flipping)'
    <3>1. Remains(r, s, {"newRead", "newVector"}) /\ Remains(r, s, Flipping)
      BY <2>2 DEF Remains, Flipping
    <3> QED BY <2>2, <3>1, EngagedStays
  <2>7. Served(s)'
    BY <2>1, <2>3, <2>5, <2>6 DEF Served, InUse
  <2>8. Stands(r)'
    BY <2>1, <2>2, <2>3 DEF Stands, Holding, Flipping, Putting, Seg
  <2>9. request'[r].at \notin Creating \union Holding
    BY <2>2 DEF Creating, Holding, Flipping
  <2> QED BY <2>0, <2>1, <2>2, <2>3, <2>4, <2>7, <2>8, <2>9, ServiceGoes
<1>d. CASE AddNew(r)
  BY <1>d, ServedRead DEF AddNew
<1>e. CASE PutRewritten(r)
  <2>1. /\ Goes(r, "putRewritten", "rewriteVector") /\ add_keyword_table_Write(r)
        /\ UNCHANGED <<segmentLock, segment, vector>>
    BY <1>e DEF PutRewritten
  <2>2. /\ Moves(r) /\ request[r].at = "putRewritten" /\ request'[r].at = "rewriteVector"
        /\ request'[r].segment = Seg(r)
    BY <2>1, PlaceGoes
  <2> QED BY <2>1, <2>2, ServedPut
<1> QED BY <1>a, <1>b, <1>c, <1>d, <1>e DEF RewriteSegment

LEMMA ServedWhileSwitching ==
    ASSUME KnowledgeAssumption, Typed, ServiceInv, NEW r \in Requests, SwitchSegment(r),
           UNCHANGED <<status, enabled>>
    PROVE  ServiceInv'
<1>1. Stands(r) /\ segment \in [Segments -> SegmentRecord] /\ vector \in [Segments -> VectorRecord \union {None}]
  BY DEF ServiceInv, Typed, SegmentsTyped, VectorsTyped
<1>2. request[r].at \in SegmentPlaces \ {"newRow"} =>
          Seg(r) \in Segments /\ Seg(r)[1] = ReqDoc(r) /\ segment[Seg(r)].status # "unborn" /\ Served(Seg(r))
  BY <1>1, SegmentOfRequest, SegmentsOf DEF Stands, ServiceInv
<1>3. request[r].want \in BOOLEAN
  BY DEF Typed, RequestsTyped, RequestRecord
<1>a. ASSUME NEW s \in Segments, AskFlip(r, s) PROVE ServiceInv'
  <2>1. /\ Begin(r, "segment", "lookHeld", s[1], s, ~segment[s].enabled) /\ segment[s].status = "completed"
        /\ UNCHANGED <<storeVars, segmentLock>>
    BY <1>a DEF AskFlip
  <2>2. Moves(r) /\ request[r].at = "idle" /\ request'[r].at = "lookHeld" /\ request'[r].segment = s
    BY <2>1 DEF Begin, Typed, RequestsTyped, Moves
  <2>3. "idle" \notin SegmentPlaces /\ "idle" \notin Adding \union Flipping
    BY DEF SegmentPlaces, Adding, Creating, Flipping
  <2> QED BY <2>1, <2>2, <2>3, IdleGoes
<1>b. CASE LookHeld(r)
  <2>1. /\ request[r].at = "lookHeld" /\ UNCHANGED <<segmentLock, storeVars>>
        /\ Goes(r, "lookHeld", "hold") \/ Replies(r)
    BY <1>b DEF LookHeld, Goes, Ends
  <2>2. PICK s \in Segments : s = Seg(r)
    BY <1>2, <2>1 DEF SegmentPlaces
  <2>3. /\ Moves(r)
        /\ \/ request'[r].at = "idle"
           \/ request'[r].at = "hold" /\ request'[r].segment = s
    BY <2>1, <2>2, PlaceGoes
  <2>4. request[r].at \notin Adding \union Flipping /\ request[r].at \in SegmentPlaces \ {"newRow"}
    BY <2>1 DEF Adding, Creating, Flipping, SegmentPlaces
  <2> QED BY <1>2, <2>1, <2>2, <2>3, <2>4, IdleGoes
<1>c. CASE Hold(r)
  <2>0. PICK s \in Segments : s = Seg(r)
    BY <1>2, <1>c DEF Hold, Goes, SegmentPlaces
  <2>1. /\ Goes(r, "hold", "flip") /\ Seg(r) \notin segmentLock /\ segmentLock' = segmentLock \union {Seg(r)}
        /\ UNCHANGED <<segment, vector, table, tableLock, found>>
    BY <1>c DEF Hold, storeVars, tableVars
  <2>2. Moves(r) /\ request[r].at = "hold" /\ request'[r].at = "flip" /\ request'[r].segment = s
    BY <2>0, <2>1, PlaceGoes
  <2>3. segment[s].status # "unborn" /\ Served(s)
    BY <1>2, <2>0, <2>2 DEF SegmentPlaces
  <2>4. Spares(r, s)
    BY <2>1 DEF Spares, InUse
  <2>5. Remains(r, s, {"newRead", "newVector"}) /\ Remains(r, s, Flipping) /\ Remains(r, s, Adding)
    BY <2>2 DEF Remains, Flipping, Adding, Creating
  <2>6. Served(s)'
    BY <2>1, <2>2, <2>3, <2>5, ServedStays DEF InUse
  <2>7. Stands(r)'
    BY <2>0, <2>1, <2>2, <2>3 DEF Stands, Holding, Flipping, Putting, Seg
  <2>8. request'[r].at \notin Creating
    BY <2>2 DEF Creating
  <2> QED BY <2>0, <2>1, <2>2, <2>3, <2>4, <2>6, <2>7, <2>8, ServiceGoes
<1>d. CASE Flip(r)
  <2>0. PICK s \in Segments : s = Seg(r)
    BY <1>2, <1>d DEF Flip, Goes, SegmentPlaces
  <2>1. /\ Goes(r, "flip", "flipRead") /\ segment' = [segment EXCEPT ![Seg(r)].enabled = request[r].want]
        /\ UNCHANGED <<segmentLock, vector, table, tableLock, found>>
    BY <1>d DEF Flip, tableVars
  <2>2. /\ Moves(r) /\ request[r].at = "flip" /\ request'[r].at = "flipRead" /\ request'[r].segment = s
        /\ request'[r].want = request[r].want
    BY <2>0, <2>1, PlaceGoes
  <2>3. segment[s].status # "unborn" /\ Served(s) /\ s \in segmentLock
    BY <1>1, <1>2, <2>0, <2>2 DEF SegmentPlaces, Stands, Holding
  <2>4. /\ segment'[s].status = segment[s].status /\ segment'[s].enabled = request[r].want
        /\ \A t \in Segments \ {s} : segment'[t] = segment[t]
    BY <1>1, <1>3, <2>0, <2>1 DEF SegmentRecord
  <2>5. Spares(r, s)
    BY <2>0, <2>1, <2>2, <2>4 DEF Spares, InUse
  <2>6. Engaged(s, Flipping)' /\ Engaged(s, Adding)'
    BY <2>2 DEF Engaged, Flipping, Adding, Seg
  <2>7. Engaged(s, {"newRead", "newVector"}) => Engaged(s, {"newRead", "newVector"})'
    <3>1. Remains(r, s, {"newRead", "newVector"})
      BY <2>2 DEF Remains
    <3> QED BY <2>2, <3>1, EngagedStays
  <2>8. Served(s)'
    BY <2>1, <2>3, <2>4, <2>6, <2>7 DEF Served, InUse
  <2>9. Stands(r)'
    <3>1. Seg(r)' = s
      BY <2>2 DEF Seg
    <3> QED BY <2>1, <2>2, <2>3, <2>4, <3>1 DEF Stands, Holding, Flipping, Putting
  <2>10. request'[r].at \notin Creating /\ request[r].at \in Holding
    BY <2>2 DEF Creating, Holding
  <2> QED BY <2>0, <2>1, <2>2, <2>3, <2>4, <2>5, <2>8, <2>9, <2>10, ServiceGoes
<1>e. CASE FlipRead(r)
  <2>0. PICK s \in Segments : s = Seg(r)
    BY <1>2, <1>e DEF FlipRead, Goes, SegmentPlaces
  <2>1. PICK to : /\ Goes(r, "flipRead", to)
                  /\ to = IF enabled[ReqDoc(r)] /\ request[r].want THEN "flipAdd" ELSE "flipDelete"
    BY <1>e DEF FlipRead
  <2>2. /\ Moves(r) /\ request[r].at = "flipRead" /\ request'[r].at = to /\ request'[r].segment = s
        /\ request'[r].want = request[r].want
    BY <2>0, <2>1, PlaceGoes
  <2>3. UNCHANGED <<segmentLock, segment, vector, table, tableLock, found>>
    BY <1>e DEF FlipRead, storeVars, tableVars
  <2>4. /\ segment[s].status # "unborn" /\ Served(s) /\ s \in segmentLock /\ s[1] = ReqDoc(r)
        /\ InUse(s) => segment[s].enabled = request[r].want
    BY <1>1, <1>2, <2>0, <2>2 DEF SegmentPlaces, Stands, Holding, Flipping
  <2>5. InUse(s) => enabled[ReqDoc(r)]
    BY <2>4 DEF Served
  <2>6. Spares(r, s)
    BY <2>3 DEF Spares, InUse
  <2>7. Engaged(s, Flipping)' /\ (to = "flipAdd" => Engaged(s, Adding)')
    BY <2>1, <2>2 DEF Engaged, Flipping, Adding, Seg
  <2>8. Engaged(s, {"newRead", "newVector"}) => Engaged(s, {"newRead", "newVector"})'
    <3>1. Remains(r, s, {"newRead", "newVector"})
      BY <2>2 DEF Remains
    <3> QED BY <2>2, <3>1, EngagedStays
  <2>9. InUse(s) /\ segment[s].enabled => to = "flipAdd"
    BY <2>1, <2>4, <2>5
  <2>10. Served(s)'
    BY <2>3, <2>4, <2>7, <2>8, <2>9 DEF Served, InUse
  <2>11. Stands(r)'
    <3>1. Seg(r)' = s
      BY <2>2 DEF Seg
    <3> QED BY <2>1, <2>2, <2>3, <2>4, <2>5, <3>1 DEF Stands, Holding, Flipping, Putting, InUse
  <2>12. request'[r].at \notin Creating /\ request[r].at \in Holding
    BY <2>1, <2>2 DEF Creating, Holding, Flipping
  <2>13. segment[s].status = "unborn" => vector[s] = None
    BY <2>4
  <2> QED BY <2>0, <2>2, <2>3, <2>4, <2>6, <2>10, <2>11, <2>12, ServiceGoes
<1>f. CASE FlipAdd(r)
  BY <1>f, ServedRead DEF FlipAdd
<1>g. CASE PutFlipped(r)
  <2>1. /\ Goes(r, "putFlipped", "flipVector") /\ add_keyword_table_Write(r)
        /\ UNCHANGED <<segmentLock, segment, vector>>
    BY <1>g DEF PutFlipped
  <2>2. /\ Moves(r) /\ request[r].at = "putFlipped" /\ request'[r].at = "flipVector"
        /\ request'[r].segment = Seg(r) /\ request'[r].want = request[r].want
    BY <2>1, PlaceGoes
  <2> QED BY <2>1, <2>2, ServedPut
<1>h. CASE FlipDelete(r)
  <2>0. PICK s \in Segments : s = Seg(r)
    BY <1>2, <1>h DEF FlipDelete, Goes, SegmentPlaces
  <2>1. /\ Goes(r, "flipDelete", "flipVector") /\ delete_keyword_table_from_ids({Seg(r)})
        /\ UNCHANGED <<segmentLock, segment, vector>>
    BY <1>h DEF FlipDelete
  <2>2. /\ Moves(r) /\ request[r].at = "flipDelete" /\ request'[r].at = "flipVector" /\ request'[r].segment = s
        /\ request'[r].want = request[r].want
    BY <2>0, <2>1, PlaceGoes
  <2>3. /\ segment[s].status # "unborn" /\ Served(s) /\ s \in segmentLock
        /\ InUse(s) => segment[s].enabled = request[r].want /\ ~segment[s].enabled
    BY <1>1, <1>2, <2>0, <2>2 DEF SegmentPlaces, Stands, Holding, Flipping
  <2>4. table' = table \ {s} /\ UNCHANGED <<tableLock, found>>
    BY <2>0, <2>1 DEF delete_keyword_table_from_ids
  <2>5. Spares(r, s)
    BY <2>1, <2>4 DEF Spares, InUse
  <2>6. Engaged(s, Flipping)'
    BY <2>2 DEF Engaged, Flipping, Seg
  <2>7. Engaged(s, {"newRead", "newVector"}) => Engaged(s, {"newRead", "newVector"})'
    <3>1. Remains(r, s, {"newRead", "newVector"})
      BY <2>2 DEF Remains
    <3> QED BY <2>2, <3>1, EngagedStays
  <2>8. Served(s)'
    BY <2>1, <2>3, <2>6, <2>7 DEF Served, InUse
  <2>9. Stands(r)'
    <3>1. Seg(r)' = s
      BY <2>2 DEF Seg
    <3> QED BY <2>1, <2>2, <2>3, <3>1 DEF Stands, Holding, Flipping, Putting, InUse
  <2>10. request'[r].at \notin Creating /\ request[r].at \in Holding
    BY <2>2 DEF Creating, Holding, Flipping
  <2> QED BY <2>0, <2>1, <2>2, <2>3, <2>5, <2>8, <2>9, <2>10, ServiceGoes
<1>i. CASE FlipVector(r)
  <2>0. PICK s \in Segments : s = Seg(r)
    BY <1>2, <1>i DEF FlipVector, Ends, SegmentPlaces
  <2>1. /\ Replies(r) /\ request[r].at = "flipVector" /\ vector[Seg(r)] # None
        /\ vector' = [vector EXCEPT ![Seg(r)].segment_enabled = request[r].want]
        /\ segmentLock' = segmentLock \ {Seg(r)} /\ UNCHANGED <<segment, table, tableLock, found>>
    BY <1>i DEF FlipVector, Ends, Release, tableVars
  <2>2. Moves(r) /\ request'[r].at = "idle" /\ request[r].at \in Holding
    BY <2>1, PlaceGoes DEF Holding, Flipping
  <2>3. /\ segment[s].status # "unborn" /\ Served(s)
        /\ InUse(s) => segment[s].enabled = request[r].want
    BY <1>1, <1>2, <2>0, <2>1 DEF SegmentPlaces, Stands, Flipping
  <2>4. /\ vector[s] \in VectorRecord
        /\ vector'[s] = [vector[s] EXCEPT !.segment_enabled = request[r].want]
        /\ \A t \in Segments \ {s} : vector'[t] = vector[t]
    BY <1>1, <2>0, <2>1
  <2>5. /\ vector'[s].document_enabled = vector[s].document_enabled /\ vector'[s].segment_enabled = request[r].want
        /\ vector'[s] \in [document_enabled : BOOLEAN, segment_enabled : BOOLEAN]
    BY <1>3, <2>4 DEF VectorRecord
  <2>6. vector'[s] # None
    <3>1. None \notin [document_enabled : BOOLEAN, segment_enabled : BOOLEAN]
      BY DEF KnowledgeAssumption
    <3> QED BY <2>5, <3>1
  <2>7. Spares(r, s)
    BY <2>0, <2>1, <2>2, <2>4 DEF Spares, InUse
  <2>8. Engaged(s, Adding) => Engaged(s, Adding)'
    <3>1. Remains(r, s, Adding)
      BY <2>1 DEF Remains, Adding, Creating
    <3> QED BY <2>2, <3>1, EngagedStays
  <2>9. Served(s)'
    BY <2>0, <2>1, <2>3, <2>5, <2>6, <2>8 DEF Served, InUse
  <2>10. Stands(r)' /\ request'[r].at \notin Creating \union Holding
    BY <2>2 DEF Stands, Creating, Holding, Flipping, Putting, SegmentPlaces
  <2> QED BY <2>0, <2>1, <2>2, <2>3, <2>7, <2>9, <2>10, ServiceGoes
<1>j. CASE FlipFails(r)
  <2>1. request[r].at \in SegmentPlaces \ {"newRow"} /\ request[r].at \in Holding
    BY <1>j DEF FlipFails, SegmentPlaces, Holding, Flipping
  <2> QED BY <1>j, <2>1, OutOfUse DEF FlipFails
<1> QED BY <1>a, <1>b, <1>c, <1>d, <1>e, <1>f, <1>g, <1>h, <1>i, <1>j DEF SwitchSegment

\* Where users only change segments, and no request dies, nothing else moves.
LEMMA ServiceStep ==
    ASSUME OnlySegments, KnowledgeAssumption, Typed, AskedFor, ServiceInv, [Next]_vars
    PROVE  ServiceInv'
<1>1. "create" \notin Operations /\ "delete" \notin Operations /\ "toggle" \notin Operations
  BY DEF OnlySegments
<1>2. \A w \in Workers : worker[w].at = "idle"
  <2> SUFFICES ASSUME NEW w \in Workers PROVE worker[w].at = "idle"
    OBVIOUS
  <2>1. worker[w].at \in WorkerPlaces /\ TaskPlaceAskedFor(worker[w].at)
    BY DEF Typed, WorkersTyped, WorkerRecord, AskedFor
  <2> QED BY <1>1, <2>1 DEF WorkerPlaces, TaskPlaceAskedFor, Building, Cleaning, ToggleTasks
<1>3. messages = {}
  <2> SUFFICES ASSUME NEW m \in messages PROVE FALSE
    OBVIOUS
  <2>1. m.task \in {"build", "toggle", "delete"} /\ TaskPlaceAskedFor(m.task)
    BY DEF Typed, QueueTyped, Message, AskedFor
  <2> QED BY <1>1, <2>1 DEF TaskPlaceAskedFor, Building, Cleaning, ToggleTasks
<1>a. ASSUME NEW r \in Requests, DocumentRequest(r) PROVE ServiceInv'
  <2>1. RequestPlaceAskedFor(request[r].at)
    BY DEF AskedFor
  <2>2. request[r].at \notin {"dispatch", "undispatch", "sendDelete", "deleteRow"} \union ToggleRequests
    BY <1>1, <2>1 DEF RequestPlaceAskedFor
  <2>3. ~Create(r)
    BY <1>1, <2>2 DEF Create, CreateDocument, Begin, Dispatch, DispatchRaises, MarkUndispatched, Goes, Ends
  <2>4. ~Remove(r)
    BY <1>1, <2>2 DEF Remove, AskDelete, Begin, SendDelete, SendDeleteRaises, DeleteRow, Goes, Ends
  <2>5. ~SwitchDocument(r)
    BY <1>1, <2>2 DEF SwitchDocument, AskToggle, Begin, LookLock, TakeLock, Commit, SendToggle, SendToggleRaises,
                     UndoToggle, Goes, Ends, ToggleRequests
  <2> QED BY <1>a, <2>3, <2>4, <2>5 DEF DocumentRequest
<1>b. ASSUME NEW r \in Requests, SegmentRequest(r) PROVE ServiceInv'
  <2>1. UNCHANGED <<status, enabled>>
    BY <1>b, SegmentRequestElsewhere DEF elsewhere, documentVars
  <2> QED BY <1>b, <2>1, ServedWhileAdding, ServedWhileCutting, ServedWhileSwitching, ServedWhileRewriting
          DEF SegmentRequest, OnlySegments
<1>c. ASSUME NEW r \in Requests, RequestDies(r) PROVE ServiceInv'
  BY <1>c DEF RequestDies, OnlySegments
<1>d. ASSUME NEW w \in Workers, Receive(w) PROVE ServiceInv'
  BY <1>3, <1>d DEF Receive
<1>e. ASSUME NEW w \in Workers, WorkOn(w) PROVE ServiceInv'
  <2>1. worker[w].at = "idle"
    BY <1>2
  <2>2. ~Build(w)
    BY <2>1 DEF Build, Claim, Parse, SplitOne, SplitDone, Index, AddKeywords, PutKeywords, Store, StoreFails,
         StoreDone, Settle, BuildFails, Step
  <2>3. ~Delete(w)
    BY <2>1 DEF Delete, Look, DropVectors, DropSegments, DropKeywords, DropFails, Step
  <2>4. ~Toggle(w)
    BY <2>1 DEF Toggle, ReadSegments, Mark, MarkFails, Sync, PutToggled, SyncFails, Unlock, Step
  <2> QED BY <1>e, <2>2, <2>3, <2>4 DEF WorkOn, Work
<1>f. ASSUME NEW w \in Workers, Dies(w) PROVE ServiceInv'
  BY <1>2, <1>f DEF Dies, WorkerDies
<1>g. CASE UNCHANGED vars
  <2>1. UNCHANGED <<status, enabled, segment, vector, table, tableLock, found, request, segmentLock>>
    BY <1>g DEF vars, storeVars, documentVars, tableVars, requestVars
  <2> QED BY <2>1 DEF ServiceInv, Stands, Excluded, Served, Engaged, InUse, Seg, ReqDoc
<1> QED BY <1>a, <1>b, <1>c, <1>d, <1>e, <1>f, <1>g DEF Next, Request

LEMMA ServiceInitially == KnowledgeAssumption /\ Init => ServiceInv
<1> SUFFICES ASSUME KnowledgeAssumption, Init PROVE ServiceInv
  OBVIOUS
<1>1. PICK n \in [Indexed -> 1..MaxSegments] :
        LET built == {s \in Segments : s[1] \in Indexed /\ s[2] <= n[s[1]]}
        IN /\ status = [d \in Documents |-> IF d \in Indexed THEN "completed" ELSE "unborn"]
           /\ enabled = [d \in Documents |-> d \in Indexed]
           /\ segment = [s \in Segments |-> IF s \in built THEN Row("completed", TRUE)
                                                            ELSE Row("unborn", FALSE)]
           /\ vector = [s \in Segments |-> IF s \in built THEN Vector(TRUE, TRUE) ELSE None]
           /\ table = built
  BY DEF Init, StoreInit
<1> DEFINE built == {s \in Segments : s[1] \in Indexed /\ s[2] <= n[s[1]]}
<1>2. \A r \in Requests : request[r].at = "idle"
  BY DEF Init, RequestsInit, NoRequest
<1>3. \A r \in Requests : Stands(r)
  BY <1>2 DEF Stands, Holding, Flipping, Putting, SegmentPlaces
<1>4. \A q, r \in Requests : Excluded(q, r)
  BY <1>2 DEF Excluded, Creating, Holding, Flipping
<1>5. \A d \in Documents : (status[d] = "completed" => enabled[d]) /\ (d \in Indexed => enabled[d])
  BY <1>1
<1>6. ASSUME NEW s \in Segments PROVE Served(s) /\ (segment[s].status = "unborn" => vector[s] = None)
  <2>1. CASE s \in built
    <3>1. segment[s] = Row("completed", TRUE) /\ vector[s] = Vector(TRUE, TRUE) /\ s \in table /\ s[1] \in Documents
      BY <1>1, <2>1 DEF Segments
    <3>2. Vector(TRUE, TRUE) # None
      <4>1. Vector(TRUE, TRUE) \in [document_enabled : BOOLEAN, segment_enabled : BOOLEAN]
        BY DEF Vector
      <4> QED BY <4>1 DEF KnowledgeAssumption
    <3>3. enabled[s[1]]
      BY <1>5, <2>1, <3>1
    <3> QED BY <3>1, <3>2, <3>3 DEF Served, Row, Vector
  <2>2. CASE s \notin built
    <3>1. segment[s] = Row("unborn", FALSE) /\ vector[s] = None
      BY <1>1, <2>2
    <3> QED BY <3>1 DEF Served, InUse, Row
  <2> QED BY <2>1, <2>2
<1> QED BY <1>3, <1>4, <1>5, <1>6 DEF ServiceInv

\* Where users only create, rewrite, switch and cut segments, any number of them at a
\* time, and no process dies, a segment in service that nobody is changing is found by
\* keyword and by vector, whichever of the stores fails on the way, as long as a
\* rewrite that got the lock of the keyword table gets it again.
THEOREM ServedSegmentsAreFound ==
    ASSUME Operations \subseteq {"segment"}, "request_crash" \notin Faults, "second_lock" \notin Faults
    PROVE  Spec => []InServiceIsFound
<1>1. Init => ServiceInv
  BY ServiceInitially, KnowledgeAssumption
<1>2. Typed /\ AskedFor /\ ServiceInv /\ [Next]_vars => ServiceInv'
  BY ServiceStep, KnowledgeAssumption DEF OnlySegments
<1>3. Typed /\ ServiceInv => InServiceIsFound
  <2> SUFFICES ASSUME Typed, ServiceInv, NEW s \in Segments, Visible(s), \A r \in Requests : Seg(r) # s
               PROVE  s \in FullTextHits \intersect SemanticHits
    BY DEF InServiceIsFound
  <2>1. Served(s) /\ InUse(s) /\ segment[s].enabled
    BY DEF ServiceInv, Visible, InUse
  <2>2. \A places : ~Engaged(s, places)
    BY DEF Engaged
  <2>3. s \in table /\ vector[s] # None /\ vector[s].document_enabled /\ vector[s].segment_enabled
    BY <2>1, <2>2 DEF Served
  <2>4. vector[s] \in VectorRecord
    BY <2>3 DEF Typed, VectorsTyped
  <2>5. vector[s] = Vector(TRUE, TRUE)
    BY <2>3, <2>4 DEF VectorRecord, Vector
  <2> QED BY <2>3, <2>5 DEF FullTextHits, SemanticHits, Segments
<1>4. Spec => []Typed
  BY OwnInvariant, PTL DEF OwnInv
<1> QED BY <1>1, <1>2, <1>3, <1>4, AskedForInvariant, PTL DEF Spec

-----------------------------------------------------------------------------
(***************************************************************************)
(* What switches of whole documents leave in the stores.                   *)
(***************************************************************************)
Taking == {"takeLock", "commit", "send", "undo"}

\* No two requests at a time switch the same document.
SwitchedInTurn ==
    \A q, r \in Requests :
        request[q].at \in ToggleRequests /\ request[r].at \in ToggleRequests /\ ReqDoc(q) = ReqDoc(r) => q = r

Sent(d) == {m \in messages : m.task = "toggle" /\ m.document = d}
Tasked(d) == {w \in Workers : worker[w].at \in ToggleTasks /\ Doc(w) = d}
Taken(d) == {r \in Requests : request[r].at \in Taking /\ ReqDoc(r) = d}

\* One message or one task at a time is about the switch of a document, holds its
\* lock, and comes after the request that sent it.
InTurn(d) ==
    /\ \A m, n \in Sent(d) : m = n
    /\ \A v, w \in Tasked(d) : v = w
    /\ Sent(d) = {} \/ Tasked(d) = {}
    /\ d \notin toggleLock => Sent(d) = {} /\ Tasked(d) = {}
    /\ Taken(d) # {} => Sent(d) = {} /\ Tasked(d) = {}
    /\ \A r \in Taken(d) : request[r].at \in {"commit", "send", "undo"} => d \in toggleLock

AllFound(d) == \A s \in Completed(d) : vector[s] = Vector(TRUE, TRUE) /\ s \in table
NoneFound(d) == \A s \in Completed(d) : vector[s] = Vector(FALSE, TRUE) /\ s \notin table

\* The stores say of the segments of a document what its row says, or what it said
\* before the switch that is under way.
Current(d) == (enabled[d] => AllFound(d)) /\ (~enabled[d] => NoneFound(d))
Behind(d) == (enabled[d] => NoneFound(d)) /\ (~enabled[d] => AllFound(d))

RequestAgrees(r, d) ==
    /\ request[r].at \in {"lookLock", "takeLock", "commit"} => (request[r].want <=> ~enabled[d])
    /\ request[r].at \in {"send", "undo"} => (request[r].want <=> enabled[d]) /\ Behind(d)

\* Where a task has marked the vectors of some segments, and has yet to bring the
\* table after them.
Marked(w, d) ==
    /\ Completed(d) \subseteq worker[w].ids /\ Completed(d) \subseteq worker[w].live
    /\ worker[w].on # None => worker[w].on = enabled[d]
    /\ \A s \in Completed(d) :
          /\ s \in table <=> ~enabled[d]
          /\ (s \in worker[w].left <=> enabled[d]) => vector[s] = Vector(FALSE, TRUE)
          /\ (s \in worker[w].left <=> ~enabled[d]) => vector[s] = Vector(TRUE, TRUE)

TaskAgrees(w, d) ==
    /\ worker[w].at = "toggle" => Behind(d)
    /\ worker[w].at = "mark" => Marked(w, d)
    /\ worker[w].at = "putToggled" =>
          /\ enabled[d] /\ Completed(d) \subseteq found
          /\ \A s \in Completed(d) : vector[s] = Vector(TRUE, TRUE)
    /\ worker[w].at = "unlock" => Current(d)

Pending(d) ==
    \/ \E r \in Requests : request[r].at \in {"send", "undo"} /\ ReqDoc(r) = d
    \/ Sent(d) # {} \/ Tasked(d) # {}

DocumentAgrees(d) == Exists(d) =>
    /\ \A r \in Requests : ReqDoc(r) = d => RequestAgrees(r, d)
    /\ Sent(d) # {} => Behind(d)
    /\ \A w \in Workers : Doc(w) = d => TaskAgrees(w, d)
    /\ ~Pending(d) => Current(d)

\* A task names segments of its own document only.
NamesItsOwn(w) ==
    /\ worker[w].at \in Cleaning \union {"mark"} => worker[w].ids \subseteq Of(Doc(w))
    /\ worker[w].at = "mark" => worker[w].left \subseteq Of(Doc(w)) /\ worker[w].live \subseteq Of(Doc(w))
    /\ worker[w].at = "putToggled" => tableLock = w /\ found \subseteq Of(Doc(w))

SwitchInv ==
    /\ \A d \in Documents : InTurn(d) /\ DocumentAgrees(d)
    /\ \A w \in Workers : NamesItsOwn(w)
    /\ \A s \in Segments : segment[s].status = "completed" => segment[s].enabled

OnlySwitches ==
    /\ Operations \subseteq {"toggle", "delete"}
    /\ Faults \intersect {"table", "sent", "worker_crash", "request_crash"} = {}
    /\ MaxRedeliveries = 0

\* What a step leaves as it was of the switches of document e, and of its segments.
TurnKeeps(e) ==
    /\ \A r \in Requests : \/ request'[r] = request[r]
                           \/ /\ request[r].at \in ToggleRequests => ReqDoc(r) # e
                              /\ request'[r].at \in ToggleRequests => request'[r].document # e
    /\ \A w \in Workers : \/ worker'[w] = worker[w]
                          \/ /\ worker[w].at \in ToggleTasks => Doc(w) # e
                             /\ worker'[w].at \in ToggleTasks => worker'[w].document # e
    /\ \A m \in Message : m.task = "toggle" /\ m.document = e => (m \in messages' <=> m \in messages)
    /\ e \in toggleLock' <=> e \in toggleLock

ServiceKeeps(e) ==
    /\ status'[e] = status[e] /\ enabled'[e] = enabled[e]
    /\ \A s \in Of(e) : segment'[s] = segment[s] /\ vector'[s] = vector[s] /\ (s \in table' <=> s \in table)
    /\ \A w \in Tasked(e) : worker[w].at = "putToggled" => found' = found

LEMMA TogglePlaces ==
    /\ Taking \subseteq ToggleRequests /\ "lookLock" \in ToggleRequests /\ {"takeLock", "commit", "send", "undo"} \subseteq Taking
    /\ \A p \in ToggleRequests : p \in Taking \/ p = "lookLock"
    /\ {"toggle", "mark", "putToggled", "unlock"} = ToggleTasks
    /\ "idle" \notin ToggleRequests /\ "idle" \notin Taking /\ "idle" \notin ToggleTasks
BY DEF Taking, ToggleRequests, ToggleTasks

LEMMA TurnSets ==
    ASSUME Typed, Typed', NEW e \in Documents, TurnKeeps(e)
    PROVE  Sent(e)' = Sent(e) /\ Tasked(e)' = Tasked(e) /\ Taken(e)' = Taken(e)
<1>1. messages \subseteq Message /\ messages' \subseteq Message
  BY DEF Typed, QueueTyped
<1>2. Sent(e)' = Sent(e)
  BY <1>1 DEF Sent, TurnKeeps
<1>3. \A w \in Workers : (worker'[w].at \in ToggleTasks /\ Doc(w)' = e) <=> (worker[w].at \in ToggleTasks /\ Doc(w) = e)
  BY DEF TurnKeeps, Doc
<1>4. Tasked(e)' = Tasked(e)
  BY <1>3 DEF Tasked
<1>5. \A r \in Requests : (request'[r].at \in Taking /\ ReqDoc(r)' = e) <=> (request[r].at \in Taking /\ ReqDoc(r) = e)
  BY TogglePlaces DEF TurnKeeps, ReqDoc
<1>6. Taken(e)' = Taken(e)
  BY <1>5 DEF Taken
<1> QED BY <1>2, <1>4, <1>6

LEMMA KeptTurn ==
    ASSUME Typed, Typed', NEW e \in Documents, TurnKeeps(e), InTurn(e)
    PROVE  InTurn(e)'
<1>1. Sent(e)' = Sent(e) /\ Tasked(e)' = Tasked(e) /\ Taken(e)' = Taken(e)
  BY TurnSets
<1>2. \A r \in Taken(e) : request'[r] = request[r]
  BY TogglePlaces DEF Taken, TurnKeeps
<1>3. e \in toggleLock' <=> e \in toggleLock
  BY DEF TurnKeeps
<1> QED BY <1>1, <1>2, <1>3 DEF InTurn

LEMMA KeptService ==
    ASSUME NEW e \in Documents, ServiceKeeps(e)
    PROVE  /\ Completed(e)' = Completed(e) /\ Exists(e)' = Exists(e)
           /\ Current(e)' <=> Current(e)
           /\ Behind(e)' <=> Behind(e)
<1>1. Completed(e)' = Completed(e) /\ Completed(e) \subseteq Of(e)
  <2>1. Of(e)' = Of(e) /\ \A s \in Of(e) : segment'[s] = segment[s]
    BY DEF Of, ServiceKeeps
  <2> QED BY <2>1 DEF Completed
<1>2. \A s \in Completed(e) : vector'[s] = vector[s] /\ (s \in table' <=> s \in table)
  BY <1>1 DEF ServiceKeeps
<1>3. AllFound(e)' <=> AllFound(e)
  BY <1>1, <1>2 DEF AllFound, Vector
<1>4. NoneFound(e)' <=> NoneFound(e)
  BY <1>1, <1>2 DEF NoneFound, Vector
<1>5. enabled'[e] = enabled[e] /\ status'[e] = status[e]
  BY DEF ServiceKeeps
<1> QED BY <1>1, <1>3, <1>4, <1>5 DEF Current, Behind, Exists

LEMMA KeptAgreement ==
    ASSUME Typed, Typed', NEW e \in Documents, TurnKeeps(e), ServiceKeeps(e), DocumentAgrees(e)
    PROVE  DocumentAgrees(e)'
<1>1. Sent(e)' = Sent(e) /\ Tasked(e)' = Tasked(e) /\ Taken(e)' = Taken(e)
  BY TurnSets
<1>2. /\ Completed(e)' = Completed(e) /\ Exists(e)' = Exists(e)
      /\ Current(e)' <=> Current(e)
      /\ Behind(e)' <=> Behind(e)
  BY KeptService
<1>3. Completed(e) \subseteq Of(e) /\ enabled'[e] = enabled[e]
  BY DEF Completed, ServiceKeeps
<1> SUFFICES ASSUME Exists(e) PROVE DocumentAgrees(e)'
  BY <1>2 DEF DocumentAgrees
<1>4. ASSUME NEW r \in Requests, ReqDoc(r)' = e PROVE RequestAgrees(r, e)'
  <2>1. CASE request'[r].at \in ToggleRequests
    <3>1. request'[r] = request[r] /\ ReqDoc(r) = e
      BY <1>4, <2>1 DEF TurnKeeps, ReqDoc
    <3>2. RequestAgrees(r, e)
      BY <3>1 DEF DocumentAgrees
    <3> QED BY <1>2, <1>3, <3>1, <3>2 DEF RequestAgrees
  <2>2. CASE request'[r].at \notin ToggleRequests
    BY <2>2 DEF RequestAgrees, ToggleRequests
  <2> QED BY <2>1, <2>2
<1>5. ASSUME NEW w \in Workers, Doc(w)' = e PROVE TaskAgrees(w, e)'
  <2>1. CASE worker'[w].at \in ToggleTasks
    <3>1. worker'[w] = worker[w] /\ Doc(w) = e
      BY <1>5, <2>1 DEF TurnKeeps, Doc
    <3>2. TaskAgrees(w, e)
      BY <3>1 DEF DocumentAgrees
    <3>3. w \in Tasked(e)
      BY <2>1, <3>1 DEF Tasked
    <3>4. \A s \in Completed(e) : vector'[s] = vector[s] /\ (s \in table' <=> s \in table)
      BY <1>3 DEF ServiceKeeps
    <3>5. worker[w].at = "putToggled" => found' = found
      BY <3>3 DEF ServiceKeeps
    <3>6. Marked(w, e) => Marked(w, e)'
      BY <1>2, <1>3, <3>1, <3>4 DEF Marked, Vector
    <3> QED BY <1>2, <1>3, <3>1, <3>2, <3>4, <3>5, <3>6 DEF TaskAgrees, Vector
  <2>2. CASE worker'[w].at \notin ToggleTasks
    BY <2>2 DEF TaskAgrees, ToggleTasks
  <2> QED BY <2>1, <2>2
<1>6. Pending(e)' <=> Pending(e)
  <2>1. \A r \in Requests : (request'[r].at \in {"send", "undo"} /\ ReqDoc(r)' = e)
                        <=> (request[r].at \in {"send", "undo"} /\ ReqDoc(r) = e)
    BY DEF TurnKeeps, ReqDoc, ToggleRequests
  <2> QED BY <1>1, <2>1 DEF Pending
<1> QED BY <1>1, <1>2, <1>4, <1>5, <1>6 DEF DocumentAgrees

LEMMA KeptElsewhere ==
    ASSUME Typed, Typed', SwitchInv, NEW d \in Documents,
           \A e \in Documents \ {d} : TurnKeeps(e) /\ ServiceKeeps(e),
           InTurn(d)', DocumentAgrees(d)'
    PROVE  \A e \in Documents : InTurn(e)' /\ DocumentAgrees(e)'
<1> SUFFICES ASSUME NEW e \in Documents, e # d PROVE InTurn(e)' /\ DocumentAgrees(e)'
  OBVIOUS
<1> QED BY KeptTurn, KeptAgreement DEF SwitchInv

\* A request about the switch of document d takes no part in what becomes of others.
LEMMA RequestElsewhere ==
    ASSUME Typed, NEW r \in Requests, NEW d \in Documents, NEW e \in Documents, e # d,
           Moves(r), UNCHANGED <<worker, segment, vector, tableVars>>,
           request[r].at \in ToggleRequests => ReqDoc(r) = d,
           request'[r].at \in ToggleRequests => request'[r].document = d,
           \A m \in Message : m.task = "toggle" /\ m.document # d => (m \in messages' <=> m \in messages),
           \A f \in Documents \ {d} : /\ f \in toggleLock' <=> f \in toggleLock
                                      /\ status'[f] = status[f] /\ enabled'[f] = enabled[f]
    PROVE  TurnKeeps(e) /\ ServiceKeeps(e)
<1>1. TurnKeeps(e)
  BY DEF TurnKeeps, Moves
<1>2. ServiceKeeps(e)
  BY DEF ServiceKeeps, tableVars
<1> QED BY <1>1, <1>2

\* Where a request is the only one to switch its document, and leaves the stores alone.
LEMMA RequestOfItsOwn ==
    ASSUME Typed, Typed', SwitchedInTurn, SwitchInv, NEW r \in Requests, request[r].at \in ToggleRequests,
           NEW d, d = ReqDoc(r), Moves(r), UNCHANGED <<worker, segment, vector, tableVars>>,
           request'[r].at \in ToggleRequests => request'[r].document = d
    PROVE  /\ d \in Documents
           /\ Tasked(d)' = Tasked(d) /\ Completed(d)' = Completed(d)
           /\ AllFound(d)' <=> AllFound(d)
           /\ NoneFound(d)' <=> NoneFound(d)
           /\ \A q \in Requests \ {r} : /\ request'[q].at \in ToggleRequests => ReqDoc(q)' # d
                                        /\ ReqDoc(q)' = d => RequestAgrees(q, d)'
           /\ Taken(d)' = IF request'[r].at \in Taking THEN {r} ELSE {}
           /\ Taken(d) = IF request[r].at \in Taking THEN {r} ELSE {}
<1>1. d \in Documents
  BY RequestDocument, TogglePlaces
<1>2. Tasked(d)' = Tasked(d)
  BY DEF Tasked, Doc
<1>3. Completed(d)' = Completed(d)
  BY DEF Completed, Of
<1>4. (AllFound(d)' <=> AllFound(d)) /\ (NoneFound(d)' <=> NoneFound(d))
  BY <1>3 DEF AllFound, NoneFound, Vector, tableVars
<1>5. \A q \in Requests \ {r} : request[q].at \in ToggleRequests => ReqDoc(q) # d
  BY DEF SwitchedInTurn
<1>6. \A q \in Requests \ {r} : request'[q].at \in ToggleRequests => ReqDoc(q)' # d
  BY <1>5 DEF Moves, ReqDoc
<1>7. ASSUME NEW q \in Requests \ {r}, ReqDoc(q)' = d PROVE RequestAgrees(q, d)'
  BY <1>6, <1>7 DEF RequestAgrees, ToggleRequests
<1>8. Taken(d) = IF request[r].at \in Taking THEN {r} ELSE {}
  BY <1>5, TogglePlaces DEF Taken
<1>9. Taken(d)' = IF request'[r].at \in Taking THEN {r} ELSE {}
  BY <1>6, TogglePlaces DEF Taken, ReqDoc
<1> QED BY <1>1, <1>2, <1>3, <1>4, <1>6, <1>7, <1>8, <1>9

\* A document's request is at a place, its stores are what they were, and nothing is sent
\* or has been sent.
LEMMA AgreesWhileTaken ==
    ASSUME Typed, Typed', NEW r \in Requests, NEW d, d \in Documents, DocumentAgrees(d), UNCHANGED worker,
           Sent(d)' = {}, Tasked(d)' = {},
           \A q \in Requests \ {r} : ReqDoc(q)' = d => RequestAgrees(q, d)',
           Exists(d)' => /\ ReqDoc(r)' = d => RequestAgrees(r, d)'
                         /\ (request'[r].at \in {"send", "undo"} /\ ReqDoc(r)' = d) \/ Current(d)'
    PROVE  DocumentAgrees(d)'
<1> SUFFICES ASSUME Exists(d)' PROVE DocumentAgrees(d)'
  BY DEF DocumentAgrees
<1>1. \A w \in Workers : Doc(w)' = d => worker'[w].at \notin ToggleTasks
  BY DEF Tasked
<1>2. \A w \in Workers : Doc(w)' = d => TaskAgrees(w, d)'
  BY <1>1 DEF TaskAgrees, ToggleTasks
<1>3. ~Pending(d)' => Current(d)'
  BY DEF Pending
<1> QED BY <1>2, <1>3 DEF DocumentAgrees

\* A request that has not got the lock yet leaves everything as it was.
LEMMA AgreesWhileLooking ==
    ASSUME Typed, Typed', SwitchInv, NEW r \in Requests, Moves(r),
           UNCHANGED <<worker, messages, toggleLock, storeVars>>,
           request[r].at \notin Taking, request'[r].at \notin Taking,
           request'[r].at = "lookLock" => (request'[r].want <=> ~enabled[request'[r].document]),
           NEW e \in Documents
    PROVE  InTurn(e)' /\ DocumentAgrees(e)'
<1>0. InTurn(e) /\ DocumentAgrees(e)
  BY DEF SwitchInv
<1>1. ServiceKeeps(e)
  BY DEF ServiceKeeps, storeVars, documentVars, tableVars
<1>2. Sent(e)' = Sent(e) /\ Tasked(e)' = Tasked(e)
  BY DEF Sent, Tasked, Doc
<1>3. Taken(e)' = Taken(e) /\ \A q \in Taken(e) : request'[q] = request[q]
  BY DEF Taken, Moves, ReqDoc
<1>4. InTurn(e)'
  BY <1>0, <1>2, <1>3 DEF InTurn
<1>5. /\ Completed(e)' = Completed(e) /\ Exists(e)' = Exists(e)
      /\ Current(e)' <=> Current(e)
      /\ Behind(e)' <=> Behind(e)
  BY <1>1, KeptService
<1>6. UNCHANGED <<enabled, vector, table, found>>
  BY DEF storeVars, documentVars, tableVars
<1>7. ASSUME Exists(e) PROVE DocumentAgrees(e)'
  <2>1. ASSUME NEW q \in Requests, ReqDoc(q)' = e PROVE RequestAgrees(q, e)'
    <3>1. CASE q = r
      <4>1. request'[r].at \notin {"takeLock", "commit", "send", "undo"}
        BY DEF Taking
      <4>2. request'[r].at = "lookLock" => (request'[r].want <=> ~enabled'[e])
        BY <1>6, <2>1, <3>1 DEF ReqDoc
      <4> QED BY <3>1, <4>1, <4>2 DEF RequestAgrees
    <3>2. CASE q # r
      <4>1. request'[q] = request[q] /\ ReqDoc(q) = e
        BY <2>1, <3>2 DEF Moves, ReqDoc
      <4>2. RequestAgrees(q, e)
        BY <1>0, <1>7, <4>1 DEF DocumentAgrees
      <4> QED BY <1>5, <1>6, <4>1, <4>2 DEF RequestAgrees
    <3> QED BY <3>1, <3>2
  <2>2. ASSUME NEW w \in Workers, Doc(w)' = e PROVE TaskAgrees(w, e)'
    <3>1. TaskAgrees(w, e)
      BY <1>0, <1>7, <2>2 DEF DocumentAgrees, Doc
    <3> QED BY <1>5, <1>6, <3>1 DEF TaskAgrees, Marked, Vector
  <2>3. Pending(e) => Pending(e)'
    <3>1. \A q \in Requests : request[q].at \in {"send", "undo"} => q # r /\ request'[q] = request[q]
      BY DEF Taking, Moves
    <3> QED BY <1>2, <3>1 DEF Pending, ReqDoc
  <2> QED BY <1>0, <1>2, <1>5, <1>7, <2>1, <2>2, <2>3 DEF DocumentAgrees
<1> QED BY <1>4, <1>5, <1>7 DEF DocumentAgrees

\* While a request has a document to itself no message and no task is about its switch,
\* and its stores are what its row says until the request commits.
LEMMA NobodyElse ==
    ASSUME Typed, SwitchedInTurn, SwitchInv, NEW r \in Requests, NEW d, d = ReqDoc(r), d \in Documents,
           request[r].at \in ToggleRequests, request[r].at \in Taking \/ d \notin toggleLock
    PROVE  /\ Sent(d) = {} /\ Tasked(d) = {}
           /\ Exists(d) => RequestAgrees(r, d)
           /\ Exists(d) /\ request[r].at \notin {"send", "undo"} => Current(d)
<1>1. InTurn(d) /\ DocumentAgrees(d)
  BY DEF SwitchInv
<1>2. request[r].at \in Taking => r \in Taken(d)
  BY DEF Taken
<1>3. Sent(d) = {} /\ Tasked(d) = {}
  BY <1>1, <1>2 DEF InTurn
<1>4. \A q \in Requests : request[q].at \in {"send", "undo"} /\ ReqDoc(q) = d => q = r
  BY DEF SwitchedInTurn, ToggleRequests
<1>5. request[r].at \notin {"send", "undo"} => ~Pending(d)
  BY <1>3, <1>4 DEF Pending
<1> QED BY <1>1, <1>3, <1>5 DEF DocumentAgrees

LEMMA RequestFields ==
    ASSUME Typed, NEW r \in Requests
    PROVE  /\ \A from, to : Goes(r, from, to) =>
                 /\ Moves(r) /\ request[r].at = from /\ request'[r].at = to
                 /\ request'[r].document = request[r].document /\ request'[r].want = request[r].want
           /\ Replies(r) => Moves(r) /\ request'[r].at = "idle"
<1>1. request \in [Requests -> RequestRecord]
  BY DEF Typed, RequestsTyped
<1> QED BY <1>1 DEF Goes, Replies, NoRequest, Moves, RequestRecord

\* The next place of a request that has its document to itself fits what it has done.
LEMMA SwitchGoes ==
    ASSUME Typed, Typed', SwitchedInTurn, SwitchInv, NEW r \in Requests, NEW d, d = ReqDoc(r),
           request[r].at \in ToggleRequests, request[r].at \in Taking \/ d \notin toggleLock,
           Moves(r), UNCHANGED <<worker, messages, segment, vector, tableVars, status>>,
           request'[r].at \in ToggleRequests => /\ request'[r].document = d
                                                /\ request'[r].want = request[r].want,
           request'[r].at \in {"commit", "send", "undo"} => d \in toggleLock',
           \A e \in Documents \ {d} : (e \in toggleLock' <=> e \in toggleLock) /\ enabled'[e] = enabled[e],
           Exists(d) =>
              \/ request[r].at \notin {"send", "undo"} /\ request'[r].at \in {"takeLock", "commit"} /\ enabled'[d] = enabled[d]
              \/ request[r].at = "commit" /\ request'[r].at = "send" /\ enabled'[d] = request[r].want
              \/ request[r].at = "send" /\ request'[r].at = "undo" /\ enabled'[d] = enabled[d]
              \/ request[r].at = "undo" /\ request'[r].at = "idle" /\ enabled'[d] = ~request[r].want
    PROVE  \A e \in Documents : InTurn(e)' /\ DocumentAgrees(e)'
<1>1. /\ d \in Documents /\ Tasked(d)' = Tasked(d)
      /\ AllFound(d)' <=> AllFound(d)
      /\ NoneFound(d)' <=> NoneFound(d)
      /\ \A q \in Requests \ {r} : ReqDoc(q)' = d => RequestAgrees(q, d)'
      /\ Taken(d)' = IF request'[r].at \in Taking THEN {r} ELSE {}
  BY RequestOfItsOwn
<1>2. /\ Sent(d) = {} /\ Tasked(d) = {}
      /\ Exists(d) => RequestAgrees(r, d)
      /\ Exists(d) /\ request[r].at \notin {"send", "undo"} => Current(d)
  BY <1>1, NobodyElse
<1>3. Sent(d)' = {}
  BY <1>2 DEF Sent
<1>4. InTurn(d)'
  BY <1>1, <1>2, <1>3 DEF InTurn
<1>5. enabled[d] \in BOOLEAN /\ enabled'[d] \in BOOLEAN /\ request[r].want \in BOOLEAN
  BY <1>1 DEF Typed, DocumentsTyped, RequestsTyped, RequestRecord
<1>6. Exists(d)' = Exists(d)
  BY DEF Exists
<1>7. ASSUME Exists(d)
      PROVE  RequestAgrees(r, d)' /\ ((request'[r].at \in {"send", "undo"} /\ ReqDoc(r)' = d) \/ Current(d)')
  <2>1. RequestAgrees(r, d)
    BY <1>2, <1>7
  <2>2. CASE request[r].at \notin {"send", "undo"} /\ request'[r].at \in {"takeLock", "commit"} /\ enabled'[d] = enabled[d]
    <3>1. request[r].at \in {"lookLock", "takeLock", "commit"}
      BY <2>2 DEF ToggleRequests
    <3>2. Current(d)'
      BY <1>1, <1>2, <1>7, <2>2 DEF Current
    <3> QED BY <2>1, <2>2, <3>1, <3>2 DEF RequestAgrees, ToggleRequests
  <2>3. CASE request[r].at = "commit" /\ request'[r].at = "send" /\ enabled'[d] = request[r].want
    <3>1. Current(d) /\ (enabled'[d] <=> ~enabled[d])
      BY <1>2, <1>5, <1>7, <2>1, <2>3 DEF RequestAgrees
    <3>2. Behind(d)'
      BY <1>1, <3>1 DEF Current, Behind
    <3> QED BY <2>3, <3>2 DEF RequestAgrees, ToggleRequests, ReqDoc
  <2>4. CASE request[r].at = "send" /\ request'[r].at = "undo" /\ enabled'[d] = enabled[d]
    <3>1. Behind(d) /\ (request[r].want <=> enabled[d])
      BY <2>1, <2>4 DEF RequestAgrees
    <3>2. Behind(d)'
      BY <1>1, <2>4, <3>1 DEF Behind
    <3> QED BY <2>4, <3>1, <3>2 DEF RequestAgrees, ToggleRequests, ReqDoc
  <2>5. CASE request[r].at = "undo" /\ request'[r].at = "idle" /\ enabled'[d] = ~request[r].want
    <3>1. Behind(d) /\ (enabled'[d] <=> ~enabled[d])
      BY <1>5, <2>1, <2>5 DEF RequestAgrees
    <3>2. Current(d)'
      BY <1>1, <3>1 DEF Current, Behind
    <3> QED BY <2>5, <3>2 DEF RequestAgrees
  <2> QED BY <1>7, <2>2, <2>3, <2>4, <2>5
<1>8. DocumentAgrees(d)'
  <2>1. DocumentAgrees(d)
    BY <1>1 DEF SwitchInv
  <2> QED BY <1>1, <1>2, <1>3, <1>6, <1>7, <2>1, AgreesWhileTaken
<1>9. \A e \in Documents \ {d} : TurnKeeps(e) /\ ServiceKeeps(e)
  BY <1>1, RequestElsewhere
<1> QED BY <1>1, <1>4, <1>8, <1>9, KeptElsewhere

LEMMA SwitchAsked ==
    ASSUME KnowledgeAssumption, OnlySwitches, Typed, Typed', SwitchedInTurn, SwitchInv, NEW r \in Requests,
           \/ \E d \in Documents : AskToggle(r, d)
           \/ LookLock(r) \/ TakeLock(r) \/ Commit(r) \/ SendToggle(r) \/ SendToggleRaises(r) \/ UndoToggle(r)
    PROVE  \A e \in Documents : InTurn(e)' /\ DocumentAgrees(e)'
<1>0. "sent" \notin Faults
  BY DEF OnlySwitches
<1>a. CASE \E d \in Documents : AskToggle(r, d)
  <2>1. PICK d \in Documents : AskToggle(r, d)
    BY <1>a
  <2>2. /\ Moves(r) /\ request[r].at = "idle" /\ request'[r].at = "lookLock"
        /\ request'[r].document = d /\ request'[r].want = ~enabled[d]
    BY <2>1 DEF AskToggle, Begin, Moves, Typed, RequestsTyped, RequestRecord
  <2>3. UNCHANGED <<worker, messages, toggleLock, storeVars>>
    BY <2>1 DEF AskToggle, workerVars
  <2>4. "idle" \notin Taking /\ "lookLock" \notin Taking
    BY DEF Taking
  <2> QED BY <2>2, <2>3, <2>4, AgreesWhileLooking
<1>b. CASE LookLock(r)
  <2> DEFINE d == ReqDoc(r)
  <2>1. request[r].at = "lookLock" /\ UNCHANGED <<worker, messages, toggleLock, storeVars>>
    BY <1>b DEF LookLock, Ends, Goes, workerVars
  <2>2. CASE d \in toggleLock
    <3>1. Replies(r)
      BY <1>b, <2>2 DEF LookLock, Ends
    <3>2. Moves(r) /\ request'[r].at = "idle"
      BY <3>1, RequestFields
    <3>3. "idle" \notin Taking /\ "lookLock" \notin Taking
      BY DEF Taking
    <3> QED BY <2>1, <3>2, <3>3, AgreesWhileLooking
  <2>3. CASE d \notin toggleLock
    <3>1. Goes(r, "lookLock", "takeLock")
      BY <1>b, <2>3 DEF LookLock
    <3>2. /\ Moves(r) /\ request'[r].at = "takeLock"
          /\ request'[r].document = request[r].document /\ request'[r].want = request[r].want
      BY <3>1, RequestFields
    <3> HIDE DEF d
    <3>3. PICK f : f = d
      OBVIOUS
    <3>4. f = ReqDoc(r) /\ f \notin toggleLock /\ request'[r].document = f
      BY <2>3, <3>2, <3>3 DEF d, ReqDoc
    <3>5. UNCHANGED <<segment, vector, tableVars, status, enabled>>
      BY <2>1 DEF storeVars, documentVars
    <3> QED BY <2>1, <3>2, <3>4, <3>5, SwitchGoes, TogglePlaces
  <2> QED BY <2>2, <2>3
<1>x. ASSUME request[r].at # "idle" PROVE ReqDoc(r) \in Documents
  BY <1>x, RequestDocument
<1>y. enabled \in [Documents -> BOOLEAN] /\ request[r].want \in BOOLEAN
  BY DEF Typed, DocumentsTyped, RequestsTyped, RequestRecord
<1>z. PICK d : d = ReqDoc(r)
  OBVIOUS
<1>c. CASE TakeLock(r)
  <2>1. Goes(r, "takeLock", "commit") /\ toggleLock' = toggleLock \union {d}
    BY <1>c, <1>z DEF TakeLock
  <2>2. /\ Moves(r) /\ request[r].at = "takeLock" /\ request'[r].at = "commit"
        /\ request'[r].document = d /\ request'[r].want = request[r].want
    BY <1>z, <2>1, RequestFields DEF ReqDoc
  <2>3. UNCHANGED <<worker, messages, segment, vector, tableVars, status, enabled>>
    BY <1>c DEF TakeLock, storeVars, documentVars
  <2> QED BY <1>z, <2>1, <2>2, <2>3, SwitchGoes, TogglePlaces
<1>d. CASE Commit(r)
  <2>1. UNCHANGED <<worker, messages, segment, vector, tableVars>> /\ request[r].at = "commit"
    BY <1>d DEF Commit
  <2>2. d \in Documents /\ d \in toggleLock
    <3>1. d \in Documents
      BY <1>x, <1>z, <2>1
    <3>2. r \in Taken(d)
      BY <1>z, <2>1 DEF Taken, Taking
    <3> QED BY <2>1, <3>1, <3>2 DEF SwitchInv, InTurn
  <2>3. CASE Exists(d)
    <3>1. Goes(r, "commit", "send") /\ SetEnabled(d, request[r].want) /\ UNCHANGED toggleLock
      BY <1>d, <1>z, <2>3 DEF Commit
    <3>2. /\ Moves(r) /\ request'[r].at = "send"
          /\ request'[r].document = d /\ request'[r].want = request[r].want
      BY <1>z, <3>1, RequestFields DEF ReqDoc
    <3>3. /\ UNCHANGED status
          /\ \A e \in Documents \ {d} : enabled'[e] = enabled[e]
          /\ enabled'[d] = request[r].want
      BY <1>y, <2>2, <2>3, <3>1 DEF SetEnabled
    <3> QED BY <1>z, <2>1, <2>2, <3>1, <3>2, <3>3, SwitchGoes, TogglePlaces
  <2>4. CASE ~Exists(d)
    <3>1. Replies(r) /\ toggleLock' = toggleLock \ {d} /\ UNCHANGED <<status, enabled>>
      BY <1>d, <1>z, <2>4 DEF Commit, Ends, documentVars
    <3>2. Moves(r) /\ request'[r].at = "idle"
      BY <3>1, RequestFields
    <3> QED BY <1>z, <2>1, <2>4, <3>1, <3>2, SwitchGoes, TogglePlaces
  <2> QED BY <2>3, <2>4
<1>e. CASE SendToggle(r)
  <2>1. /\ Ends(r, "send") /\ messages' = messages \union {Msg("toggle", d, 0)}
        /\ UNCHANGED <<worker, toggleLock, storeVars>>
    BY <1>e, <1>z DEF SendToggle, Send
  <2>2. Moves(r) /\ request[r].at = "send" /\ request'[r].at = "idle"
    BY <2>1, RequestFields DEF Ends
  <2>3. UNCHANGED <<worker, toggleLock, segment, vector, tableVars, status, enabled>>
    BY <2>1 DEF storeVars, documentVars
  <2>4. d \in Documents
    BY <1>x, <1>z, <2>2
  <2>5. d \in toggleLock
    <3>1. r \in Taken(d)
      BY <1>z, <2>2 DEF Taken, Taking
    <3> QED BY <2>2, <2>4, <3>1 DEF SwitchInv, InTurn
  <2>6. PICK m : m = Msg("toggle", d, 0)
    OBVIOUS
  <2>7. m.task = "toggle" /\ m.document = d /\ messages' = messages \union {m}
    BY <2>1, <2>6 DEF Msg
  <2>8. /\ Tasked(d)' = Tasked(d)
        /\ AllFound(d)' <=> AllFound(d)
        /\ NoneFound(d)' <=> NoneFound(d)
        /\ \A q \in Requests \ {r} : ReqDoc(q)' = d => RequestAgrees(q, d)'
        /\ Taken(d)' = {}
    BY <1>z, <2>2, <2>3, RequestOfItsOwn, TogglePlaces
  <2>9. /\ Sent(d) = {} /\ Tasked(d) = {}
        /\ Exists(d) => RequestAgrees(r, d)
    BY <1>z, <2>2, <2>4, NobodyElse, TogglePlaces
  <2>10. Sent(d)' = {m}
    BY <2>7, <2>9 DEF Sent
  <2>11. InTurn(d)'
    BY <2>3, <2>5, <2>8, <2>9, <2>10 DEF InTurn
  <2>12. DocumentAgrees(d)'
    <3> SUFFICES ASSUME Exists(d)' PROVE DocumentAgrees(d)'
      BY DEF DocumentAgrees
    <3>1. Behind(d)
      BY <2>2, <2>3, <2>9 DEF RequestAgrees, Exists
    <3>2. Behind(d)'
      BY <2>3, <2>8, <3>1 DEF Behind
    <3>3. \A w \in Workers : Doc(w)' = d => worker'[w].at \notin ToggleTasks
      BY <2>8, <2>9 DEF Tasked
    <3>4. \A w \in Workers : Doc(w)' = d => TaskAgrees(w, d)'
      BY <3>3 DEF TaskAgrees, ToggleTasks
    <3>5. RequestAgrees(r, d)'
      BY <2>2 DEF RequestAgrees
    <3>6. Pending(d)'
      BY <2>10 DEF Pending
    <3> QED BY <2>8, <3>2, <3>4, <3>5, <3>6 DEF DocumentAgrees
  <2>13. \A e \in Documents \ {d} : TurnKeeps(e) /\ ServiceKeeps(e)
    BY <1>z, <2>2, <2>3, <2>4, <2>7, RequestElsewhere, TogglePlaces
  <2> QED BY <2>4, <2>11, <2>12, <2>13, KeptElsewhere
<1>f. CASE SendToggleRaises(r)
  <2>1. Goes(r, "send", "undo") /\ UNCHANGED workerVars /\ UNCHANGED storeVars
    BY <1>0, <1>f DEF SendToggleRaises, SendRaises
  <2>2. /\ Moves(r) /\ request[r].at = "send" /\ request'[r].at = "undo"
        /\ request'[r].document = d /\ request'[r].want = request[r].want
    BY <1>z, <2>1, RequestFields DEF ReqDoc
  <2>3. UNCHANGED <<worker, messages, toggleLock, segment, vector, tableVars, status, enabled>>
    BY <2>1 DEF workerVars, storeVars, documentVars
  <2>4. d \in toggleLock
    <3>1. d \in Documents
      BY <1>x, <1>z, <2>2
    <3>2. r \in Taken(d)
      BY <1>z, <2>2 DEF Taken, Taking
    <3> QED BY <2>2, <3>1, <3>2 DEF SwitchInv, InTurn
  <2> QED BY <1>z, <2>2, <2>3, <2>4, SwitchGoes, TogglePlaces
<1>g. CASE UndoToggle(r)
  <2>1. /\ Ends(r, "undo") /\ SetEnabled(d, ~request[r].want) /\ toggleLock' = toggleLock \ {d}
        /\ UNCHANGED <<worker, messages, segment, vector, tableVars>>
    BY <1>g, <1>z DEF UndoToggle
  <2>2. Moves(r) /\ request[r].at = "undo" /\ request'[r].at = "idle"
    BY <2>1, RequestFields DEF Ends
  <2>3. d \in Documents
    BY <1>x, <1>z, <2>2
  <2>4. /\ UNCHANGED status
        /\ \A e \in Documents \ {d} : enabled'[e] = enabled[e]
        /\ Exists(d) => enabled'[d] = ~request[r].want
    BY <1>y, <2>1, <2>3 DEF SetEnabled
  <2> QED BY <1>z, <2>1, <2>2, <2>4, SwitchGoes, TogglePlaces
<1> QED BY <1>a, <1>b, <1>c, <1>d, <1>e, <1>f, <1>g

LEMMA KeptAll ==
    ASSUME Typed, Typed', SwitchInv, \A e \in Documents : TurnKeeps(e) /\ (ServiceKeeps(e) \/ ~Exists(e)')
    PROVE  \A e \in Documents : InTurn(e)' /\ DocumentAgrees(e)'
<1> SUFFICES ASSUME NEW e \in Documents PROVE InTurn(e)' /\ DocumentAgrees(e)'
  OBVIOUS
<1>1. InTurn(e) /\ DocumentAgrees(e)
  BY DEF SwitchInv
<1>2. ~Exists(e)' => DocumentAgrees(e)'
  BY DEF DocumentAgrees
<1> QED BY <1>1, <1>2, KeptTurn, KeptAgreement

\* A delete leaves switches to themselves, and ends what is promised of its document.
LEMMA RemoveAsked ==
    ASSUME KnowledgeAssumption, OnlySwitches, Typed, Typed', SwitchInv, NEW r \in Requests, Remove(r)
    PROVE  \A e \in Documents : InTurn(e)' /\ DocumentAgrees(e)'
<1>1. /\ Moves(r) /\ request[r].at \in {"idle", "sendDelete", "deleteRow"}
      /\ request'[r].at \in {"idle", "sendDelete", "deleteRow"}
  <2>1. ASSUME NEW d \in Documents, AskDelete(r, d) PROVE Moves(r) /\ request[r].at = "idle" /\ request'[r].at = "sendDelete"
    BY <2>1 DEF AskDelete, Begin, Moves, Typed, RequestsTyped, RequestRecord
  <2>2. SendDelete(r) => Goes(r, "sendDelete", "deleteRow")
    BY DEF SendDelete
  <2>3. SendDeleteRaises(r) => request[r].at = "sendDelete" /\ Replies(r)
    BY DEF SendDeleteRaises, Ends
  <2>4. DeleteRow(r) => request[r].at = "deleteRow" /\ Replies(r)
    BY DEF DeleteRow, Ends
  <2> QED BY <2>1, <2>2, <2>3, <2>4, RequestFields DEF Remove
<1>2. UNCHANGED <<worker, toggleLock, segment, vector, tableVars>>
  BY DEF Remove, AskDelete, SendDelete, SendDeleteRaises, DeleteRow, Send, SendRaises, workerVars, storeVars
<1>3. \A m \in Message : m.task = "toggle" => (m \in messages' <=> m \in messages)
  <2>1. \A d : Msg("delete", d, 0).task = "delete"
    BY DEF Msg
  <2>2. messages' = messages \/ \E m : m = Msg("delete", ReqDoc(r), 0) /\ messages' = messages \union {m}
    BY DEF Remove, AskDelete, SendDelete, SendDeleteRaises, DeleteRow, Send, SendRaises, workerVars
  <2> QED BY <2>1, <2>2
<1>4. ASSUME NEW e \in Documents PROVE TurnKeeps(e)
  BY <1>1, <1>2, <1>3 DEF TurnKeeps, Moves, ToggleRequests
<1>5. ASSUME NEW e \in Documents, ~DeleteRow(r) PROVE ServiceKeeps(e)
  <2>1. UNCHANGED <<status, enabled>>
    BY <1>5 DEF Remove, AskDelete, SendDelete, SendDeleteRaises, storeVars, documentVars
  <2> QED BY <1>2, <2>1 DEF ServiceKeeps, tableVars
<1>6. ASSUME NEW e \in Documents, DeleteRow(r) PROVE ServiceKeeps(e) \/ ~Exists(e)'
  <2>1. status' = [status EXCEPT ![ReqDoc(r)] = "gone"] /\ enabled' = [enabled EXCEPT ![ReqDoc(r)] = FALSE]
    BY <1>6 DEF DeleteRow
  <2>2. CASE e = ReqDoc(r)
    BY <2>1, <2>2 DEF Exists, NoRow, Typed, DocumentsTyped
  <2>3. CASE e # ReqDoc(r)
    BY <1>2, <2>1, <2>3 DEF ServiceKeeps, tableVars
  <2> QED BY <2>2, <2>3
<1> QED BY <1>4, <1>5, <1>6, KeptAll

\* A clean-up and its retries leave switches to themselves, and the stores of documents
\* that are there.
LEMMA CleaningKeeps ==
    ASSUME KnowledgeAssumption, OwnInv, Typed', SwitchInv, NEW w \in Workers, Delete(w), UNCHANGED requestVars
    PROVE  \A e \in Documents : InTurn(e)' /\ DocumentAgrees(e)'
<1>1. Typed /\ worker \in [Workers -> WorkerRecord] /\ UNCHANGED request
  BY DEF OwnInv, Typed, WorkersTyped, requestVars
<1>2. /\ worker[w].at \in {"delete", "dropVectors", "dropSegments", "dropKeywords"}
      /\ \A v \in Workers \ {w} : worker'[v] = worker[v]
      /\ worker'[w].at \in {"idle", "dropVectors", "dropSegments", "dropKeywords"}
  <2>1. Retry(w) => Done(w)
    BY DEF Retry
  <2>2. Done(w) => (\A v \in Workers \ {w} : worker'[v] = worker[v]) /\ worker'[w].at = "idle"
    BY <1>1 DEF Done, Free
  <2>3. \A from, to : Step(w, from, to) => /\ worker[w].at = from /\ (\A v \in Workers \ {w} : worker'[v] = worker[v])
                                           /\ worker'[w].at = to
    BY <1>1 DEF Step, WorkerRecord
  <2>4. Look(w) => \/ Retry(w) /\ worker[w].at = "delete"
                   \/ /\ (\A v \in Workers \ {w} : worker'[v] = worker[v]) /\ worker[w].at = "delete"
                      /\ worker'[w].at = "dropVectors"
    BY <1>1 DEF Look, WorkerRecord
  <2> QED BY <2>1, <2>2, <2>3, <2>4 DEF Delete, DropVectors, DropSegments, DropKeywords, DropFails
<1>3. UNCHANGED <<toggleLock, status, enabled>>
  BY DEF Delete, Look, DropVectors, DropSegments, DropKeywords, DropFails, Retry, queueVars, storeVars, documentVars
<1>4. \A m \in Message : m.task = "toggle" => (m \in messages' <=> m \in messages)
  <2>1. \A d, n : Msg("delete", d, n).task = "delete"
    BY DEF Msg
  <2>2. messages' = messages \/ \E m, n : m = Msg("delete", Doc(w), n) /\ messages' = messages \union {m}
    BY DEF Delete, Look, DropVectors, DropSegments, DropKeywords, DropFails, Retry, queueVars
  <2> QED BY <2>1, <2>2
<1>5. ASSUME NEW e \in Documents PROVE TurnKeeps(e)
  BY <1>1, <1>2, <1>3, <1>4 DEF TurnKeeps, ToggleTasks
<1>6. ASSUME NEW e \in Documents, Exists(e)' PROVE ServiceKeeps(e)
  <2>1. Exists(e) /\ status[e] # "gone"
    BY <1>3, <1>6 DEF Exists, NoRow
  <2>2. worker[w].at \in Cleaning => Doc(w) # e
    BY <2>1 DEF OwnInv, DeletesAgree
  <2>3. Doc(w) \in Documents
    BY <1>1, <1>2 DEF Typed, WorkersTyped, Doc
  <2>4. \A s \in Of(e) : s \in Segments /\ s[1] = e
    BY SegmentsOf
  <2>5. \A s \in Of(Doc(w)) : s[1] = Doc(w)
    BY <2>3, SegmentsOf
  <2>6. CASE Look(w) \/ DropFails(w)
    BY <1>3, <2>6 DEF Look, DropFails, ServiceKeeps, storeVars, tableVars
  <2>7. CASE DropVectors(w)
    <3>1. SetVectors(Of(Doc(w)), None) /\ UNCHANGED <<segment, tableVars>> /\ Doc(w) # e
      BY <2>2, <2>7 DEF DropVectors, Step, Cleaning
    <3> QED BY <1>3, <2>4, <2>5, <3>1 DEF ServiceKeeps, SetVectors, tableVars
  <2>8. CASE DropSegments(w)
    <3>1. SetSegments(Rows(Doc(w)), Row("gone", FALSE)) /\ UNCHANGED <<vector, tableVars>> /\ Doc(w) # e
      BY <2>2, <2>8 DEF DropSegments, Step, Cleaning
    <3>2. Rows(Doc(w)) \subseteq Of(Doc(w))
      BY DEF Rows
    <3> QED BY <1>3, <2>4, <2>5, <3>1, <3>2 DEF ServiceKeeps, SetSegments, tableVars
  <2>9. CASE DropKeywords(w)
    <3>1. delete_keyword_table_from_ids(worker[w].ids) /\ UNCHANGED <<segment, vector>> /\ Doc(w) # e /\ worker[w].at \in Cleaning
      BY <2>2, <2>9 DEF DropKeywords, Cleaning
    <3>2. worker[w].ids \subseteq Of(Doc(w))
      BY <3>1 DEF SwitchInv, NamesItsOwn
    <3> QED BY <1>3, <2>4, <2>5, <3>1, <3>2 DEF ServiceKeeps, delete_keyword_table_from_ids
  <2> QED BY <2>6, <2>7, <2>8, <2>9 DEF Delete
<1> QED BY <1>1, <1>5, <1>6, KeptAll

\* A task that switches a document is the only one, and goes to a place that fits what it
\* has done of that document.
LEMMA TaskGoes ==
    ASSUME KnowledgeAssumption, Typed, Typed', SwitchInv, NEW w \in Workers, NEW d, d = Doc(w),
           worker[w].at \in ToggleTasks, \A v \in Workers \ {w} : worker'[v] = worker[v],
           UNCHANGED <<request, messages, status>>,
           worker'[w].at \in ToggleTasks => worker'[w].document = d /\ d \in toggleLock',
           \A e \in Documents \ {d} : (e \in toggleLock' <=> e \in toggleLock) /\ enabled'[e] = enabled[e],
           \A s \in Segments \ Of(d) : segment'[s] = segment[s] /\ vector'[s] = vector[s] /\ (s \in table' <=> s \in table),
           \/ \E ids : add_keyword_table_Read(w, ids) \/ delete_keyword_table_from_ids(ids)
           \/ add_keyword_table_Write(w) \/ UNCHANGED tableVars,
           Exists(d) => /\ enabled'[d] = enabled[d]
                        /\ worker'[w].at \in ToggleTasks => TaskAgrees(w, d)'
                        /\ worker'[w].at \notin ToggleTasks => Current(d)'
    PROVE  \A e \in Documents : InTurn(e)' /\ DocumentAgrees(e)'
<1>1. d \in Documents
  BY TogglePlaces DEF Typed, WorkersTyped, Doc
<1>2. InTurn(d) /\ DocumentAgrees(d) /\ w \in Tasked(d)
  BY <1>1 DEF SwitchInv, Tasked
<1>3. Sent(d) = {} /\ Taken(d) = {}
  BY <1>2 DEF InTurn
<1>4. \A v \in Workers \ {w} : Doc(v)' = d => worker'[v].at \notin ToggleTasks
  BY <1>2 DEF InTurn, Tasked, Doc
<1>5. Sent(d)' = {} /\ Taken(d)' = {}
  BY <1>3 DEF Sent, Taken, ReqDoc
<1>6. Tasked(d)' = IF worker'[w].at \in ToggleTasks THEN {w} ELSE {}
  BY <1>4 DEF Tasked, Doc
<1>7. InTurn(d)'
  BY <1>5, <1>6 DEF InTurn
<1>8. DocumentAgrees(d)'
  <2> SUFFICES ASSUME Exists(d)' PROVE DocumentAgrees(d)'
    BY DEF DocumentAgrees
  <2>1. Exists(d) /\ enabled'[d] = enabled[d]
    BY DEF Exists
  <2>2. ASSUME NEW r \in Requests, ReqDoc(r)' = d PROVE RequestAgrees(r, d)'
    <3>1. request'[r] = request[r] /\ ReqDoc(r) = d /\ RequestAgrees(r, d)
      BY <1>2, <2>1, <2>2 DEF DocumentAgrees, ReqDoc
    <3>2. request[r].at \notin Taking
      BY <1>3, <3>1 DEF Taken
    <3> QED BY <2>1, <3>1, <3>2 DEF RequestAgrees, Taking
  <2>3. ASSUME NEW v \in Workers, Doc(v)' = d PROVE TaskAgrees(v, d)'
    <3>1. CASE worker'[v].at \in ToggleTasks
      BY <1>4, <2>1, <2>3, <3>1
    <3>2. CASE worker'[v].at \notin ToggleTasks
      BY <3>2 DEF TaskAgrees, ToggleTasks
    <3> QED BY <3>1, <3>2
  <2>4. ~Pending(d)' => Current(d)'
    BY <1>6, <2>1 DEF Pending
  <2> QED BY <1>5, <2>2, <2>3, <2>4 DEF DocumentAgrees
<1>9. ASSUME NEW e \in Documents \ {d} PROVE TurnKeeps(e) /\ ServiceKeeps(e)
  <2>1. TurnKeeps(e)
    BY <1>9 DEF TurnKeeps, Doc
  <2>2. ASSUME NEW v \in Tasked(e), worker[v].at = "putToggled" PROVE found' = found
    <3>1. v \in Workers /\ v # w /\ tableLock = v
      BY <1>9, <2>2 DEF Tasked, SwitchInv, NamesItsOwn
    <3>2. v \in Processes /\ w \in Processes
      BY <3>1 DEF KnowledgeAssumption
    <3> QED BY <3>1, <3>2, LockIsKept
  <2>3. \A s \in Of(e) : s \in Segments /\ s \notin Of(d)
    BY <1>1, <1>9, SegmentsOf
  <2> QED BY <2>1, <2>2, <2>3 DEF ServiceKeeps
<1> QED BY <1>1, <1>7, <1>8, <1>9, KeptElsewhere

\* Where a task takes the switch of a document.
LEMMA TaskTaken ==
    ASSUME KnowledgeAssumption, OnlySwitches, Typed, Typed', SwitchInv, NEW w \in Workers,
           NEW m \in messages, Take(w, m), UNCHANGED requestVars
    PROVE  \A e \in Documents : InTurn(e)' /\ DocumentAgrees(e)'
<1>1. /\ worker[w].at = "idle" /\ worker'[w].at = m.task /\ worker'[w].document = m.document
      /\ \A v \in Workers \ {w} : worker'[v] = worker[v]
  BY DEF Take, Typed, WorkersTyped, WorkerRecord
<1>2. messages' = messages \ {m} /\ UNCHANGED <<toggleLock, storeVars, request>>
  BY DEF Take, OnlySwitches, Typed, QueueTyped, requestVars
<1>3. m \in Message /\ m.document \in Documents /\ messages \subseteq Message
  BY DEF Typed, QueueTyped, Message
<1>4. \A e \in Documents : ServiceKeeps(e)
  BY <1>2 DEF ServiceKeeps, storeVars, documentVars, tableVars
<1>5. CASE m.task # "toggle"
  <2>1. m.task \notin ToggleTasks
    BY <1>3, <1>5 DEF Message, ToggleTasks
  <2>2. \A e \in Documents : TurnKeeps(e)
    BY <1>1, <1>2, <1>5, <2>1, TogglePlaces DEF TurnKeeps
  <2> QED BY <1>4, <2>2, KeptAll
<1>6. CASE m.task = "toggle"
  <2>1. PICK d \in Documents : d = m.document
    BY <1>3
  <2>2. InTurn(d) /\ DocumentAgrees(d) /\ m \in Sent(d)
    BY <1>6, <2>1 DEF SwitchInv, Sent
  <2>3. Sent(d) = {m} /\ Tasked(d) = {} /\ d \in toggleLock /\ Taken(d) = {}
    BY <2>2 DEF InTurn
  <2>4. Sent(d)' = {} /\ Taken(d)' = {}
    BY <1>2, <2>3 DEF Sent, Taken, ReqDoc
  <2>5. \A v \in Workers \ {w} : Doc(v)' = d => worker'[v].at \notin ToggleTasks
    BY <1>1, <2>3 DEF Tasked, Doc
  <2>6. worker'[w].at = "toggle" /\ Doc(w)' = d
    BY <1>1, <1>6, <2>1 DEF Doc
  <2>7. Tasked(d)' = {w}
    BY <2>5, <2>6, TogglePlaces DEF Tasked
  <2>8. InTurn(d)'
    BY <1>2, <2>3, <2>4, <2>7 DEF InTurn
  <2>9. /\ Exists(d)' = Exists(d)
        /\ Behind(d)' <=> Behind(d)
        /\ enabled'[d] = enabled[d]
    BY <1>4, KeptService DEF ServiceKeeps
  <2>10. DocumentAgrees(d)'
    <3> SUFFICES ASSUME Exists(d)' PROVE DocumentAgrees(d)'
      BY DEF DocumentAgrees
    <3>1. Behind(d)' /\ Pending(d)'
      BY <2>2, <2>7, <2>9 DEF DocumentAgrees, Pending
    <3>2. TaskAgrees(w, d)'
      BY <2>6, <3>1 DEF TaskAgrees
    <3>3. ASSUME NEW v \in Workers \ {w}, Doc(v)' = d PROVE TaskAgrees(v, d)'
      BY <2>5, <3>3 DEF TaskAgrees, ToggleTasks
    <3>4. ASSUME NEW r \in Requests, ReqDoc(r)' = d PROVE RequestAgrees(r, d)'
      <4>1. request'[r] = request[r] /\ ReqDoc(r) = d /\ RequestAgrees(r, d)
        BY <1>2, <2>2, <2>9, <3>4 DEF DocumentAgrees, ReqDoc
      <4> QED BY <2>9, <4>1 DEF RequestAgrees
    <3> QED BY <2>4, <3>1, <3>2, <3>3, <3>4 DEF DocumentAgrees
  <2>11. ASSUME NEW e \in Documents \ {d} PROVE TurnKeeps(e)
    BY <1>1, <1>2, <2>1, <2>11, TogglePlaces DEF TurnKeeps
  <2> QED BY <1>4, <2>8, <2>10, <2>11, KeptElsewhere
<1> QED BY <1>5, <1>6

LEMMA SwitchRead ==
    ASSUME KnowledgeAssumption, Typed, Typed', SwitchInv, NEW w \in Workers, ReadSegments(w), UNCHANGED requestVars
    PROVE  \A e \in Documents : InTurn(e)' /\ DocumentAgrees(e)'
<1>1. PICK d : d = Doc(w)
  OBVIOUS
<1>2. /\ worker \in [Workers -> WorkerRecord] /\ worker[w].at = "toggle" /\ d \in Documents
      /\ UNCHANGED <<request, messages, toggleLock, status, enabled, segment, vector, tableVars>>
  BY <1>1 DEF ReadSegments, Typed, WorkersTyped, requestVars, queueVars, storeVars, documentVars, Doc
<1>3. d \in toggleLock
  <2>1. w \in Tasked(d)
    BY <1>1, <1>2, TogglePlaces DEF Tasked
  <2> QED BY <1>2, <2>1 DEF SwitchInv, InTurn
<1>4. CASE ~Exists(d)
  <2>1. (\A v \in Workers \ {w} : worker'[v] = worker[v]) /\ worker'[w].at = "idle"
    BY <1>1, <1>2, <1>4 DEF ReadSegments, Done, Free
  <2> QED BY <1>1, <1>2, <1>4, <2>1, TaskGoes, TogglePlaces DEF tableVars
<1>5. CASE Exists(d)
  <2>1. /\ \A v \in Workers \ {w} : worker'[v] = worker[v]
        /\ worker'[w].at = "mark" /\ worker'[w].document = d /\ worker'[w].on = enabled[d]
        /\ worker'[w].ids = Completed(d) /\ worker'[w].left = Completed(d)
        /\ worker'[w].live = {s \in Completed(d) : segment[s].enabled}
    <3> DEFINE ids == Completed(d)
               now == [worker[w] EXCEPT !.at = "mark", !.on = enabled[d], !.ids = ids, !.left = ids,
                                        !.live = {s \in ids : segment[s].enabled}]
    <3>1. worker' = [worker EXCEPT ![w] = now]
      BY <1>1, <1>5 DEF ReadSegments
    <3>2. worker[w] \in WorkerRecord /\ worker[w].document = d
      BY <1>1, <1>2 DEF Doc
    <3>3. /\ now.at = "mark" /\ now.document = d /\ now.on = enabled[d]
          /\ now.ids = ids /\ now.left = ids
          /\ now.live = {s \in ids : segment[s].enabled}
      BY <3>2 DEF WorkerRecord
    <3> HIDE DEF now
    <3> QED BY <1>2, <3>1, <3>3
  <2>2. Completed(d)' = Completed(d) /\ Completed(d) \subseteq Segments
    BY <1>2, RowsOf, SegmentsOf DEF Completed, Of
  <2>3. \A s \in Completed(d) : segment[s].enabled
    BY <2>2 DEF SwitchInv, Completed
  <2>4. Behind(d)
    BY <1>1, <1>2, <1>5 DEF SwitchInv, DocumentAgrees, TaskAgrees
  <2>5. \A s \in Completed(d) : /\ s \in table <=> ~enabled[d]
                                /\ enabled[d] => vector[s] = Vector(FALSE, TRUE)
                                /\ ~enabled[d] => vector[s] = Vector(TRUE, TRUE)
    BY <2>4 DEF Behind, AllFound, NoneFound
  <2>6. Marked(w, d)'
    BY <1>2, <2>1, <2>2, <2>3, <2>5 DEF Marked, Vector, tableVars
  <2>7. TaskAgrees(w, d)'
    BY <2>1, <2>6 DEF TaskAgrees
  <2> QED BY <1>1, <1>2, <1>3, <2>1, <2>7, TaskGoes, TogglePlaces DEF tableVars
<1> QED BY <1>4, <1>5

LEMMA MarkedVector ==
    ASSUME NEW v \in VectorRecord, NEW on \in BOOLEAN
    PROVE  [v EXCEPT !.document_enabled = on] = Vector(on, v.segment_enabled)
BY DEF VectorRecord, Vector

LEMMA SwitchMark ==
    ASSUME KnowledgeAssumption, Typed, Typed', SwitchInv, NEW w \in Workers, NEW s \in Segments,
           Mark(w, s) \/ MarkFails(w, s), UNCHANGED requestVars
    PROVE  \A e \in Documents : InTurn(e)' /\ DocumentAgrees(e)'
<1>1. PICK d : d = Doc(w)
  OBVIOUS
<1>2. /\ worker \in [Workers -> WorkerRecord] /\ worker[w].at = "mark" /\ d \in Documents
      /\ s \in worker[w].left
      /\ UNCHANGED <<request, messages, toggleLock, status, enabled, tableVars>>
  BY <1>1 DEF Mark, MarkFails, Typed, WorkersTyped, requestVars, queueVars, storeVars, documentVars, Doc
<1>3. d \in toggleLock
  <2>1. w \in Tasked(d)
    BY <1>1, <1>2, TogglePlaces DEF Tasked
  <2> QED BY <1>2, <2>1 DEF SwitchInv, InTurn
<1>4. /\ \A v \in Workers \ {w} : worker'[v] = worker[v]
      /\ worker'[w].at = "mark" /\ worker'[w].document = d
      /\ worker'[w].ids = worker[w].ids /\ worker'[w].live = worker[w].live
      /\ worker'[w].left = worker[w].left \ {s}
      /\ Mark(w, s) => worker'[w].on = On(w)
      /\ MarkFails(w, s) => worker'[w].on = None
  <2>1. ASSUME NEW on, worker' = [worker EXCEPT ![w].left = @ \ {s}, ![w].on = on]
        PROVE  /\ \A v \in Workers \ {w} : worker'[v] = worker[v]
               /\ worker'[w].at = worker[w].at /\ worker'[w].document = worker[w].document
               /\ worker'[w].ids = worker[w].ids /\ worker'[w].live = worker[w].live
               /\ worker'[w].left = worker[w].left \ {s} /\ worker'[w].on = on
    BY <1>2, <2>1 DEF WorkerRecord
  <2>2. Mark(w, s) => worker' = [worker EXCEPT ![w].left = @ \ {s}, ![w].on = On(w)]
    BY DEF Mark
  <2>3. MarkFails(w, s) => worker' = [worker EXCEPT ![w].left = @ \ {s}, ![w].on = None]
    BY DEF MarkFails
  <2>4. ~(Mark(w, s) /\ MarkFails(w, s)) \/ On(w) = None
    <3>1. Mark(w, s) /\ MarkFails(w, s) => worker'[w].on = On(w) /\ worker'[w].on = None
      BY <2>1, <2>2, <2>3
    <3> QED BY <3>1
  <2>5. worker[w].document = d
    BY <1>1 DEF Doc
  <2>6. CASE Mark(w, s)
    BY <1>2, <2>1, <2>2, <2>4, <2>5, <2>6
  <2>7. CASE MarkFails(w, s)
    BY <1>2, <2>1, <2>3, <2>4, <2>5, <2>7
  <2> QED BY <2>6, <2>7
<1>5. s \in Of(d)
  BY <1>1, <1>2 DEF SwitchInv, NamesItsOwn
<1>6. Completed(d) \subseteq Segments /\ enabled[d] \in BOOLEAN /\ Completed(d) \subseteq Rows(d)
  BY <1>2, RowsOf, SegmentsOf DEF Typed, DocumentsTyped, Completed, Rows, NoRow
<1>7. ASSUME Exists(d) PROVE Marked(w, d)
  BY <1>1, <1>2, <1>7 DEF SwitchInv, DocumentAgrees, TaskAgrees
<1>a. CASE Mark(w, s)
  <2>1. UNCHANGED segment /\ vector' = [vector EXCEPT ![s].document_enabled = On(w)]
    BY <1>a DEF Mark
  <2>2. \A t \in Segments \ {s} : vector'[t] = vector[t]
    BY <2>1 DEF Typed, VectorsTyped
  <2>3. vector'[s] = [vector[s] EXCEPT !.document_enabled = On(w)]
    BY <2>1 DEF Typed, VectorsTyped
  <2>5. vector[s] \in VectorRecord
    BY <1>a DEF Mark, Typed, VectorsTyped
  <2>4. ASSUME Exists(d) PROVE TaskAgrees(w, d)'
    <3>1. Marked(w, d) /\ On(w) = enabled[d]
      BY <1>1, <1>7, <2>4 DEF Marked, On
    <3>2. Completed(d)' = Completed(d)
      BY <2>1 DEF Completed, Of
    <3>3. s \in Completed(d) => /\ enabled[d] => vector'[s] = Vector(TRUE, TRUE)
                                /\ ~enabled[d] => vector'[s] = Vector(FALSE, TRUE)
      <4> SUFFICES ASSUME s \in Completed(d)
                   PROVE  /\ enabled[d] => vector'[s] = Vector(TRUE, TRUE)
                          /\ ~enabled[d] => vector'[s] = Vector(FALSE, TRUE)
        OBVIOUS
      <4>1. CASE enabled[d] = TRUE
        <5>1. vector[s] = Vector(FALSE, TRUE)
          BY <1>2, <3>1, <4>1 DEF Marked
        <5>2. On(w) = TRUE
          BY <3>1, <4>1
        <5>3. vector[s].segment_enabled = TRUE
          BY <5>1 DEF Vector
        <5>4. vector'[s] = Vector(On(w), vector[s].segment_enabled)
          BY <2>3, <2>5, <5>2, MarkedVector
        <5>5. vector'[s] = Vector(TRUE, TRUE)
          BY <5>2, <5>3, <5>4
        <5> QED BY <4>1, <5>5
      <4>2. CASE enabled[d] = FALSE
        <5>1. vector[s] = Vector(TRUE, TRUE)
          BY <1>2, <3>1, <4>2 DEF Marked
        <5>2. On(w) = FALSE
          BY <3>1, <4>2
        <5>3. vector[s].segment_enabled = TRUE
          BY <5>1 DEF Vector
        <5>4. vector'[s] = Vector(On(w), vector[s].segment_enabled)
          BY <2>3, <2>5, <5>2, MarkedVector
        <5>5. vector'[s] = Vector(FALSE, TRUE)
          BY <5>2, <5>3, <5>4
        <5> QED BY <4>2, <5>5
      <4> QED BY <1>6, <4>1, <4>2
    <3>4. Vector(TRUE, TRUE)' = Vector(TRUE, TRUE) /\ Vector(FALSE, TRUE)' = Vector(FALSE, TRUE)
      BY DEF Vector
    <3>5. ASSUME NEW t \in Completed(d)
          PROVE  /\ t \in table' <=> ~enabled'[d]
                 /\ (t \in worker'[w].left <=> enabled'[d]) => vector'[t] = Vector(FALSE, TRUE)
                 /\ (t \in worker'[w].left <=> ~enabled'[d]) => vector'[t] = Vector(TRUE, TRUE)
      <4>1. CASE t = s
        BY <1>2, <1>4, <3>1, <3>3, <4>1 DEF Marked, tableVars
      <4>2. CASE t # s
        <5>1. vector'[t] = vector[t] /\ (t \in worker'[w].left <=> t \in worker[w].left)
          BY <1>4, <1>6, <2>2, <4>2
        <5> QED BY <1>2, <3>1, <5>1 DEF Marked, tableVars
      <4> QED BY <4>1, <4>2
    <3>6. Marked(w, d)'
      BY <1>2, <1>4, <1>a, <3>1, <3>2, <3>4, <3>5 DEF Marked
    <3> QED BY <1>4, <3>6 DEF TaskAgrees
  <2> QED BY <1>1, <1>2, <1>3, <1>4, <1>5, <2>1, <2>2, <2>4, TaskGoes, TogglePlaces DEF tableVars
<1>b. CASE MarkFails(w, s)
  <2>1. SetSegments({s} \intersect Rows(d), Row("error", FALSE)) /\ UNCHANGED vector
    BY <1>1, <1>b DEF MarkFails
  <2>2. \A t \in Segments \ {s} : segment'[t] = segment[t]
    BY <2>1 DEF SetSegments
  <2>3. s \in Rows(d) => segment'[s].status = "error"
    BY <2>1, StatusOfRow DEF SetSegments
  <2>4. ASSUME Exists(d) PROVE TaskAgrees(w, d)'
    <3>1. Marked(w, d)
      BY <1>7, <2>4
    <3>2. Completed(d)' \subseteq Completed(d) \ {s}
      <4> SUFFICES ASSUME NEW t \in Completed(d)' PROVE t \in Completed(d) /\ t # s
        OBVIOUS
      <4>1. t \in Of(d) /\ segment'[t].status = "completed" /\ t \in Segments
        BY <1>2, SegmentsOf DEF Completed, Of
      <4>2. t # s
        <5> SUFFICES ASSUME t = s PROVE FALSE
          OBVIOUS
        <5>1. s \notin Rows(d)
          BY <2>3, <4>1
        <5>2. segment'[s] = segment[s]
          BY <2>1, <5>1 DEF SetSegments
        <5>3. s \in Completed(d)
          BY <4>1, <5>2 DEF Completed
        <5> QED BY <1>6, <5>1, <5>3
      <4> QED BY <2>2, <4>1, <4>2 DEF Completed
    <3>3. Vector(TRUE, TRUE)' = Vector(TRUE, TRUE) /\ Vector(FALSE, TRUE)' = Vector(FALSE, TRUE)
      BY DEF Vector
    <3>4. \A t \in Completed(d)' : t \in worker'[w].left <=> t \in worker[w].left
      BY <1>4, <3>2
    <3>5. Marked(w, d)'
      BY <1>2, <1>4, <1>b, <2>1, <3>1, <3>2, <3>3, <3>4 DEF Marked, tableVars
    <3> QED BY <1>4, <3>5 DEF TaskAgrees
  <2> QED BY <1>1, <1>2, <1>3, <1>4, <1>5, <2>1, <2>2, <2>4, TaskGoes, TogglePlaces DEF tableVars
<1> QED BY <1>a, <1>b

LEMMA SwitchSync ==
    ASSUME KnowledgeAssumption, OnlySwitches, Typed, Typed', SwitchInv, NEW w \in Workers,
           Sync(w) \/ SyncFails(w) \/ PutToggled(w) \/ Unlock(w), UNCHANGED requestVars
    PROVE  \A e \in Documents : InTurn(e)' /\ DocumentAgrees(e)'
<1>1. PICK d : d = Doc(w)
  OBVIOUS
<1>2. /\ worker \in [Workers -> WorkerRecord] /\ worker[w].at \in {"mark", "putToggled", "unlock"}
      /\ UNCHANGED <<request, messages, status, segment, vector>>
  BY DEF Sync, SyncFails, PutToggled, Unlock, Step, Typed, WorkersTyped, requestVars, queueVars, storeVars,
         documentVars, SetEnabled
<1>3. d \in Documents /\ worker[w].at \in ToggleTasks
  BY <1>1, <1>2, TogglePlaces DEF Typed, WorkersTyped, Doc
<1>4. d \in toggleLock
  <2>1. w \in Tasked(d)
    BY <1>1, <1>3 DEF Tasked
  <2> QED BY <1>3, <2>1 DEF SwitchInv, InTurn
<1>5. Completed(d)' = Completed(d) /\ Completed(d) \subseteq Of(d) /\ enabled[d] \in BOOLEAN
  BY <1>2, <1>3 DEF Completed, Of, Typed, DocumentsTyped
<1>6. Exists(d) => TaskAgrees(w, d)
  BY <1>1, <1>3 DEF SwitchInv, DocumentAgrees
<1>7. \A from, to : Step(w, from, to) =>
          /\ worker[w].at = from /\ (\A v \in Workers \ {w} : worker'[v] = worker[v])
          /\ worker'[w].at = to /\ worker'[w].document = d
  BY <1>1, <1>2 DEF Step, WorkerRecord, Doc
<1>8. Vector(TRUE, TRUE)' = Vector(TRUE, TRUE) /\ Vector(FALSE, TRUE)' = Vector(FALSE, TRUE)
  BY DEF Vector
<1>a. CASE Sync(w)
  <2>1. worker[w].at = "mark" /\ worker[w].left = {} /\ UNCHANGED <<enabled, toggleLock>>
    BY <1>a DEF Sync, documentVars, queueVars
  <2>2. ASSUME Exists(d) PROVE Marked(w, d) /\ On(w) = enabled[d]
    BY <1>1, <1>6, <2>1, <2>2 DEF TaskAgrees, Marked, On
  <2>3. worker[w].ids \subseteq Of(d)
    BY <1>1, <2>1 DEF SwitchInv, NamesItsOwn
  <2>4. CASE On(w)
    <3>1. add_keyword_table_Read(w, worker[w].live) /\ Step(w, "mark", "putToggled")
      BY <1>a, <2>4 DEF Sync
    <3>2. UNCHANGED table /\ found' = {s \in worker[w].live : segment[s].status \notin NoRow}
      BY <3>1 DEF add_keyword_table_Read
    <3>3. ASSUME Exists(d) PROVE TaskAgrees(w, d)'
      <4>1. enabled[d] /\ Marked(w, d)
        BY <2>2, <2>4, <3>3
      <4>2. Completed(d) \subseteq found'
        BY <3>2, <4>1 DEF Marked, Completed, NoRow
      <4>3. \A s \in Completed(d) : vector[s] = Vector(TRUE, TRUE)
        BY <2>1, <4>1 DEF Marked
      <4>4. worker'[w].at = "putToggled"
        BY <1>7, <3>1
      <4> QED BY <1>2, <1>5, <1>8, <2>1, <4>1, <4>2, <4>3, <4>4 DEF TaskAgrees
    <3> QED BY <1>1, <1>2, <1>3, <1>4, <1>7, <2>1, <3>1, <3>2, <3>3, TaskGoes, TogglePlaces
  <2>5. CASE ~On(w)
    <3>1. delete_keyword_table_from_ids(worker[w].ids) /\ Step(w, "mark", "unlock")
      BY <1>a, <2>5 DEF Sync
    <3>2. table' = table \ worker[w].ids
      BY <3>1 DEF delete_keyword_table_from_ids
    <3>3. ASSUME Exists(d) PROVE TaskAgrees(w, d)'
      <4>1. ~enabled[d] /\ Marked(w, d)
        BY <2>2, <2>5, <3>3
      <4>2. \A s \in Completed(d) : s \notin table' /\ vector[s] = Vector(FALSE, TRUE)
        BY <2>1, <3>2, <4>1 DEF Marked
      <4>3. Current(d)'
        BY <1>2, <1>5, <1>8, <2>1, <4>1, <4>2 DEF Current, NoneFound
      <4>4. worker'[w].at = "unlock"
        BY <1>7, <3>1
      <4> QED BY <4>3, <4>4 DEF TaskAgrees
    <3>4. \A s \in Segments \ Of(d) : s \in table' <=> s \in table
      BY <2>3, <3>2
    <3> QED BY <1>1, <1>2, <1>3, <1>4, <1>7, <2>1, <3>1, <3>3, <3>4, TaskGoes, TogglePlaces
  <2> QED BY <2>4, <2>5
<1>b. CASE SyncFails(w)
  <2>1. Step(w, "mark", "unlock") /\ SetEnabled(d, ~On(w)) /\ UNCHANGED <<toggleLock, tableVars>>
    BY <1>1, <1>b DEF SyncFails, queueVars
  <2>2. ~Exists(d)
    BY <1>1, <1>b DEF SyncFails, OnlySwitches, Readable
  <2>3. \A e \in Documents \ {d} : enabled'[e] = enabled[e]
    BY <2>1 DEF SetEnabled, Typed, DocumentsTyped
  <2> QED BY <1>1, <1>2, <1>3, <1>4, <1>7, <2>1, <2>2, <2>3, TaskGoes, TogglePlaces DEF tableVars
<1>c. CASE PutToggled(w)
  <2>1. Step(w, "putToggled", "unlock") /\ add_keyword_table_Write(w) /\ UNCHANGED <<toggleLock, enabled>>
    BY <1>c DEF PutToggled, queueVars, documentVars
  <2>2. table' = table \union found
    BY <2>1 DEF add_keyword_table_Write
  <2>3. found \subseteq Of(d)
    BY <1>1, <1>7, <2>1 DEF SwitchInv, NamesItsOwn
  <2>4. ASSUME Exists(d) PROVE TaskAgrees(w, d)'
    <3>1. /\ enabled[d] /\ Completed(d) \subseteq found
          /\ \A s \in Completed(d) : vector[s] = Vector(TRUE, TRUE)
      BY <1>6, <1>7, <2>1, <2>4 DEF TaskAgrees
    <3>2. Current(d)'
      BY <1>2, <1>5, <1>8, <2>1, <2>2, <3>1 DEF Current, AllFound
    <3>3. worker'[w].at = "unlock"
      BY <1>7, <2>1
    <3> QED BY <3>2, <3>3 DEF TaskAgrees
  <2>5. \A s \in Segments \ Of(d) : s \in table' <=> s \in table
    BY <2>2, <2>3
  <2> QED BY <1>1, <1>2, <1>3, <1>4, <1>7, <2>1, <2>4, <2>5, TaskGoes, TogglePlaces
<1>d. CASE Unlock(w)
  <2>1. worker[w].at = "unlock" /\ Done(w) /\ toggleLock' = toggleLock \ {d} /\ UNCHANGED <<enabled, tableVars>>
    BY <1>1, <1>d DEF Unlock, storeVars, documentVars
  <2>2. (\A v \in Workers \ {w} : worker'[v] = worker[v]) /\ worker'[w].at = "idle"
    BY <1>2, <2>1 DEF Done, Free
  <2>3. ASSUME Exists(d) PROVE Current(d)'
    <3>1. Current(d)
      BY <1>6, <2>1, <2>3 DEF TaskAgrees
    <3> QED BY <1>2, <1>5, <1>8, <2>1, <3>1 DEF Current, AllFound, NoneFound, tableVars
  <2> QED BY <1>1, <1>2, <1>3, <2>1, <2>2, <2>3, TaskGoes, TogglePlaces DEF tableVars
<1> QED BY <1>a, <1>b, <1>c, <1>d

LEMMA SwitchTask ==
    ASSUME KnowledgeAssumption, OnlySwitches, Typed, Typed', SwitchInv, NEW w \in Workers, Toggle(w),
           UNCHANGED requestVars
    PROVE  \A e \in Documents : InTurn(e)' /\ DocumentAgrees(e)'
BY SwitchRead, SwitchMark, SwitchSync DEF Toggle

LEMMA NamesStay ==
    ASSUME KnowledgeAssumption, Typed, Typed', SwitchInv, NEW w \in Workers,
           \/ \E m \in messages : Take(w, m)
           \/ Delete(w) \/ Toggle(w)
    PROVE  \A v \in Workers : NamesItsOwn(v)'
<1>1. worker \in [Workers -> WorkerRecord]
  BY DEF Typed, WorkersTyped
<1>2. \A v \in Workers \ {w} : worker'[v] = worker[v]
  BY <1>1 DEF Take, Delete, Look, DropVectors, DropSegments, DropKeywords, DropFails, Retry, Toggle, ReadSegments, Mark,
        MarkFails, Sync, PutToggled, SyncFails, Unlock, Step, Done
<1>3. \/ \E ids : add_keyword_table_Read(w, ids) \/ delete_keyword_table_from_ids(ids)
      \/ add_keyword_table_Write(w) \/ UNCHANGED tableVars
  BY DEF Take, Delete, Look, DropVectors, DropSegments, DropKeywords, DropFails, Toggle, ReadSegments, Mark,
        MarkFails, Sync, PutToggled, SyncFails, Unlock, storeVars
<1>4. ASSUME NEW v \in Workers \ {w} PROVE NamesItsOwn(v)'
  <2>1. NamesItsOwn(v) /\ worker'[v] = worker[v] /\ v # w /\ v \in Processes /\ w \in Processes
    BY <1>2 DEF SwitchInv, KnowledgeAssumption
  <2>2. tableLock = v => UNCHANGED <<tableLock, found>>
    BY <1>3, <2>1, LockIsKept
  <2> QED BY <2>1, <2>2 DEF NamesItsOwn, Doc, Of
<1>5. NamesItsOwn(w)'
  <2>0. NamesItsOwn(w)
    BY DEF SwitchInv
  <2>1. ASSUME NEW m \in messages, Take(w, m) PROVE NamesItsOwn(w)'
    <3>1. worker'[w].at \in {"build", "toggle", "delete"}
      BY <1>1, <2>1 DEF Take, Typed, QueueTyped, Message, WorkerRecord
    <3> QED BY <3>1 DEF NamesItsOwn, Cleaning
  <2>2. \A from, to : Step(w, from, to) =>
            /\ worker[w].at = from /\ worker'[w].at = to /\ worker'[w].document = worker[w].document
            /\ worker'[w].ids = worker[w].ids /\ worker'[w].live = worker[w].live
    BY <1>1 DEF Step, WorkerRecord
  <2>3. Done(w) => NamesItsOwn(w)'
    <3>1. Done(w) => worker'[w].at = "idle"
      BY <1>1 DEF Done, Free
    <3> QED BY <3>1 DEF NamesItsOwn, Cleaning
  <2>4. ASSUME Look(w) PROVE NamesItsOwn(w)'
    <3>1. CASE Exists(Doc(w))
      BY <2>3, <2>4, <3>1 DEF Look, Retry
    <3>2. CASE ~Exists(Doc(w))
      <4>1. worker'[w].at = "dropVectors" /\ worker'[w].ids = Rows(Doc(w)) /\ Doc(w)' = Doc(w)
        BY <1>1, <2>4, <3>2 DEF Look, WorkerRecord, Doc
      <4>2. Rows(Doc(w)) \subseteq Of(Doc(w)) /\ Of(Doc(w))' = Of(Doc(w))
        BY <4>1 DEF Rows, Of
      <4> QED BY <4>1, <4>2 DEF NamesItsOwn
    <3> QED BY <3>1, <3>2
  <2>5. ASSUME DropVectors(w) \/ DropSegments(w) PROVE NamesItsOwn(w)'
    <3>1. worker[w].at \in Cleaning /\ worker'[w].at \in Cleaning /\ worker'[w].ids = worker[w].ids /\ Doc(w)' = Doc(w)
      BY <2>2, <2>5 DEF DropVectors, DropSegments, Cleaning, Doc
    <3> QED BY <2>0, <3>1 DEF NamesItsOwn, Cleaning, Of
  <2>6. DropKeywords(w) \/ DropFails(w) \/ Unlock(w) => NamesItsOwn(w)'
    BY <2>3 DEF DropKeywords, DropFails, Unlock, Retry
  <2>7. ASSUME ReadSegments(w) PROVE NamesItsOwn(w)'
    <3> DEFINE ids == Completed(Doc(w))
               now == [worker[w] EXCEPT !.at = "mark", !.on = enabled[Doc(w)], !.ids = ids, !.left = ids,
                                        !.live = {s \in ids : segment[s].enabled}]
    <3>1. CASE ~Exists(Doc(w))
      BY <2>3, <2>7, <3>1 DEF ReadSegments
    <3>2. CASE Exists(Doc(w))
      <4>1. worker' = [worker EXCEPT ![w] = now]
        BY <2>7, <3>2 DEF ReadSegments
      <4>2. /\ now.at = "mark" /\ now.document = worker[w].document /\ now.ids = ids /\ now.left = ids
            /\ now.live = {s \in ids : segment[s].enabled}
        BY <1>1 DEF WorkerRecord
      <4>3. worker'[w] = now
        BY <1>1, <4>1
      <4>4. /\ worker'[w].at = "mark" /\ worker'[w].document = worker[w].document
            /\ worker'[w].ids \subseteq ids /\ worker'[w].left \subseteq ids /\ worker'[w].live \subseteq ids
        BY <4>2, <4>3
      <4>5. ids \subseteq Of(Doc(w)) /\ Of(Doc(w))' = Of(Doc(w))
        BY <4>4 DEF Completed, Doc, Of
      <4> HIDE DEF ids, now
      <4> QED BY <4>4, <4>5 DEF NamesItsOwn, Doc
    <3> QED BY <3>1, <3>2
  <2>8. ASSUME NEW s \in Segments, Mark(w, s) \/ MarkFails(w, s) PROVE NamesItsOwn(w)'
    <3>1. PICK on : worker' = [worker EXCEPT ![w].left = @ \ {s}, ![w].on = on] /\ worker[w].at = "mark"
      BY <2>8 DEF Mark, MarkFails
    <3>2. /\ worker'[w].at = "mark" /\ worker'[w].document = worker[w].document
          /\ worker'[w].ids = worker[w].ids /\ worker'[w].live = worker[w].live /\ worker'[w].left \subseteq worker[w].left
      BY <1>1, <3>1 DEF WorkerRecord
    <3> QED BY <2>0, <3>1, <3>2 DEF NamesItsOwn, Doc, Of, Cleaning
  <2>9. ASSUME Sync(w) PROVE NamesItsOwn(w)'
    <3>1. CASE On(w)
      <4>1. add_keyword_table_Read(w, worker[w].live) /\ Step(w, "mark", "putToggled")
        BY <2>9, <3>1 DEF Sync
      <4>2. worker[w].at = "mark" /\ worker'[w].at = "putToggled" /\ worker'[w].document = worker[w].document
        BY <2>2, <4>1
      <4>3. tableLock' = w /\ found' \subseteq worker[w].live
        BY <4>1 DEF add_keyword_table_Read
      <4> QED BY <2>0, <4>2, <4>3 DEF NamesItsOwn, Doc, Of, Cleaning
    <3>2. CASE ~On(w)
      <4>1. worker'[w].at = "unlock"
        BY <2>2, <2>9, <3>2 DEF Sync
      <4> QED BY <4>1 DEF NamesItsOwn, Cleaning
    <3> QED BY <3>1, <3>2
  <2>10. ASSUME PutToggled(w) \/ SyncFails(w) PROVE NamesItsOwn(w)'
    <3>1. worker'[w].at = "unlock"
      BY <2>2, <2>10 DEF PutToggled, SyncFails
    <3> QED BY <3>1 DEF NamesItsOwn, Cleaning
  <2> QED BY <2>1, <2>4, <2>5, <2>6, <2>7, <2>8, <2>9, <2>10 DEF Delete, Toggle
<1> QED BY <1>4, <1>5

\* No row is completed anew.
LEMMA FlagsStay ==
    ASSUME Typed, SwitchInv, NEW w \in Workers, (\E m \in messages : Take(w, m)) \/ Delete(w) \/ Toggle(w)
    PROVE  \A s \in Segments : segment'[s].status = "completed" => segment'[s].enabled
<1>1. UNCHANGED segment \/ \E ids : SetSegments(ids, Row("error", FALSE)) \/ SetSegments(ids, Row("gone", FALSE))
  BY DEF Take, Delete, Look, DropVectors, DropSegments, DropKeywords, DropFails, Toggle, ReadSegments, Mark,
        MarkFails, Sync, PutToggled, SyncFails, Unlock, storeVars
<1>2. Row("error", FALSE).status = "error" /\ Row("gone", FALSE).status = "gone"
  BY StatusOfRow
<1> QED BY <1>1, <1>2 DEF SetSegments, SwitchInv

LEMMA SwitchInitially == KnowledgeAssumption /\ Init => SwitchInv
<1> SUFFICES ASSUME KnowledgeAssumption, Init PROVE SwitchInv
  OBVIOUS
<1>1. /\ messages = {}
      /\ \A w \in Workers : worker[w].at = "idle"
      /\ \A r \in Requests : request[r].at = "idle"
  BY DEF Init, WorkersInit, RequestsInit, Free, NoRequest
<1>2. \A d \in Documents : Sent(d) = {} /\ Tasked(d) = {} /\ Taken(d) = {}
  BY <1>1, TogglePlaces DEF Sent, Tasked, Taken
<1>3. \A d \in Documents : InTurn(d)
  BY <1>2 DEF InTurn
<1>4. \A w \in Workers : NamesItsOwn(w)
  BY <1>1 DEF NamesItsOwn, Cleaning
<1>5. PICK n \in [Indexed -> 1..MaxSegments] :
        LET built == {s \in Segments : s[1] \in Indexed /\ s[2] <= n[s[1]]}
        IN /\ status = [d \in Documents |-> IF d \in Indexed THEN "completed" ELSE "unborn"]
           /\ enabled = [d \in Documents |-> d \in Indexed]
           /\ segment = [s \in Segments |-> IF s \in built THEN Row("completed", TRUE) ELSE Row("unborn", FALSE)]
           /\ vector = [s \in Segments |-> IF s \in built THEN Vector(TRUE, TRUE) ELSE None]
           /\ table = built
  BY DEF Init, StoreInit
<1> DEFINE built == {s \in Segments : s[1] \in Indexed /\ s[2] <= n[s[1]]}
<1>6. /\ \A d \in Documents : /\ d \in Indexed => enabled[d]
                              /\ d \notin Indexed => ~Exists(d)
      /\ table = built
      /\ \A s \in Segments : segment[s] = (IF s \in built THEN Row("completed", TRUE) ELSE Row("unborn", FALSE))
      /\ \A s \in built : vector[s] = Vector(TRUE, TRUE) /\ s \in Segments
  BY <1>5 DEF Exists, NoRow
<1> HIDE DEF built
<1>7. \A s \in Segments : segment[s].status = "completed" => s \in built /\ segment[s].enabled
  BY <1>6 DEF Row
<1>8. ASSUME NEW d \in Documents PROVE DocumentAgrees(d)
  <2> SUFFICES ASSUME Exists(d) PROVE DocumentAgrees(d)
    BY DEF DocumentAgrees
  <2>1. \A s \in Completed(d) : vector[s] = Vector(TRUE, TRUE) /\ s \in table
    BY <1>6, <1>7, SegmentsOf DEF Completed
  <2>2. Current(d)
    BY <1>6, <2>1 DEF Current, AllFound
  <2> QED BY <1>1, <1>2, <2>2 DEF DocumentAgrees, RequestAgrees, TaskAgrees
<1> QED BY <1>3, <1>4, <1>7, <1>8 DEF SwitchInv

LEMMA SwitchStep ==
    ASSUME KnowledgeAssumption, OnlySwitches, OwnInv, AskedFor, SwitchedInTurn, SwitchInv, [Next]_vars
    PROVE  SwitchInv'
<1>1. Typed /\ Typed' /\ "create" \notin Operations /\ "segment" \notin Operations
  BY TypedStep DEF OwnInv, OnlySwitches
<1>2. ASSUME UNCHANGED <<worker, segment, tableLock, found>>
      PROVE  /\ \A w \in Workers : NamesItsOwn(w)'
             /\ \A s \in Segments : segment'[s].status = "completed" => segment'[s].enabled
  BY <1>2 DEF SwitchInv, NamesItsOwn, Doc, Of
<1>a. ASSUME NEW r \in Requests, DocumentRequest(r) PROVE SwitchInv'
  <2>1. ~Create(r)
    <3>1. RequestPlaceAskedFor(request[r].at)
      BY DEF AskedFor
    <3> QED BY <1>1, <3>1 DEF RequestPlaceAskedFor, Create, CreateDocument, Begin, Dispatch, DispatchRaises,
              MarkUndispatched, Goes, Ends
  <2>2. UNCHANGED <<worker, segment, tableLock, found>>
    BY <1>a, <2>1 DEF DocumentRequest, Remove, SwitchDocument, AskDelete, SendDelete, SendDeleteRaises, DeleteRow,
       AskToggle, LookLock, TakeLock, Commit, SendToggle, SendToggleRaises, UndoToggle, Send, SendRaises, storeVars,
       tableVars, workerVars
  <2>3. \A e \in Documents : InTurn(e)' /\ DocumentAgrees(e)'
    <3>1. CASE Remove(r)
      BY <1>1, <3>1, RemoveAsked
    <3>2. CASE SwitchDocument(r)
      BY <1>1, <3>2, SwitchAsked DEF SwitchDocument
    <3> QED BY <1>a, <2>1, <3>1, <3>2 DEF DocumentRequest
  <2> QED BY <1>2, <2>2, <2>3 DEF SwitchInv
<1>b. ASSUME NEW r \in Requests, SegmentRequest(r) PROVE SwitchInv'
  BY <1>1, <1>b, SegmentRequestAsked DEF AskedFor, RequestPlaceAskedFor
<1>c. ASSUME NEW r \in Requests, RequestDies(r) PROVE SwitchInv'
  BY <1>c DEF RequestDies, OnlySwitches
<1>d. ASSUME NEW w \in Workers, Receive(w) PROVE SwitchInv'
  <2>1. PICK m \in messages : Take(w, m) /\ UNCHANGED requestVars
    BY <1>d DEF Receive
  <2>2. \A e \in Documents : InTurn(e)' /\ DocumentAgrees(e)'
    BY <1>1, <2>1, TaskTaken
  <2>3. \A v \in Workers : NamesItsOwn(v)'
    BY <1>1, <2>1, NamesStay
  <2>4. \A s \in Segments : segment'[s].status = "completed" => segment'[s].enabled
    BY <1>1, <2>1, FlagsStay
  <2> QED BY <2>2, <2>3, <2>4 DEF SwitchInv
<1>e. ASSUME NEW w \in Workers, WorkOn(w) PROVE SwitchInv'
  <2>1. ~Build(w)
    <3>1. worker[w].at \notin Building \union {"build"}
      BY <1>1 DEF AskedFor, TaskPlaceAskedFor
    <3> QED BY <3>1 DEF Building, Build, Claim, Parse, SplitOne, SplitDone, Index, AddKeywords, PutKeywords, Store, StoreFails,
         StoreDone, Settle, BuildFails, Step
  <2>2. (Delete(w) \/ Toggle(w)) /\ UNCHANGED requestVars
    BY <1>e, <2>1 DEF WorkOn, Work
  <2>3. \A e \in Documents : InTurn(e)' /\ DocumentAgrees(e)'
    BY <1>1, <2>2, CleaningKeeps, SwitchTask
  <2>4. \A v \in Workers : NamesItsOwn(v)'
    BY <1>1, <2>2, NamesStay
  <2>5. \A s \in Segments : segment'[s].status = "completed" => segment'[s].enabled
    BY <1>1, <2>2, FlagsStay
  <2> QED BY <2>3, <2>4, <2>5 DEF SwitchInv
<1>f. ASSUME NEW w \in Workers, Dies(w) PROVE SwitchInv'
  BY <1>f DEF Dies, WorkerDies, OnlySwitches
<1>g. CASE UNCHANGED vars
  <2>1. UNCHANGED <<worker, segment, tableLock, found>> /\ UNCHANGED <<request, messages, toggleLock, storeVars>>
    BY <1>g DEF vars, storeVars, tableVars, workerVars, requestVars
  <2>2. \A e \in Documents : TurnKeeps(e) /\ ServiceKeeps(e)
    BY <2>1 DEF TurnKeeps, ServiceKeeps, storeVars, documentVars, tableVars
  <2>3. \A e \in Documents : InTurn(e)' /\ DocumentAgrees(e)'
    BY <1>1, <2>2, KeptAll
  <2> QED BY <1>2, <2>1, <2>3 DEF SwitchInv
<1> QED BY <1>a, <1>b, <1>c, <1>d, <1>e, <1>f, <1>g DEF Next, Request

\* With one request at a time for all, documents are switched in turn.
LEMMA OneRequestInTurn == (\A q, r \in Requests : q = r) => SwitchedInTurn
BY DEF SwitchedInTurn

\* Where users switch whole documents, one of them at a time for each document (any
\* number of documents at once), and delete any of them, the two stores say of a document
\* that nobody is at work on what its row says, whichever vectors could not be written and
\* whichever messages not be sent.
THEOREM QuietStoresAgree ==
    ASSUME Operations \subseteq {"toggle", "delete"},
           Faults \intersect {"table", "sent", "worker_crash", "request_crash"} = {}, MaxRedeliveries = 0
    PROVE  Spec /\ []SwitchedInTurn => []QuietIsConsistent
<1>1. Init => SwitchInv
  BY SwitchInitially, KnowledgeAssumption
<1>2. OwnInv /\ AskedFor /\ SwitchedInTurn /\ SwitchInv /\ [Next]_vars => SwitchInv'
  BY SwitchStep, KnowledgeAssumption DEF OnlySwitches
<1>3. OwnInv /\ SwitchInv => QuietIsConsistent
  <2> SUFFICES ASSUME OwnInv, SwitchInv, NEW d \in Documents, Exists(d), Quiet(d), NEW s \in Completed(d)
               PROVE  /\ vector[s] = Vector(enabled[d], segment[s].enabled)
                      /\ (s \in table) <=> (enabled[d] /\ segment[s].enabled)
    BY DEF QuietIsConsistent
  <2>1. ~Pending(d)
    <3>1. Sent(d) = {}
      BY DEF Quiet, Sent
    <3>2. Tasked(d) = {}
      BY DEF Quiet, Tasked, Doc
    <3>3. \A r \in Requests : ReqDoc(r) # d
      BY DEF Quiet, ReqDoc
    <3> QED BY <3>1, <3>2, <3>3 DEF Pending
  <2>2. Current(d)
    BY <2>1 DEF SwitchInv, DocumentAgrees
  <2>3. s \in Segments /\ segment[s].status = "completed"
    BY SegmentsOf DEF Completed
  <2>4. segment[s].enabled = TRUE /\ enabled[d] \in BOOLEAN
    BY <2>3 DEF SwitchInv, OwnInv, Typed, DocumentsTyped, SegmentsTyped, SegmentRecord
  <2>5. CASE enabled[d] = TRUE
    BY <2>2, <2>4, <2>5 DEF Current, AllFound
  <2>6. CASE enabled[d] = FALSE
    BY <2>2, <2>4, <2>6 DEF Current, NoneFound
  <2> QED BY <2>4, <2>5, <2>6
<1> QED BY <1>1, <1>2, <1>3, OwnInvariant, AskedForInvariant, PTL DEF Spec
================================================================================
