---------------------------- MODULE IndexingTasks ----------------------------
(***************************************************************************)
(* The Celery workers: task/document_task.py and the IndexingService they  *)
(* call.  A message is acknowledged when it is taken, so a worker that     *)
(* dies loses it; the broker may also deliver one twice.                   *)
(***************************************************************************)
EXTENDS KnowledgeStore

CONSTANTS Workers,
          MaxRetries,      \* max_retries of the task that deletes
          MaxRedeliveries, \* bound: messages delivered once too often
          Faults           \* the kinds of failure a run admits

FaultKinds == {"build", "vector", "table", "second_lock", "unsent", "sent",
               "worker_crash", "request_crash"}

VARIABLES messages,        \* the Celery queue
          redeliveries,
          worker,          \* what each worker is doing
          toggleLock       \* documents whose lock_document_update_enabled is set

workerVars == <<messages, redeliveries, worker, toggleLock>>

Message == [task : {"build", "toggle", "delete"}, document : Documents, tries : 0..MaxRetries]

Msg(task, d, tries) == [task |-> task, document |-> d, tries |-> tries]

WorkerPlaces == {"idle", "build", "parse", "split", "index", "addKeywords", "putKeywords",
                 "store", "settle", "toggle", "mark", "putToggled", "unlock",
                 "delete", "dropVectors", "dropSegments", "dropKeywords"}

Building == {"parse", "split", "index", "addKeywords", "putKeywords", "store", "settle"}

WorkersTypeOK ==
    /\ messages \subseteq Message
    /\ redeliveries \in 0..MaxRedeliveries
    /\ worker \in [Workers -> [at : WorkerPlaces, document : Documents \union {None}, tries : 0..MaxRetries,
                               ids : SUBSET Segments, left : SUBSET Segments,
                               live : SUBSET Segments, on : BOOLEAN \union {None}]]
    /\ toggleLock \subseteq Documents

Free == [at |-> "idle", document |-> None, tries |-> 0, ids |-> {}, left |-> {},
         live |-> {}, on |-> None]

WorkersInit ==
    /\ messages = {}
    /\ redeliveries = 0
    /\ worker = [w \in Workers |-> Free]
    /\ toggleLock = {}

\* The worker stands at `from', and goes on to `to'.
Step(w, from, to) ==
    /\ worker[w].at = from
    /\ worker' = [worker EXCEPT ![w].at = to]

\* It is done with its message and forgets what it read.
Done(w) == worker' = [worker EXCEPT ![w] = Free]

Doc(w) == worker[w].document

queueVars == <<messages, redeliveries, toggleLock>>

Take(w, m) ==
    /\ worker[w].at = "idle"
    /\ worker' = [worker EXCEPT ![w].at = m.task, ![w].document = m.document, ![w].tries = m.tries]
    /\ \/ /\ messages' = messages \ {m}
          /\ UNCHANGED redeliveries
       \/ /\ redeliveries < MaxRedeliveries
          /\ redeliveries' = redeliveries + 1
          /\ UNCHANGED messages
    /\ UNCHANGED <<toggleLock, storeVars>>

-----------------------------------------------------------------------------
(***************************************************************************)
(* build_documents                                                         *)
(***************************************************************************)
\* Mutant: the status is not looked at again.
Claim_WithoutLook(w) ==
    /\ worker[w].at = "build"
    /\ IF Exists(Doc(w))
       THEN SetStatus(Doc(w), "parsing") /\ Step(w, "build", "parse")
       ELSE UNCHANGED documentVars /\ Done(w)
    /\ UNCHANGED <<queueVars, segment, vector, tableVars>>

Claim(w) ==
    /\ worker[w].at = "build"
    /\ IF status[Doc(w)] = "waiting"
       THEN SetStatus(Doc(w), "parsing") /\ Step(w, "build", "parse")
       ELSE UNCHANGED documentVars /\ Done(w)
    /\ UNCHANGED <<queueVars, segment, vector, tableVars>>

Parse(w) ==
    /\ Step(w, "parse", "split")
    /\ SetStatus(Doc(w), "splitting")
    /\ UNCHANGED <<queueVars, segment, vector, tableVars>>

\* Each segment is created in a transaction of its own.
SplitOne(w) ==
    /\ Step(w, "split", "split")
    /\ \E s \in Fresh(Doc(w)) : /\ \A t \in Fresh(Doc(w)) : s[2] <= t[2]
                              /\ SetSegments({s}, Row("waiting", FALSE))
    /\ UNCHANGED <<queueVars, documentVars, vector, tableVars>>

SplitDone(w) ==
    /\ Step(w, "split", "index")
    /\ SetStatus(Doc(w), "indexing")
    /\ UNCHANGED <<queueVars, segment, vector, tableVars>>

Index(w) ==
    /\ Step(w, "index", "addKeywords")
    /\ SetSegments(Rows(Doc(w)), Row("indexing", FALSE))
    /\ UNCHANGED <<queueVars, documentVars, vector, tableVars>>

AddKeywords(w) ==
    /\ Step(w, "addKeywords", "putKeywords")
    /\ add_keyword_table_Read(w, Rows(Doc(w)))
    /\ UNCHANGED <<queueVars, documentVars, segment, vector>>

PutKeywords(w) ==
    /\ Step(w, "putKeywords", "store")
    /\ add_keyword_table_Write(w)
    /\ UNCHANGED <<queueVars, documentVars, segment, vector>>

\* The next batch, here of one segment, in the order of their positions.
Next10(d) ==
    {s \in Rows(d) : /\ segment[s].status = "indexing"
                     /\ \A t \in Rows(d) : segment[t].status = "indexing" => s[2] <= t[2]}

Store(w) ==
    /\ Step(w, "store", "store")
    /\ Next10(Doc(w)) # {}
    /\ SetVectors(Next10(Doc(w)), Vector(TRUE, TRUE))
    /\ SetSegments(Next10(Doc(w)), Row("completed", TRUE))
    /\ UNCHANGED <<queueVars, documentVars, tableVars>>

\* Before or after the vectors are written; the batches that follow are not tried.
StoreFails(w) ==
    /\ Step(w, "store", "settle")
    /\ "vector" \in Faults
    /\ Next10(Doc(w)) # {}
    /\ SetVectors(Next10(Doc(w)), Vector(TRUE, TRUE)) \/ UNCHANGED vector
    /\ SetSegments(Next10(Doc(w)), Row("error", FALSE))
    /\ UNCHANGED <<queueVars, documentVars, tableVars>>

StoreDone(w) ==
    /\ Step(w, "store", "settle")
    /\ Next10(Doc(w)) = {}
    /\ UNCHANGED <<queueVars, storeVars>>

\* Mutant: a document is completed although segments failed.
Settle_WhateverFailed(w) ==
    /\ worker[w].at = "settle"
    /\ status' = [status EXCEPT ![Doc(w)] = "completed"]
    /\ enabled' = [enabled EXCEPT ![Doc(w)] = TRUE]
    /\ Done(w)
    /\ UNCHANGED <<queueVars, segment, vector, tableVars>>

Settle(w) ==
    LET failed == \E s \in Rows(Doc(w)) : segment[s].status = "error"
    IN /\ worker[w].at = "settle"
       /\ status' = [status EXCEPT ![Doc(w)] = IF failed THEN "error" ELSE "completed"]
       /\ enabled' = [enabled EXCEPT ![Doc(w)] = ~failed]
       /\ Done(w)
       /\ UNCHANGED <<queueVars, segment, vector, tableVars>>

\* The extractor, the splitter, jieba or the lock raises.
BuildFails(w) ==
    /\ "build" \in Faults
    /\ worker[w].at \in {"parse", "split", "index", "addKeywords"}
    /\ SetStatus(Doc(w), "error")
    /\ Done(w)
    /\ UNCHANGED <<queueVars, segment, vector, tableVars>>

Build(w) ==
    \/ Claim(w) \/ Parse(w) \/ SplitOne(w) \/ SplitDone(w) \/ Index(w) \/ AddKeywords(w)
    \/ PutKeywords(w) \/ Store(w) \/ StoreFails(w) \/ StoreDone(w) \/ Settle(w) \/ BuildFails(w)

-----------------------------------------------------------------------------
(***************************************************************************)
(* delete_document                                                         *)
(***************************************************************************)
\* Mutant: the task is retried without an end.
Retry_Forever(w) ==
    /\ messages' = messages \union {Msg("delete", Doc(w), worker[w].tries + 1)}
    /\ Done(w)
    /\ UNCHANGED <<redeliveries, toggleLock>>

\* self.retry(): a new message, up to max_retries; then the task fails.
Retry(w) ==
    /\ messages' = IF worker[w].tries < MaxRetries
                   THEN messages \union {Msg("delete", Doc(w), worker[w].tries + 1)}
                   ELSE messages
    /\ Done(w)
    /\ UNCHANGED <<redeliveries, toggleLock>>

\* The task cleans up only after the main row is gone, and then reads which
\* segments there are.
Look(w) ==
    /\ worker[w].at = "delete"
    /\ IF Exists(Doc(w))
       THEN Retry(w)
       ELSE /\ worker' = [worker EXCEPT ![w].at = "dropVectors", ![w].ids = Rows(Doc(w))]
            /\ UNCHANGED queueVars
    /\ UNCHANGED storeVars

DropVectors(w) ==
    /\ Step(w, "dropVectors", "dropSegments")
    /\ SetVectors(Of(Doc(w)), None)
    /\ UNCHANGED <<queueVars, documentVars, segment, tableVars>>

DropSegments(w) ==
    /\ Step(w, "dropSegments", "dropKeywords")
    /\ SetSegments(Rows(Doc(w)), Row("gone", FALSE))
    /\ UNCHANGED <<queueVars, documentVars, vector, tableVars>>

DropKeywords(w) ==
    /\ worker[w].at = "dropKeywords"
    /\ delete_keyword_table_from_ids(worker[w].ids)
    /\ Done(w)
    /\ UNCHANGED <<queueVars, documentVars, segment, vector>>

\* The vector store, or the lock of the keyword table, raises.
DropFails(w) ==
    /\ \/ worker[w].at = "dropVectors" /\ "vector" \in Faults
       \/ worker[w].at = "dropKeywords" /\ "table" \in Faults
    /\ Retry(w)
    /\ UNCHANGED storeVars

Delete(w) == Look(w) \/ DropVectors(w) \/ DropSegments(w) \/ DropKeywords(w) \/ DropFails(w)

-----------------------------------------------------------------------------
(***************************************************************************)
(* update_document_enabled                                                 *)
(***************************************************************************)
\* A document that is gone raises before the try, and the lock is left to expire.
ReadSegments(w) ==
    LET ids == Completed(Doc(w))
    IN /\ worker[w].at = "toggle"
       /\ IF ~Exists(Doc(w))
          THEN Done(w)
          ELSE worker' = [worker EXCEPT ![w] = [@ EXCEPT
                            !.at = "mark", !.on = enabled[Doc(w)], !.ids = ids, !.left = ids,
                            !.live = {s \in ids : segment[s].enabled}]]
       /\ UNCHANGED <<queueVars, storeVars>>

\* document.enabled as the session has it: a commit makes it read anew, and
\* that fails if the row is gone.
Readable(w) == worker[w].on # None \/ Exists(Doc(w))
On(w) == IF worker[w].on = None THEN enabled[Doc(w)] ELSE worker[w].on

Mark(w, s) ==
    /\ worker[w].at = "mark"
    /\ s \in worker[w].left
    /\ vector[s] # None /\ Readable(w)
    /\ vector' = [vector EXCEPT ![s].document_enabled = On(w)]
    /\ worker' = [worker EXCEPT ![w].left = @ \ {s}, ![w].on = On(w)]
    /\ UNCHANGED <<queueVars, documentVars, segment, tableVars>>

\* The vector or the document is gone, or the vector store fails: the segment
\* is put out of service.
MarkFails(w, s) ==
    /\ worker[w].at = "mark"
    /\ s \in worker[w].left
    /\ vector[s] = None \/ ~Readable(w) \/ "vector" \in Faults
    /\ SetSegments({s} \intersect Rows(Doc(w)), Row("error", FALSE))
    /\ worker' = [worker EXCEPT ![w].left = @ \ {s}, ![w].on = None]
    /\ UNCHANGED <<queueVars, documentVars, vector, tableVars>>

Sync(w) ==
    /\ worker[w].at = "mark"
    /\ worker[w].left = {} /\ Readable(w)
    /\ IF On(w)
       THEN /\ add_keyword_table_Read(w, worker[w].live)
            /\ Step(w, "mark", "putToggled")
       ELSE /\ delete_keyword_table_from_ids(worker[w].ids)
            /\ Step(w, "mark", "unlock")
    /\ UNCHANGED <<queueVars, documentVars, segment, vector>>

PutToggled(w) ==
    /\ Step(w, "putToggled", "unlock")
    /\ add_keyword_table_Write(w)
    /\ UNCHANGED <<queueVars, documentVars, segment, vector>>

\* The document is gone, or the lock of the keyword table cannot be had: its
\* flag, and only that, is put back.
SyncFails(w) ==
    /\ Step(w, "mark", "unlock")
    /\ ~Readable(w) \/ "table" \in Faults
    /\ worker[w].left = {}
    /\ SetEnabled(Doc(w), ~On(w))
    /\ UNCHANGED <<queueVars, segment, vector, tableVars>>

Unlock(w) ==
    /\ worker[w].at = "unlock"
    /\ toggleLock' = toggleLock \ {Doc(w)}
    /\ Done(w)
    /\ UNCHANGED <<messages, redeliveries, storeVars>>

Toggle(w) ==
    \/ ReadSegments(w) \/ Sync(w) \/ PutToggled(w) \/ SyncFails(w) \/ Unlock(w)
    \/ \E s \in Segments : Mark(w, s) \/ MarkFails(w, s)

-----------------------------------------------------------------------------
\* The worker dies; the lock it held expires.
WorkerDies(w) ==
    /\ "worker_crash" \in Faults
    /\ worker[w].at # "idle"
    /\ Done(w)
    /\ LockExpires(w)
    /\ UNCHANGED <<queueVars, documentVars, segment, vector>>

Work(w) == Build(w) \/ Delete(w) \/ Toggle(w)
=============================================================================
