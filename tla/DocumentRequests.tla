--------------------------- MODULE DocumentRequests ---------------------------
(***************************************************************************)
(* The HTTP requests that change documents: DocumentService.  A request    *)
(* reads, checks and then goes through its stores one after the other; the *)
(* queue is one of them.                                                   *)
(***************************************************************************)
EXTENDS IndexingTasks

CONSTANTS Requests,      \* the requests that may be under way at a time
          Operations     \* the kinds of request a run admits

OperationKinds == {"create", "delete", "toggle", "segment"}

VARIABLE request         \* what each request is doing, and what it has read

DocumentPlaces == {"dispatch", "undispatch", "sendDelete", "deleteRow",
                   "lookLock", "takeLock", "commit", "send", "undo"}

NoRequest == [at |-> "idle", document |-> None, segment |-> None, want |-> FALSE, on |-> FALSE]

RequestsInit == request = [r \in Requests |-> NoRequest]

\* A user's request, past its checks.
Begin(r, operation, to, d, s, want) ==
    /\ operation \in Operations
    /\ request[r].at = "idle"
    /\ request' = [request EXCEPT ![r] = [at |-> to, document |-> d, segment |-> s,
                                         want |-> want, on |-> FALSE]]

Goes(r, from, to) ==
    /\ request[r].at = from
    /\ request' = [request EXCEPT ![r].at = to]

\* It answers its user.
Replies(r) == request' = [request EXCEPT ![r] = NoRequest]
Ends(r, from) == request[r].at = from /\ Replies(r)

ReqDoc(r) == request[r].document

Send(m) ==
    /\ messages' = messages \union {m}
    /\ UNCHANGED <<redeliveries, worker, toggleLock>>

\* The broker raises without the message, or has it although it raises.
SendRaises(m) ==
    \/ "unsent" \in Faults /\ UNCHANGED workerVars
    \/ "sent" \in Faults /\ Send(m)

-----------------------------------------------------------------------------
(***************************************************************************)
(* create_documents                                                        *)
(***************************************************************************)
CreateDocument(r, d) ==
    /\ status[d] = "unborn"
    /\ Begin(r, "create", "dispatch", d, None, FALSE)
    /\ SetStatus(d, "waiting")
    /\ UNCHANGED <<segment, vector, tableVars, workerVars>>

Dispatch(r) ==
    /\ Ends(r, "dispatch")
    /\ Send(Msg("build", ReqDoc(r), 0))
    /\ UNCHANGED storeVars

DispatchRaises(r) ==
    /\ Goes(r, "dispatch", "undispatch")
    /\ SendRaises(Msg("build", ReqDoc(r), 0))
    /\ UNCHANGED storeVars

\* Mutant: the failure is reported and the document left as it is.
MarkUndispatched_Never(r) ==
    /\ Ends(r, "undispatch")
    /\ UNCHANGED <<storeVars, workerVars>>

\* Only a document nobody has claimed becomes an error.
MarkUndispatched(r) ==
    /\ Ends(r, "undispatch")
    /\ IF status[ReqDoc(r)] = "waiting" THEN SetStatus(ReqDoc(r), "error")
                                        ELSE UNCHANGED documentVars
    /\ UNCHANGED <<segment, vector, tableVars, workerVars>>

Create(r) ==
    \/ \E d \in Documents : CreateDocument(r, d)
    \/ Dispatch(r) \/ DispatchRaises(r) \/ MarkUndispatched(r)

-----------------------------------------------------------------------------
(***************************************************************************)
(* delete_document                                                         *)
(***************************************************************************)
AskDelete(r, d) ==
    /\ status[d] \in {"completed", "error"}
    /\ Begin(r, "delete", "sendDelete", d, None, FALSE)
    /\ UNCHANGED <<storeVars, workerVars>>

SendDelete(r) ==
    /\ Goes(r, "sendDelete", "deleteRow")
    /\ Send(Msg("delete", ReqDoc(r), 0))
    /\ UNCHANGED storeVars

SendDeleteRaises(r) ==
    /\ Ends(r, "sendDelete")
    /\ SendRaises(Msg("delete", ReqDoc(r), 0))
    /\ UNCHANGED storeVars

DeleteRow(r) ==
    /\ Ends(r, "deleteRow")
    /\ status' = [status EXCEPT ![ReqDoc(r)] = "gone"]
    /\ enabled' = [enabled EXCEPT ![ReqDoc(r)] = FALSE]
    /\ UNCHANGED <<segment, vector, tableVars, workerVars>>

Remove(r) ==
    \/ \E d \in Documents : AskDelete(r, d)
    \/ SendDelete(r) \/ SendDeleteRaises(r) \/ DeleteRow(r)

-----------------------------------------------------------------------------
(***************************************************************************)
(* update_document_enabled                                                 *)
(***************************************************************************)
AskToggle(r, d) ==
    /\ status[d] = "completed"
    /\ Begin(r, "toggle", "lookLock", d, None, ~enabled[d])
    /\ UNCHANGED <<storeVars, workerVars>>

\* redis get, and only then setex.
LookLock(r) ==
    /\ IF ReqDoc(r) \in toggleLock THEN Ends(r, "lookLock")
                                   ELSE Goes(r, "lookLock", "takeLock")
    /\ UNCHANGED <<storeVars, workerVars>>

TakeLock(r) ==
    /\ Goes(r, "takeLock", "commit")
    /\ toggleLock' = toggleLock \union {ReqDoc(r)}
    /\ UNCHANGED <<storeVars, messages, redeliveries, worker>>

\* A row that is gone cannot be updated: the lock is released.
Commit(r) ==
    /\ request[r].at = "commit"
    /\ IF Exists(ReqDoc(r))
       THEN /\ Goes(r, "commit", "send")
            /\ SetEnabled(ReqDoc(r), request[r].want)
            /\ UNCHANGED toggleLock
       ELSE /\ Ends(r, "commit")
            /\ toggleLock' = toggleLock \ {ReqDoc(r)}
            /\ UNCHANGED documentVars
    /\ UNCHANGED <<segment, vector, tableVars, messages, redeliveries, worker>>

SendToggle(r) ==
    /\ Ends(r, "send")
    /\ Send(Msg("toggle", ReqDoc(r), 0))
    /\ UNCHANGED storeVars

SendToggleRaises(r) ==
    /\ Goes(r, "send", "undo")
    /\ SendRaises(Msg("toggle", ReqDoc(r), 0))
    /\ UNCHANGED storeVars

\* Mutant: the lock is released and the flag stays.
UndoToggle_LockOnly(r) ==
    /\ Ends(r, "undo")
    /\ toggleLock' = toggleLock \ {ReqDoc(r)}
    /\ UNCHANGED <<storeVars, messages, redeliveries, worker>>

UndoToggle(r) ==
    /\ Ends(r, "undo")
    /\ SetEnabled(ReqDoc(r), ~request[r].want)
    /\ toggleLock' = toggleLock \ {ReqDoc(r)}
    /\ UNCHANGED <<segment, vector, tableVars, messages, redeliveries, worker>>

SwitchDocument(r) ==
    \/ \E d \in Documents : AskToggle(r, d)
    \/ LookLock(r) \/ TakeLock(r) \/ Commit(r) \/ SendToggle(r) \/ SendToggleRaises(r)
    \/ UndoToggle(r)
=============================================================================
