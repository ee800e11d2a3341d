----------------------------- MODULE SharedModels -----------------------------
(***************************************************************************)
(* The models that all threads of a process share and the first of them    *)
(* loads: EmbeddingsService with its two fields and double-checked lock,   *)
(* and FaissService, whose lock is held around a use of the first.  Only   *)
(* the handler of the assistant is given a FaissService, and the router    *)
(* with its handlers is made once when the app starts, so that a process   *)
(* has one of them.                                                        *)
(***************************************************************************)
EXTENDS Naturals

CONSTANTS Threads

VARIABLES _embeddings, _cache_backed_embeddings, _faiss,   \* has the field been set?
          modelLock, faissLock,    \* who holds the lock
          thread,                  \* what each thread wants and where it is
          loads                    \* history: completed loads of the embedding model

sharedVars == <<_embeddings, _cache_backed_embeddings, _faiss, modelLock, faissLock, thread, loads>>

Free == "free"

ASSUME ThreadsAssumption == Free \notin Threads

Wanted == {"embeddings", "cache_backed_embeddings", "faiss"}

\* A thread that wants faiss wants the embeddings on its way.
Places == {"new", "outside", "ask", "unchecked", "waiting", "locked", "half", "set", "return",
           "loaded", "failing", "raising", "over", "failed"}

SharedTypeOK ==
    /\ {_embeddings, _cache_backed_embeddings, _faiss} \subseteq BOOLEAN
    /\ {modelLock, faissLock} \subseteq Threads \union {Free}
    /\ thread \in [Threads -> [at : Places, wants : Wanted, got : BOOLEAN]]

SharedInit ==
    /\ _embeddings = FALSE
    /\ _cache_backed_embeddings = FALSE
    /\ _faiss = FALSE
    /\ modelLock = Free
    /\ faissLock = Free
    /\ thread = [t \in Threads |-> [at |-> "new", wants |-> "embeddings", got |-> FALSE]]
    /\ loads = 0

Thread(t, from, to) ==
    /\ thread[t].at = from
    /\ thread' = [thread EXCEPT ![t].at = to]

-----------------------------------------------------------------------------
(***************************************************************************)
(* The property that is read: faiss takes its lock and loads under it, the *)
(* other two look at their own field first.                                *)
(***************************************************************************)
Want(t) ==
    /\ thread[t].at = "new"
    /\ \E wanted \in Wanted :
          thread' = [thread EXCEPT ![t].wants = wanted,
                                   ![t].at = IF wanted = "faiss" THEN "outside" ELSE "ask"]
    /\ UNCHANGED <<_embeddings, _cache_backed_embeddings, _faiss, modelLock, faissLock, loads>>

LockFaiss(t) ==
    /\ faissLock = Free
    /\ \/ ~_faiss /\ Thread(t, "outside", "ask") /\ faissLock' = t
       \/ _faiss /\ Thread(t, "outside", "loaded") /\ faissLock' = t
    /\ UNCHANGED <<_embeddings, _cache_backed_embeddings, _faiss, modelLock, loads>>

Own(t) == IF thread[t].wants = "cache_backed_embeddings" THEN _cache_backed_embeddings ELSE _embeddings

AskField(t) ==
    /\ IF Own(t) THEN Thread(t, "ask", "return") ELSE Thread(t, "ask", "unchecked")
    /\ UNCHANGED <<_embeddings, _cache_backed_embeddings, _faiss, modelLock, faissLock, loads>>

-----------------------------------------------------------------------------
(***************************************************************************)
(* _load_model: checked without the lock, and again with it.               *)
(***************************************************************************)
CheckUnlocked(t) ==
    /\ IF _embeddings THEN Thread(t, "unchecked", "return") ELSE Thread(t, "unchecked", "waiting")
    /\ UNCHANGED <<_embeddings, _cache_backed_embeddings, _faiss, modelLock, faissLock, loads>>

LockModel(t) ==
    /\ modelLock = Free
    /\ modelLock' = t
    /\ Thread(t, "waiting", "locked")
    /\ UNCHANGED <<_embeddings, _cache_backed_embeddings, _faiss, faissLock, loads>>

\* Mutant: not checked again.
Recheck_Not(t) == FALSE

Recheck(t) == _embeddings

LoadModel(t) ==
    /\ \/ /\ Recheck(t)
          /\ Thread(t, "locked", "set")
          /\ UNCHANGED loads
       \/ /\ ~Recheck(t)
          /\ Thread(t, "locked", "half")
          /\ loads' = loads + 1
       \/ /\ ~Recheck(t)
          /\ Thread(t, "locked", "failing")
          /\ UNCHANGED loads
    /\ UNCHANGED <<_embeddings, _cache_backed_embeddings, _faiss, modelLock, faissLock>>

Publish(t) ==
    /\ \/ /\ Thread(t, "half", "half")
          /\ ~_cache_backed_embeddings
          /\ _cache_backed_embeddings' = TRUE
          /\ UNCHANGED _embeddings
       \/ /\ Thread(t, "half", "set")
          /\ _cache_backed_embeddings
          /\ _embeddings' = TRUE
          /\ UNCHANGED _cache_backed_embeddings
    /\ UNCHANGED <<_faiss, modelLock, faissLock, loads>>

\* The end of the with statement, for better or worse.
UnlockModel(t) ==
    /\ modelLock' = Free
    /\ Thread(t, "set", "return") \/ Thread(t, "failing", "raising")
    /\ UNCHANGED <<_embeddings, _cache_backed_embeddings, _faiss, faissLock, loads>>

-----------------------------------------------------------------------------
\* The field is read once more and handed out, to the caller or to _load_faiss.
Return(t) ==
    /\ thread[t].at = "return"
    /\ thread' = [thread EXCEPT ![t].got = Own(t),
                                ![t].at = IF thread[t].wants = "faiss" THEN "loaded" ELSE "over"]
    /\ UNCHANGED <<_embeddings, _cache_backed_embeddings, _faiss, modelLock, faissLock, loads>>

\* The index is read from its files, unless it has been, and the lock given back; a
\* failure is not remembered.
FinishFaiss(t) ==
    /\ \/ /\ Thread(t, "loaded", "over")
          /\ _faiss' = TRUE
       \/ /\ ~_faiss
          /\ Thread(t, "loaded", "failed")
          /\ UNCHANGED _faiss
    /\ faissLock' = Free
    /\ UNCHANGED <<_embeddings, _cache_backed_embeddings, modelLock, loads>>

Raise(t) ==
    /\ Thread(t, "raising", "failed")
    /\ faissLock' = IF faissLock = t THEN Free ELSE faissLock
    /\ UNCHANGED <<_embeddings, _cache_backed_embeddings, _faiss, modelLock, loads>>

SharedNext ==
    \E t \in Threads :
        \/ Want(t) \/ LockFaiss(t) \/ AskField(t) \/ CheckUnlocked(t) \/ LockModel(t) \/ LoadModel(t)
        \/ Publish(t) \/ UnlockModel(t) \/ Return(t) \/ FinishFaiss(t) \/ Raise(t)

SharedSpec == SharedInit /\ [][SharedNext]_sharedVars

-----------------------------------------------------------------------------
\* However many threads come first, the model is loaded into memory once, and a
\* thread that is not told of a failure has what it asked for, never None.
LoadedOnceForAll ==
    /\ loads <= 1
    /\ \A t \in Threads : thread[t].at = "over" =>
          IF thread[t].wants = "faiss" THEN _faiss ELSE thread[t].got
=============================================================================
