---------------------------- MODULE Services_proofs ----------------------------
(***************************************************************************)
(* Theorems of the smaller services: the object store, the embedding       *)
(* models that all threads share, the fields of an app's configuration,    *)
(* the conversations with their messages, the bills of calls, the pages of *)
(* messages and the figures of an app.                                     *)
(***************************************************************************)
EXTENDS UploadedFiles, SharedModels, AppConfigRules, Conversations, CallBilling, MessagePages, Analysis,
        TLAPS, WellFoundedInduction, FiniteSetTheorems

-----------------------------------------------------------------------------
(***************************************************************************)
(* UploadedFiles, for any number of overlapping uploads.                   *)
(***************************************************************************)
\* The inductive invariant: only an upload that is done has a row, an object is there
\* from the moment it was stored until its row is, and none before.
FilesInv ==
    /\ FilesTypeOK
    /\ FilesAreAccountedFor
    /\ \A u \in fileRows : upload[u] = "done"
    /\ \A u \in Uploads :
          /\ upload[u] = "stored" => u \in objects
          /\ upload[u] \in {"new", "checked"} => u \notin objects

LEMMA FilesInitially == FilesInit => FilesInv
BY DEF FilesInit, FilesInv, FilesTypeOK, FilesAreAccountedFor

\* One upload goes on, and touches no key but its own.
LEMMA UploadStep ==
    ASSUME FilesInv, NEW u \in Uploads, NEW to,
           to \in {"checked", "stored", "compensating", "done", "refused", "lost", "crashed"},
           upload[u] \notin {"done"},
           upload' = [upload EXCEPT ![u] = to],
           \A v \in Uploads \ {u} : /\ v \in objects' <=> v \in objects
                                    /\ v \in fileRows' <=> v \in fileRows
                                    /\ v \in logged => v \in logged',
           objects' \subseteq Uploads, fileRows' \subseteq Uploads, logged' \subseteq Uploads,
           u \in fileRows' => to = "done" /\ u \in objects',
           u \in objects' => \/ u \in fileRows' \/ u \in logged'
                             \/ to \in {"stored", "compensating", "crashed", "lost"},
           to = "stored" => u \in objects',
           to = "checked" => u \notin objects'
    PROVE  FilesInv'
<1>1. FilesTypeOK'
  BY DEF FilesInv, FilesTypeOK
<1>2. upload'[u] = to /\ \A v \in Uploads \ {u} : upload'[v] = upload[v]
  BY DEF FilesInv, FilesTypeOK
<1>3. FilesAreAccountedFor'
  BY <1>2 DEF FilesInv, FilesTypeOK, FilesAreAccountedFor
<1> QED BY <1>1, <1>2, <1>3 DEF FilesInv, FilesTypeOK

LEMMA FilesStep == FilesInv /\ [FilesNext]_fileVars => FilesInv'
<1> SUFFICES ASSUME FilesInv, [FilesNext]_fileVars PROVE FilesInv'
  OBVIOUS
<1>1. ASSUME NEW u \in Uploads PROVE u \in fileRows => upload[u] = "done"
  BY DEF FilesInv
<1>2. objects \subseteq Uploads /\ fileRows \subseteq Uploads /\ logged \subseteq Uploads
  BY DEF FilesInv, FilesTypeOK
<1>3. ASSUME NEW u \in Uploads, CheckFile(u) PROVE FilesInv'
  <2>1. upload[u] = "new" /\ u \notin objects /\ u \notin fileRows
    BY <1>1, <1>3 DEF CheckFile, UploadGoes, FilesInv
  <2> QED BY <1>2, <1>3, <2>1, UploadStep DEF CheckFile, UploadGoes
<1>4. ASSUME NEW u \in Uploads, put_object(u) PROVE FilesInv'
  <2>1. upload[u] = "checked" /\ u \notin objects /\ u \notin fileRows
    BY <1>1, <1>4 DEF put_object, UploadGoes, FilesInv
  <2> QED BY <1>2, <1>4, <2>1, UploadStep DEF put_object, UploadGoes
<1>5. ASSUME NEW u \in Uploads, create_upload_file(u) PROVE FilesInv'
  <2>1. upload[u] = "stored" /\ u \in objects /\ u \notin fileRows
    BY <1>1, <1>5 DEF create_upload_file, UploadGoes, FilesInv
  <2> QED BY <1>2, <1>5, <2>1, UploadStep DEF create_upload_file, UploadGoes
<1>6. ASSUME NEW u \in Uploads, delete_object(u) PROVE FilesInv'
  <2>1. upload[u] = "compensating" /\ u \notin fileRows
    BY <1>1, <1>6 DEF delete_object, UploadGoes
  <2> QED BY <1>2, <1>6, <2>1, UploadStep DEF delete_object, UploadGoes
<1>7. ASSUME NEW u \in Uploads, UploadCrashes(u) PROVE FilesInv'
  <2>1. upload[u] \in {"checked", "stored", "compensating"} /\ u \notin fileRows
    BY <1>1, <1>7 DEF UploadCrashes, UploadGoes
  <2> QED BY <1>2, <1>7, <2>1, UploadStep DEF UploadCrashes, UploadGoes
<1>8. CASE UNCHANGED fileVars
  BY <1>8 DEF fileVars, FilesInv, FilesTypeOK, FilesAreAccountedFor
<1> QED BY <1>3, <1>4, <1>5, <1>6, <1>7, <1>8 DEF FilesNext, upload_file

\* upload_file: every row has its object, and an object without a row is that of an
\* upload that is under way, was cut off or never answered, or its key was logged.
THEOREM FilesStayAccountedFor == FilesSpec => []FilesAreAccountedFor
<1>1. FilesInv => FilesAreAccountedFor
  BY DEF FilesInv
<1> QED BY <1>1, FilesInitially, FilesStep, PTL DEF FilesSpec

-----------------------------------------------------------------------------
(***************************************************************************)
(* SharedModels, for any number of threads: the double-checked lock loads  *)
(* the model once and hands out nothing that is not there.                 *)
(***************************************************************************)
Critical == {"locked", "half", "set", "failing"}

\* What a thread may rely on where it is.
ThreadAgrees(t) ==
    /\ thread[t].at \in Critical => modelLock = t
    /\ thread[t].at = "half" => loads = 1 /\ ~_embeddings
    /\ thread[t].at = "set" => _embeddings
    /\ thread[t].at = "return" => Own(t)
    /\ thread[t].at \in {"outside", "loaded"} => thread[t].wants = "faiss"
    /\ thread[t].at = "over" => IF thread[t].wants = "faiss" THEN _faiss ELSE thread[t].got

FieldsAgree ==
    /\ loads \in {0, 1}
    /\ _embeddings => _cache_backed_embeddings /\ loads = 1
    /\ ~_embeddings /\ loads = 1 => \E t \in Threads : thread[t].at = "half"

\* The inductive invariant.
SharedInv ==
    /\ SharedTypeOK
    /\ FieldsAgree
    /\ \A t \in Threads : ThreadAgrees(t)

LEMMA SharedInitially == SharedInit => SharedInv
<1> SUFFICES ASSUME SharedInit PROVE SharedInv
  OBVIOUS
<1>1. thread \in [Threads -> [at : Places, wants : Wanted, got : BOOLEAN]]
  BY DEF SharedInit, Places, Wanted
<1>2. \A t \in Threads : thread[t].at = "new"
  BY DEF SharedInit
<1>3. SharedTypeOK
  BY <1>1 DEF SharedInit, SharedTypeOK
<1>4. \A t \in Threads : ThreadAgrees(t)
  BY <1>2 DEF ThreadAgrees, Critical
<1>5. loads = 0 /\ ~_embeddings
  BY DEF SharedInit
<1>6. FieldsAgree
  BY <1>5 DEF FieldsAgree
<1> QED BY <1>3, <1>4, <1>6 DEF SharedInv

\* A thread moves from one place to another.
LEMMA ThreadMoves ==
    ASSUME SharedTypeOK, NEW t \in Threads, NEW from, NEW to \in Places, Thread(t, from, to)
    PROVE  /\ thread' \in [Threads -> [at : Places, wants : Wanted, got : BOOLEAN]]
           /\ thread[t].at = from /\ thread'[t].at = to
           /\ thread'[t].wants = thread[t].wants /\ thread'[t].got = thread[t].got
           /\ \A u \in Threads \ {t} : thread'[u] = thread[u]
BY DEF SharedTypeOK, Thread

LEMMA FieldTypes ==
    ASSUME SharedTypeOK
    PROVE  /\ _embeddings \in BOOLEAN /\ _cache_backed_embeddings \in BOOLEAN /\ _faiss \in BOOLEAN
           /\ modelLock \in Threads \union {Free} /\ faissLock \in Threads \union {Free}
BY DEF SharedTypeOK

\* The fields are only ever set.
Grow == /\ _embeddings => _embeddings'
        /\ _cache_backed_embeddings => _cache_backed_embeddings'
        /\ _faiss => _faiss'

LEMMA OthersRely ==
    ASSUME NEW u \in Threads, ThreadAgrees(u), thread'[u] = thread[u], Grow,
           thread[u].at \in Critical => modelLock' = modelLock,
           thread[u].at = "half" => loads' = loads /\ (_embeddings' <=> _embeddings)
    PROVE  ThreadAgrees(u)'
<1>1. Own(u) => Own(u)'
  BY DEF Own, Grow
<1> QED BY <1>1 DEF ThreadAgrees, Grow

-----------------------------------------------------------------------------
\* A step that sets no field and loads nothing.
LEMMA QuietLoadStep ==
    ASSUME SharedInv, NEW t \in Threads, NEW from, NEW to \in Places \ {"half"}, from # "half",
           Thread(t, from, to),
           UNCHANGED <<_embeddings, _cache_backed_embeddings, loads>>,
           _faiss => _faiss', _faiss' \in BOOLEAN,
           faissLock' \in Threads \union {Free}, modelLock' \in Threads \union {Free},
           \A u \in Threads \ {t} : modelLock = u => modelLock' = u,
           to \in Critical => modelLock' = t,
           to = "set" => _embeddings,
           to = "return" => Own(t),
           to \in {"outside", "loaded"} => thread[t].wants = "faiss",
           to = "over" => thread[t].wants = "faiss" /\ _faiss'
    PROVE  SharedInv'
<1>1. /\ thread' \in [Threads -> [at : Places, wants : Wanted, got : BOOLEAN]]
      /\ thread[t].at = from /\ thread'[t].at = to
      /\ thread'[t].wants = thread[t].wants /\ thread'[t].got = thread[t].got
      /\ \A u \in Threads \ {t} : thread'[u] = thread[u]
  BY ThreadMoves DEF SharedInv
<1>2. SharedTypeOK'
  BY <1>1 DEF SharedInv, SharedTypeOK
<1>3. \A u \in Threads \ {t} : thread[u].at \in Critical => modelLock' = modelLock
  BY DEF SharedInv, ThreadAgrees
<1>4. \A u \in Threads \ {t} : ThreadAgrees(u)'
  BY <1>1, <1>3, OthersRely DEF SharedInv, Grow
<1>5. Own(t)' = Own(t)
  BY <1>1 DEF Own
<1>6. ThreadAgrees(t)'
  BY <1>1, <1>5 DEF ThreadAgrees
<1>7. FieldsAgree'
  BY <1>1 DEF SharedInv, FieldsAgree
<1> QED BY <1>2, <1>4, <1>6, <1>7 DEF SharedInv

-----------------------------------------------------------------------------
LEMMA WantStep ==
    ASSUME SharedInv, NEW t \in Threads, Want(t)
    PROVE  SharedInv'
<1>1. PICK wanted \in Wanted :
          thread' = [thread EXCEPT ![t].wants = wanted,
                                   ![t].at = IF wanted = "faiss" THEN "outside" ELSE "ask"]
  BY DEF Want
<1>2. thread \in [Threads -> [at : Places, wants : Wanted, got : BOOLEAN]]
  BY DEF SharedInv, SharedTypeOK
<1>3. /\ thread' \in [Threads -> [at : Places, wants : Wanted, got : BOOLEAN]]
      /\ thread'[t].wants = wanted
      /\ thread'[t].at = IF wanted = "faiss" THEN "outside" ELSE "ask"
      /\ \A u \in Threads \ {t} : thread'[u] = thread[u]
  BY <1>1, <1>2 DEF Places
<1>4. SharedTypeOK'
  BY <1>3 DEF Want, SharedInv, SharedTypeOK
<1>5. \A u \in Threads \ {t} : ThreadAgrees(u)'
  BY <1>3, OthersRely DEF Want, SharedInv, Grow
<1>6. ThreadAgrees(t)'
  BY <1>3 DEF ThreadAgrees, Critical
<1>7. thread[t].at = "new"
  BY DEF Want
<1>8. FieldsAgree'
  BY <1>3, <1>7 DEF Want, SharedInv, FieldsAgree
<1> QED BY <1>4, <1>5, <1>6, <1>8 DEF SharedInv

LEMMA LockFaissStep ==
    ASSUME SharedInv, NEW t \in Threads, LockFaiss(t)
    PROVE  SharedInv'
<1>1. /\ UNCHANGED <<_embeddings, _cache_backed_embeddings, _faiss, modelLock, loads>>
      /\ faissLock' = t
      /\ Thread(t, "outside", "ask") \/ Thread(t, "outside", "loaded")
  BY DEF LockFaiss
<1>2. thread[t].wants = "faiss"
  BY <1>1 DEF SharedInv, ThreadAgrees, Thread
<1>3. _faiss \in BOOLEAN /\ modelLock \in Threads \union {Free}
  BY FieldTypes DEF SharedInv
<1>4. CASE Thread(t, "outside", "ask")
  BY <1>1, <1>3, <1>4, QuietLoadStep DEF Places, Critical
<1>5. CASE Thread(t, "outside", "loaded")
  BY <1>1, <1>2, <1>3, <1>5, QuietLoadStep DEF Places, Critical
<1> QED BY <1>1, <1>4, <1>5

LEMMA AskStep ==
    ASSUME SharedInv, NEW t \in Threads, AskField(t) \/ CheckUnlocked(t)
    PROVE  SharedInv'
<1>1. UNCHANGED <<_embeddings, _cache_backed_embeddings, _faiss, modelLock, faissLock, loads>>
  BY DEF AskField, CheckUnlocked
<1>2. /\ _faiss \in BOOLEAN /\ modelLock \in Threads \union {Free}
      /\ faissLock \in Threads \union {Free}
  BY FieldTypes DEF SharedInv
<1>3. _embeddings => Own(t)
  BY DEF SharedInv, FieldsAgree, Own
<1>4. CASE Own(t) /\ Thread(t, "ask", "return")
  BY <1>1, <1>2, <1>4, QuietLoadStep DEF Places, Critical
<1>5. CASE Thread(t, "ask", "unchecked")
  BY <1>1, <1>2, <1>5, QuietLoadStep DEF Places, Critical
<1>6. CASE _embeddings /\ Thread(t, "unchecked", "return")
  BY <1>1, <1>2, <1>3, <1>6, QuietLoadStep DEF Places, Critical
<1>7. CASE Thread(t, "unchecked", "waiting")
  BY <1>1, <1>2, <1>7, QuietLoadStep DEF Places, Critical
<1> QED BY <1>4, <1>5, <1>6, <1>7 DEF AskField, CheckUnlocked

LEMMA LockModelStep ==
    ASSUME SharedInv, NEW t \in Threads, LockModel(t)
    PROVE  SharedInv'
<1>1. /\ UNCHANGED <<_embeddings, _cache_backed_embeddings, _faiss, faissLock, loads>>
      /\ modelLock = Free /\ modelLock' = t
      /\ Thread(t, "waiting", "locked")
  BY DEF LockModel
<1>2. \A u \in Threads \ {t} : modelLock = u => modelLock' = u
  BY <1>1, ThreadsAssumption
<1>3. _faiss \in BOOLEAN /\ faissLock \in Threads \union {Free}
  BY FieldTypes DEF SharedInv
<1> QED BY <1>1, <1>2, <1>3, QuietLoadStep DEF Places, Critical

\* What the thread that holds the model's lock may know.
LEMMA HolderAlone ==
    ASSUME SharedInv, NEW t \in Threads, thread[t].at \in Critical
    PROVE  /\ modelLock = t
           /\ \A u \in Threads \ {t} : thread[u].at \notin Critical
BY DEF SharedInv, ThreadAgrees

LEMMA LoadModelStep ==
    ASSUME SharedInv, NEW t \in Threads, LoadModel(t)
    PROVE  SharedInv'
<1>1. UNCHANGED <<_embeddings, _cache_backed_embeddings, _faiss, modelLock, faissLock>>
  BY DEF LoadModel
<1>2. thread[t].at = "locked"
  BY DEF LoadModel, Thread
<1>3. /\ modelLock = t
      /\ \A u \in Threads \ {t} : thread[u].at \notin Critical
  BY <1>2, HolderAlone DEF Critical
<1>4. _faiss \in BOOLEAN /\ faissLock \in Threads \union {Free}
  BY FieldTypes DEF SharedInv
<1>5. CASE _embeddings /\ Thread(t, "locked", "set") /\ UNCHANGED loads
  BY <1>1, <1>3, <1>4, <1>5, QuietLoadStep DEF Places, Critical
<1>6. CASE Thread(t, "locked", "failing") /\ UNCHANGED loads
  BY <1>1, <1>3, <1>4, <1>6, QuietLoadStep DEF Places, Critical
<1>7. CASE ~_embeddings /\ Thread(t, "locked", "half") /\ loads' = loads + 1
  <2>1. /\ thread' \in [Threads -> [at : Places, wants : Wanted, got : BOOLEAN]]
        /\ thread'[t].at = "half"
        /\ \A u \in Threads \ {t} : thread'[u] = thread[u]
    BY <1>7, ThreadMoves DEF SharedInv, Places
  <2>2. loads = 0
    <3>1. \A u \in Threads : thread[u].at # "half"
      BY <1>2, <1>3 DEF Critical
    <3> QED BY <1>7, <3>1 DEF SharedInv, FieldsAgree
  <2>3. loads' = 1
    BY <1>7, <2>2
  <2>4. SharedTypeOK'
    BY <1>1, <2>1 DEF SharedInv, SharedTypeOK
  <2>5. FieldsAgree'
    BY <1>1, <1>7, <2>1, <2>3 DEF FieldsAgree
  <2>6. ThreadAgrees(t)'
    BY <1>1, <1>3, <1>7, <2>1, <2>3 DEF ThreadAgrees, Critical
  <2>7. \A u \in Threads \ {t} : ThreadAgrees(u)'
    BY <1>1, <1>3, <2>1, OthersRely DEF SharedInv, Grow, Critical
  <2> QED BY <2>4, <2>5, <2>6, <2>7 DEF SharedInv
<1> QED BY <1>5, <1>6, <1>7 DEF LoadModel, Recheck

LEMMA PublishModelStep ==
    ASSUME SharedInv, NEW t \in Threads, Publish(t)
    PROVE  SharedInv'
<1>1. UNCHANGED <<_faiss, modelLock, faissLock, loads>>
  BY DEF Publish
<1>2. thread[t].at = "half"
  BY DEF Publish, Thread
<1>3. /\ modelLock = t
      /\ \A u \in Threads \ {t} : thread[u].at \notin Critical
  BY <1>2, HolderAlone DEF Critical
<1>4. loads = 1 /\ ~_embeddings
  BY <1>2 DEF SharedInv, ThreadAgrees
<1>5. CASE /\ Thread(t, "half", "half")
           /\ _cache_backed_embeddings' = TRUE /\ UNCHANGED _embeddings
  <2>1. /\ thread' \in [Threads -> [at : Places, wants : Wanted, got : BOOLEAN]]
        /\ thread'[t].at = "half"
        /\ \A u \in Threads \ {t} : thread'[u] = thread[u]
    BY <1>5, ThreadMoves DEF SharedInv, Places
  <2>2. SharedTypeOK'
    BY <1>1, <1>5, <2>1 DEF SharedInv, SharedTypeOK
  <2>3. FieldsAgree'
    BY <1>1, <1>4, <1>5, <2>1 DEF FieldsAgree
  <2>4. ThreadAgrees(t)'
    BY <1>1, <1>3, <1>4, <1>5, <2>1 DEF ThreadAgrees, Critical
  <2>5. \A u \in Threads \ {t} : ThreadAgrees(u)'
    BY <1>1, <1>3, <1>5, <2>1, OthersRely DEF SharedInv, Grow, Critical
  <2> QED BY <2>2, <2>3, <2>4, <2>5 DEF SharedInv
<1>6. CASE /\ Thread(t, "half", "set") /\ _cache_backed_embeddings
           /\ _embeddings' = TRUE /\ UNCHANGED _cache_backed_embeddings
  <2>1. /\ thread' \in [Threads -> [at : Places, wants : Wanted, got : BOOLEAN]]
        /\ thread'[t].at = "set"
        /\ \A u \in Threads \ {t} : thread'[u] = thread[u]
    BY <1>6, ThreadMoves DEF SharedInv, Places
  <2>2. SharedTypeOK'
    BY <1>1, <1>6, <2>1 DEF SharedInv, SharedTypeOK
  <2>3. FieldsAgree'
    BY <1>1, <1>4, <1>6 DEF FieldsAgree
  <2>4. ThreadAgrees(t)'
    BY <1>1, <1>3, <1>6, <2>1 DEF ThreadAgrees, Critical
  <2>5. \A u \in Threads \ {t} : ThreadAgrees(u)'
    BY <1>1, <1>3, <1>6, <2>1, OthersRely DEF SharedInv, Grow, Critical
  <2> QED BY <2>2, <2>3, <2>4, <2>5 DEF SharedInv
<1> QED BY <1>5, <1>6 DEF Publish

LEMMA UnlockModelStep ==
    ASSUME SharedInv, NEW t \in Threads, UnlockModel(t)
    PROVE  SharedInv'
<1>1. /\ UNCHANGED <<_embeddings, _cache_backed_embeddings, _faiss, faissLock, loads>>
      /\ modelLock' = Free
      /\ Thread(t, "set", "return") \/ Thread(t, "failing", "raising")
  BY DEF UnlockModel
<1>2. modelLock = t
  BY <1>1, HolderAlone DEF Thread, Critical
<1>3. \A u \in Threads \ {t} : modelLock = u => modelLock' = u
  BY <1>2
<1>4. _faiss \in BOOLEAN /\ faissLock \in Threads \union {Free}
  BY FieldTypes DEF SharedInv
<1>5. CASE Thread(t, "set", "return")
  <2>1. _embeddings
    BY <1>5 DEF SharedInv, ThreadAgrees, Thread
  <2>2. Own(t)
    BY <2>1 DEF SharedInv, FieldsAgree, Own
  <2> QED BY <1>1, <1>3, <1>4, <1>5, <2>2, QuietLoadStep DEF Places, Critical
<1>6. CASE Thread(t, "failing", "raising")
  BY <1>1, <1>3, <1>4, <1>6, QuietLoadStep DEF Places, Critical
<1> QED BY <1>1, <1>5, <1>6

LEMMA ReturnStep ==
    ASSUME SharedInv, NEW t \in Threads, Return(t)
    PROVE  SharedInv'
<1>1. UNCHANGED <<_embeddings, _cache_backed_embeddings, _faiss, modelLock, faissLock, loads>>
  BY DEF Return
<1>2. thread[t].at = "return" /\ Own(t)
  BY DEF Return, SharedInv, ThreadAgrees
<1>3. thread \in [Threads -> [at : Places, wants : Wanted, got : BOOLEAN]]
  BY DEF SharedInv, SharedTypeOK
<1>4. Own(t) \in BOOLEAN
  BY FieldTypes DEF SharedInv, Own
<1>5. /\ thread' \in [Threads -> [at : Places, wants : Wanted, got : BOOLEAN]]
      /\ thread'[t].wants = thread[t].wants
      /\ thread'[t].got = Own(t)
      /\ thread'[t].at = IF thread[t].wants = "faiss" THEN "loaded" ELSE "over"
      /\ \A u \in Threads \ {t} : thread'[u] = thread[u]
  BY <1>3, <1>4 DEF Return, Places
<1>6. SharedTypeOK'
  BY <1>1, <1>5 DEF SharedInv, SharedTypeOK
<1>7. FieldsAgree'
  BY <1>1, <1>2, <1>5 DEF SharedInv, FieldsAgree
<1>8. ThreadAgrees(t)'
  BY <1>2, <1>5 DEF ThreadAgrees, Critical
<1>9. \A u \in Threads \ {t} : ThreadAgrees(u)'
  BY <1>1, <1>5, OthersRely DEF SharedInv, Grow
<1> QED BY <1>6, <1>7, <1>8, <1>9 DEF SharedInv

LEMMA FinishFaissStep ==
    ASSUME SharedInv, NEW t \in Threads, FinishFaiss(t) \/ Raise(t)
    PROVE  SharedInv'
<1>1. UNCHANGED <<_embeddings, _cache_backed_embeddings, modelLock, loads>>
  BY DEF FinishFaiss, Raise
<1>2. /\ _faiss \in BOOLEAN /\ modelLock \in Threads \union {Free}
      /\ faissLock \in Threads \union {Free}
  BY FieldTypes DEF SharedInv
<1>3. faissLock' \in Threads \union {Free}
  BY <1>2 DEF FinishFaiss, Raise
<1>4. CASE Thread(t, "loaded", "over") /\ _faiss' = TRUE
  <2>1. thread[t].wants = "faiss"
    BY <1>4 DEF SharedInv, ThreadAgrees, Thread
  <2> QED BY <1>1, <1>2, <1>3, <1>4, <2>1, QuietLoadStep DEF Places, Critical
<1>5. CASE Thread(t, "loaded", "failed") /\ UNCHANGED _faiss
  BY <1>1, <1>2, <1>3, <1>5, QuietLoadStep DEF Places, Critical
<1>6. CASE Thread(t, "raising", "failed") /\ UNCHANGED _faiss
  BY <1>1, <1>2, <1>3, <1>6, QuietLoadStep DEF Places, Critical
<1> QED BY <1>4, <1>5, <1>6 DEF FinishFaiss, Raise

-----------------------------------------------------------------------------
LEMMA SharedStep == SharedInv /\ [SharedNext]_sharedVars => SharedInv'
<1> SUFFICES ASSUME SharedInv, [SharedNext]_sharedVars PROVE SharedInv'
  OBVIOUS
<1>1. CASE SharedNext
  <2>1. PICK t \in Threads :
            \/ Want(t) \/ LockFaiss(t) \/ AskField(t) \/ CheckUnlocked(t) \/ LockModel(t)
            \/ LoadModel(t) \/ Publish(t) \/ UnlockModel(t) \/ Return(t) \/ FinishFaiss(t) \/ Raise(t)
    BY <1>1 DEF SharedNext
  <2> QED
    BY <2>1, WantStep, LockFaissStep, AskStep, LockModelStep, LoadModelStep, PublishModelStep,
       UnlockModelStep, ReturnStep, FinishFaissStep
<1>2. CASE UNCHANGED sharedVars
  BY <1>2 DEF sharedVars, SharedInv, SharedTypeOK, FieldsAgree, ThreadAgrees, Own
<1> QED BY <1>1, <1>2

\* The embedding model is loaded at most once in a process (EmbeddingsService._load_model),
\* and no thread is handed a field that is still None, whichever of the threads come
\* first, however their reads outside the lock fall between the two assignments inside
\* it, and whichever loads fail.
THEOREM LoadedOnce == SharedSpec => []LoadedOnceForAll
<1>1. SharedInv => LoadedOnceForAll
  <2> SUFFICES ASSUME SharedInv PROVE LoadedOnceForAll
    OBVIOUS
  <2>1. loads <= 1
    BY DEF SharedInv, FieldsAgree
  <2>2. \A t \in Threads : thread[t].at = "over" =>
            IF thread[t].wants = "faiss" THEN _faiss ELSE thread[t].got
    BY DEF SharedInv, ThreadAgrees
  <2> QED BY <2>1, <2>2 DEF LoadedOnceForAll
<1> QED BY <1>1, SharedInitially, SharedStep, PTL DEF SharedSpec

-----------------------------------------------------------------------------
(***************************************************************************)
(* Lists from which a fold drops what is not to be kept: what is found of a *)
(* draft's references, and the messages that may be remembered.            *)
(***************************************************************************)
\* Induction over the numbers, as the choice of a smallest one.
LEMMA LeastOf ==
    ASSUME NEW T, T \subseteq Nat, T # {}
    PROVE  \E n \in T : \A m \in T : n <= m
<1>1. PICK n \in T : \A m \in T : <<m, n>> \notin OpToRel(<, Nat)
  BY NatLessThanWellFounded, WFMin
<1>2. \A m \in T : ~(m < n)
  BY <1>1 DEF OpToRel
<1> QED
  BY <1>2

\* What the fold that drops from a list whatever is not to be kept has at a set of
\* the list's first n indices.
Filters(f, n, list, keep) ==
    f = [s \in SUBSET (1..n) |->
           IF s = {} THEN <<>>
           ELSE IF list[Max(s)] \in keep THEN Append(f[s \ {Max(s)}], list[Max(s)]) ELSE f[s \ {Max(s)}]]

LEMMA LastIsMax ==
    ASSUME NEW n \in Nat, NEW s, s \subseteq 1..(n + 1), n + 1 \in s
    PROVE  Max(s) = n + 1
<1>1. \A y \in s : n + 1 >= y
  OBVIOUS
<1>2. \A x \in s : (\A y \in s : x >= y) => x = n + 1
  OBVIOUS
<1> QED
  BY <1>1, <1>2 DEF Max

LEMMA FilterAt ==
    ASSUME NEW list, NEW keep, NEW n \in Nat, NEW f, Filters(f, n, list, keep), NEW k \in Nat, k < n
    PROVE  f[1..(k + 1)] = IF list[k + 1] \in keep THEN Append(f[1..k], list[k + 1]) ELSE f[1..k]
<1> DEFINE s == 1..(k + 1)
<1>1. s \in SUBSET (1..n)
  OBVIOUS
<1>2. k + 1 \in s /\ s \subseteq 1..(k + 1)
  OBVIOUS
<1>3. s \ {k + 1} = 1..k
  OBVIOUS
<1>4. Max(s) = k + 1
  BY <1>2, LastIsMax
<1> HIDE DEF s
<1>5. f[s] = IF s = {} THEN <<>>
             ELSE IF list[Max(s)] \in keep THEN Append(f[s \ {Max(s)}], list[Max(s)]) ELSE f[s \ {Max(s)}]
  BY <1>1 DEF Filters
<1>6. f[s] = IF list[k + 1] \in keep THEN Append(f[1..k], list[k + 1]) ELSE f[1..k]
  BY <1>2, <1>3, <1>4, <1>5
<1> QED
  BY <1>6 DEF s

LEMMA FilterExists ==
    ASSUME NEW list, NEW keep, NEW n \in Nat
    PROVE  \E f : Filters(f, n, list, keep)
<1> DEFINE T == {k \in Nat : ~ \E f : Filters(f, k, list, keep)}
<1> SUFFICES ASSUME T # {} PROVE FALSE
  OBVIOUS
<1>1. PICK k \in T : \A m \in T : k <= m
  BY LeastOf
<1>2. k # 0
  <2> DEFINE f == [s \in SUBSET (1..0) |-> <<>>]
  <2>1. \A s \in SUBSET (1..0) : s = {}
    OBVIOUS
  <2>2. Filters(f, 0, list, keep)
    BY <2>1 DEF Filters
  <2> QED
    BY <2>2
<1>3. PICK g : Filters(g, k - 1, list, keep)
  <2>1. k - 1 \in Nat /\ ~(k <= k - 1)
    BY <1>2
  <2> QED
    BY <1>1, <2>1
<1> DEFINE m == k - 1
           One(before) == IF list[k] \in keep THEN Append(before, list[k]) ELSE before
           f == [s \in SUBSET (1..k) |-> IF k \in s THEN One(g[s \ {k}]) ELSE g[s]]
<1>4. m \in Nat /\ k = m + 1
  BY <1>2
<1>5. ASSUME NEW s \in SUBSET (1..k)
      PROVE  f[s] = IF s = {} THEN <<>>
                    ELSE IF list[Max(s)] \in keep THEN Append(f[s \ {Max(s)}], list[Max(s)]) ELSE f[s \ {Max(s)}]
  <2>1. CASE k \in s
    <3>1. Max(s) = k
      BY <1>4, <2>1, LastIsMax
    <3>2. f[s \ {k}] = g[s \ {k}]
      OBVIOUS
    <3>3. f[s] = One(g[s \ {k}])
      BY <2>1
    <3> QED
      BY <2>1, <3>1, <3>2, <3>3
  <2>2. CASE k \notin s
    <3>1. s \in SUBSET (1..m) /\ s \ {Max(s)} \in SUBSET (1..m)
      <4>1. \A i \in 1..k : i # k => i \in 1..m
        BY <1>4
      <4> QED
        BY <2>2, <4>1
    <3>2. g[s] = IF s = {} THEN <<>>
                 ELSE IF list[Max(s)] \in keep THEN Append(g[s \ {Max(s)}], list[Max(s)]) ELSE g[s \ {Max(s)}]
      BY <1>3, <3>1 DEF Filters
    <3>3. f[s] = g[s] /\ f[s \ {Max(s)}] = g[s \ {Max(s)}]
      BY <2>2, <3>1
    <3> QED
      BY <3>2, <3>3
  <2> QED
    BY <2>1, <2>2
<1>6. Filters(f, k, list, keep)
  BY <1>5, Zenon DEF Filters
<1> QED
  BY <1>6

\* A filtered list has only what the list had, and no element twice if the list had none.
LEMMA FilterOfSeq ==
    ASSUME NEW S, NEW list \in Seq(S), NEW keep, NEW f, Filters(f, Len(list), list, keep),
           NEW k \in 0..Len(list)
    PROVE  /\ f[1..k] \in Seq(S)
           /\ Len(f[1..k]) <= k
           /\ \A i \in 1..Len(f[1..k]) : \E j \in 1..k : f[1..k][i] = list[j]
           /\ (\A i, j \in 1..k : list[i] = list[j] => i = j)
              => \A i, j \in 1..Len(f[1..k]) : f[1..k][i] = f[1..k][j] => i = j
<1> DEFINE Good(n) == /\ f[1..n] \in Seq(S)
                      /\ Len(f[1..n]) <= n
                      /\ \A i \in 1..Len(f[1..n]) : \E j \in 1..n : f[1..n][i] = list[j]
                      /\ (\A i, j \in 1..n : list[i] = list[j] => i = j)
                         => \A i, j \in 1..Len(f[1..n]) : f[1..n][i] = f[1..n][j] => i = j
           T == {n \in 0..Len(list) : ~Good(n)}
<1> SUFFICES ASSUME T # {} PROVE FALSE
  OBVIOUS
<1>1. PICK n \in T : \A m \in T : n <= m
  <2>1. T \subseteq Nat
    OBVIOUS
  <2> HIDE DEF T
  <2> QED
    BY <2>1, LeastOf
<1>2. n # 0
  <2>1. {} \in SUBSET (1..Len(list)) /\ 1..0 = {}
    OBVIOUS
  <2>2. f[1..0] = <<>>
    BY <2>1 DEF Filters
  <2>3. Good(0)
    BY <2>2
  <2> QED
    BY <2>3
<1> DEFINE m == n - 1
           before == f[1..m]
<1>3. m \in Nat /\ n = m + 1 /\ m < Len(list) /\ m \in 0..Len(list) /\ m \notin T /\ Len(list) \in Nat
  <2>1. n \in 0..Len(list) /\ Len(list) \in Nat
    OBVIOUS
  <2> HIDE DEF T
  <2> QED BY <1>1, <1>2, <2>1
<1>4. Good(m)
  BY <1>3
<1>5. f[1..n] = IF list[n] \in keep THEN Append(before, list[n]) ELSE before
  <2> HIDE DEF T, Good
  <2> QED
    BY <1>3, FilterAt
<1>6. list[n] \in S
  BY <1>3
<1>7. CASE list[n] \notin keep
  <2>1. f[1..n] = f[1..m]
    BY <1>5, <1>7
  <2>2. Good(n)
    BY <1>3, <1>4, <2>1
  <2> QED
    BY <2>2
<1>8. CASE list[n] \in keep
  <2> DEFINE after == Append(before, list[n])
  <2>1. f[1..n] = after
    BY <1>5, <1>8
  <2>2. before \in Seq(S) /\ Len(before) <= m
        /\ \A i \in 1..Len(before) : \E j \in 1..m : before[i] = list[j]
    BY <1>4
  <2>3. /\ after \in Seq(S) /\ Len(after) = Len(before) + 1 /\ after[Len(before) + 1] = list[n]
        /\ \A i \in 1..Len(before) : after[i] = before[i]
    BY <1>6, <2>2
  <2> HIDE DEF after, before, T
  <2> HIDE DEF m
  <2>4. ASSUME NEW i \in 1..Len(after) PROVE \E j \in 1..n : after[i] = list[j]
    <3>1. CASE i = Len(before) + 1
      BY <1>3, <2>3, <3>1
    <3>2. CASE i # Len(before) + 1
      <4>1. i \in 1..Len(before)
        BY <2>2, <2>3, <3>2
      <4>2. PICK j \in 1..m : before[i] = list[j]
        BY <2>2, <4>1
      <4> QED BY <1>3, <2>3, <4>1, <4>2
    <3> QED BY <3>1, <3>2
  <2>5. ASSUME \A i, j \in 1..n : list[i] = list[j] => i = j
        PROVE  \A i, j \in 1..Len(after) : after[i] = after[j] => i = j
    <3>1. \A i, j \in 1..Len(before) : before[i] = before[j] => i = j
      BY <1>3, <1>4, <2>5 DEF before
    <3>2. ASSUME NEW i \in 1..Len(before) PROVE before[i] # list[n]
      <4>1. PICK j \in 1..m : before[i] = list[j]
        BY <2>2
      <4>2. j \in 1..n /\ n \in 1..n /\ j # n
        BY <1>3, <4>1
      <4> QED BY <2>5, <4>1, <4>2
    <3> QED BY <2>2, <2>3, <3>1, <3>2
  <2>6. Good(n)
    BY <1>3, <2>1, <2>2, <2>3, <2>4, <2>5
  <2> QED
    BY <2>6 DEF T
<1> QED
  BY <1>7, <1>8

-----------------------------------------------------------------------------
(***************************************************************************)
(* AppConfigRules, for any references and any bound on their number.       *)
(***************************************************************************)
LEMMA FoundIsFilter ==
    ASSUME NEW S, NEW list \in Seq(S)
    PROVE  Found(list) = (CHOOSE f : Filters(f, Len(list), list, existing))[1..Len(list)]
<1>1. DOMAIN list = 1..Len(list)
  OBVIOUS
<1> QED
  BY <1>1 DEF Found, FoldLeft, MapThenFoldSet, Filters

\* What is found of a list.
LEMMA FoundOf ==
    ASSUME NEW S, NEW list \in Seq(S)
    PROVE  /\ Found(list) \in Seq(S)
           /\ Len(Found(list)) <= Len(list)
           /\ \A i \in 1..Len(Found(list)) : \E j \in 1..Len(list) : Found(list)[i] = list[j]
           /\ IsInjective(list) => IsInjective(Found(list))
<1>1. Len(list) \in Nat /\ Len(list) \in 0..Len(list) /\ DOMAIN list = 1..Len(list)
  OBVIOUS
<1>2. PICK f : f = CHOOSE g : Filters(g, Len(list), list, existing)
  OBVIOUS
<1>3. Filters(f, Len(list), list, existing)
  <2>1. \E g : Filters(g, Len(list), list, existing)
    BY <1>1, FilterExists
  <2> QED
    BY <1>2, <2>1, Zenon
<1>4. Found(list) = f[1..Len(list)]
  BY <1>2, FoundIsFilter
<1>5. PICK n \in 0..Len(list) : n = Len(list)
  BY <1>1, Zenon
<1>6. /\ f[1..n] \in Seq(S)
      /\ Len(f[1..n]) <= n
      /\ \A i \in 1..Len(f[1..n]) : \E j \in 1..n : f[1..n][i] = list[j]
      /\ (\A i, j \in 1..n : list[i] = list[j] => i = j)
         => \A i, j \in 1..Len(f[1..n]) : f[1..n][i] = f[1..n][j] => i = j
  BY <1>3, FilterOfSeq
<1>7. DOMAIN Found(list) = 1..Len(Found(list))
  BY <1>4, <1>5, <1>6
<1>8. IsInjective(list) => IsInjective(Found(list))
  BY <1>1, <1>4, <1>5, <1>6, <1>7 DEF IsInjective
<1> QED BY <1>4, <1>5, <1>6, <1>8

Bound == {"tools", "workflows", "datasets"}
FieldNames == Bound \union {"model_config", "preset_prompt", "opening_statement", "long_term_memory",
                            "speech_to_text", "suggested_after_answer", "text_to_speech",
                            "opening_questions", "dialog_round", "retrieval_config", "review_config"}

FieldTyped(f) ==
    /\ f = [name |-> f.name, value |-> f.value]
    /\ f.name \in FieldNames
    /\ f.name \in Bound => f.value \in Seq(References \union {Malformed})
    /\ f.name = "model_config" => f.value \in ModelConfigs

\* The check of the fields whose value stays as it is.
Passes(f) ==
    CASE f.name = "retrieval_config" -> ValidRetrieval(f.value)
      [] f.name = "review_config" -> ValidReview(f.value)
      [] f.name \in {"preset_prompt", "opening_statement"} -> f.value = "short"
      [] f.name = "opening_questions" -> f.value \in {"none", "three"}
      [] f.name = "dialog_round" -> f.value \in 0 .. 100
      [] OTHER -> f.value \in {"on", "off"}

\* What the check leaves: a list that has no duplicate, nothing malformed and not too
\* many, a model in the catalogue with a parameter that is as it would be normalised.
FieldHolds(f) ==
    /\ f.name \in Bound => /\ f.value \in Seq(References)
                           /\ Len(f.value) <= MaxReferences
                           /\ IsInjective(f.value)
    /\ f.name = "model_config" => /\ f.value.model = "listed"
                                  /\ Normalised(f.value.rule, f.value.value) = f.value.value
    /\ f.name \notin Bound \union {"model_config"} => Passes(f)

RulesInv ==
    /\ FieldTyped(field)
    /\ fieldStage \in {"saved", "published"} => FieldHolds(field)
    /\ fieldStage # "unpublishable"
    /\ ResolvedRuns

LEMMA FieldsTyped == \A f \in Fields : FieldTyped(f)
<1> SUFFICES ASSUME NEW f \in Fields PROVE FieldTyped(f)
  OBVIOUS
<1>1. CASE f \in [name : Bound, value : Lists]
  <2>1. f.value \in Lists /\ f.name \in Bound /\ f = [name |-> f.name, value |-> f.value]
    BY <1>1
  <2>2. f.value \in Seq(References \union {Malformed})
    <3>1. PICK n \in 0 .. MaxReferences + 1 : f.value \in [1 .. n -> References \union {Malformed}]
      BY <2>1 DEF Lists
    <3> QED BY <3>1, ReferencesAssumption
  <2>3. f.name # "model_config"
    BY <2>1 DEF Bound
  <2> QED BY <2>1, <2>2, <2>3 DEF FieldTyped, FieldNames
<1>2. CASE f \in [name : {"model_config"}, value : ModelConfigs]
  BY <1>2 DEF FieldTyped, FieldNames, Bound
<1>3. ASSUME NEW names \in SUBSET (FieldNames \ (Bound \union {"model_config"})), NEW values,
             f \in [name : names, value : values]
      PROVE  FieldTyped(f)
  <2>1. f.name \in names /\ f = [name |-> f.name, value |-> f.value]
    BY <1>3
  <2> QED BY <2>1 DEF FieldTyped
<1>4. \/ f \in [name : Bound, value : Lists]
      \/ f \in [name : {"model_config"}, value : ModelConfigs]
      \/ \E names \in SUBSET (FieldNames \ (Bound \union {"model_config"})) : \E values :
            f \in [name : names, value : values]
  BY DEF Fields, FieldNames, Bound
<1> QED BY <1>1, <1>2, <1>3, <1>4

LEMMA NormalisedValue ==
    ASSUME NEW rule \in Rules, NEW v \in Value
    PROVE  /\ Normalised(rule, v) \in Value
           /\ Normalised(rule, Normalised(rule, v)) = Normalised(rule, v)
<1> DEFINE typed == IF v.type \in {"null", rule.type} THEN v ELSE rule.default
           outside(x) == (rule.min # 0 /\ x.n < rule.min) \/ (rule.max # 0 /\ x.n > rule.max)
<1>1. rule.default \in Value /\ rule.default.type # "null" /\ rule.type # "null" /\ ~outside(rule.default)
  BY DEF Rules, Value, Integer
<1>2. typed \in Value
  BY <1>1
<1>3. Normalised(rule, v) = IF typed.type # "null" /\ outside(typed) THEN rule.default ELSE typed
  BY DEF Normalised
<1>4. Normalised(rule, rule.default) = rule.default
  <2> DEFINE again == IF rule.default.type \in {"null", rule.type} THEN rule.default ELSE rule.default
  <2>1. again = rule.default
    OBVIOUS
  <2>2. Normalised(rule, rule.default) = IF again.type # "null" /\ outside(again) THEN rule.default ELSE again
    BY DEF Normalised
  <2> QED BY <2>1, <2>2
<1>5. CASE Normalised(rule, v) = rule.default
  BY <1>1, <1>4, <1>5
<1>6. CASE Normalised(rule, v) # rule.default
  <2>1. Normalised(rule, v) = typed /\ ~(typed.type # "null" /\ outside(typed))
    BY <1>3, <1>6
  <2>2. typed = v /\ v.type \in {"null", rule.type}
    BY <1>6, <2>1
  <2> QED BY <1>2, <2>1, <2>2
<1> QED BY <1>5, <1>6

LEMMA Unbound ==
    ASSUME NEW f, f.name \in FieldNames \ (Bound \union {"model_config"})
    PROVE  _validate_draft_app_config(f) = IF Passes(f) THEN {f.value} ELSE {}
<1>1. CASE f.name = "retrieval_config"
  BY <1>1 DEF _validate_draft_app_config, Passes
<1>2. CASE f.name = "review_config"
  BY <1>2 DEF _validate_draft_app_config, Passes
<1>3. CASE f.name \in {"preset_prompt", "opening_statement"}
  <2>1. _validate_draft_app_config(f) = {f.value} \intersect {"short"} /\ Passes(f) = (f.value = "short")
    BY <1>3 DEF _validate_draft_app_config, Passes
  <2> QED BY <2>1
<1>4. CASE f.name = "opening_questions"
  <2>1. _validate_draft_app_config(f) = {f.value} \intersect {"none", "three"} /\ Passes(f) = (f.value \in {"none", "three"})
    BY <1>4 DEF _validate_draft_app_config, Passes
  <2> QED BY <2>1
<1>5. CASE f.name = "dialog_round"
  <2>1. _validate_draft_app_config(f) = {f.value} \intersect (0 .. 100) /\ Passes(f) = (f.value \in 0 .. 100)
    BY <1>5 DEF _validate_draft_app_config, Passes
  <2> QED BY <2>1
<1>6. CASE f.name \in {"long_term_memory", "speech_to_text", "suggested_after_answer", "text_to_speech"}
  <2>1. _validate_draft_app_config(f) = {f.value} \intersect {"on", "off"} /\ Passes(f) = (f.value \in {"on", "off"})
    BY <1>6 DEF _validate_draft_app_config, Passes
  <2> QED BY <2>1
<1> QED BY <1>1, <1>2, <1>3, <1>4, <1>5, <1>6 DEF FieldNames, Bound

LEMMA OfBound ==
    ASSUME NEW f, f.name \in Bound
    PROVE  _validate_draft_app_config(f) =
             IF /\ WellFormed(f.value)
                /\ IsInjective(IF f.name = "tools" THEN Found(f.value) ELSE f.value)
             THEN {Found(f.value)} ELSE {}
BY DEF _validate_draft_app_config, Bound, ValidTools, ValidWorkflows, ValidDatasets

LEMMA OfModel ==
    ASSUME NEW f, f.name = "model_config"
    PROVE  _validate_draft_app_config(f) = ValidModel(f.value)
BY DEF _validate_draft_app_config

LEMMA ModelNormalised ==
    ASSUME NEW config \in ModelConfigs
    PROVE  LET cured == [config EXCEPT !.value = Normalised(config.rule, @)]
           IN /\ cured \in ModelConfigs
              /\ cured.model = config.model /\ cured.rule = config.rule
              /\ cured.value = Normalised(config.rule, config.value)
<1>1. config.rule \in Rules /\ config.value \in Value
  BY DEF ModelConfigs
<1>2. Normalised(config.rule, config.value) \in Value
  BY <1>1, NormalisedValue
<1> QED BY <1>2 DEF ModelConfigs

\* What the check leaves is as it should be.
LEMMA StoredHolds ==
    ASSUME NEW f, FieldTyped(f), NEW v \in _validate_draft_app_config(f)
    PROVE  FieldTyped([f EXCEPT !.value = v]) /\ FieldHolds([f EXCEPT !.value = v])
<1> DEFINE cured == [f EXCEPT !.value = v]
<1>1. cured = [name |-> f.name, value |-> v] /\ cured.name = f.name /\ cured.value = v /\ f.name \in FieldNames
  BY DEF FieldTyped
<1> HIDE DEF cured
<1>2. CASE f.name \in Bound
  <2>1. f.value \in Seq(References \union {Malformed})
    BY <1>2 DEF FieldTyped
  <2>2. v = Found(f.value) /\ WellFormed(f.value) /\ IsInjective(IF f.name = "tools" THEN Found(f.value) ELSE f.value)
    BY <1>2, OfBound
  <2>3. f.value \in Seq(References)
    <3>1. \A i \in 1 .. Len(f.value) : f.value[i] \in References
      BY <2>1, <2>2 DEF WellFormed
    <3> QED BY <2>1, <3>1
  <2>4. v \in Seq(References) /\ Len(v) <= Len(f.value) /\ IsInjective(v)
    BY <2>2, <2>3, FoundOf
  <2>5. Len(v) <= MaxReferences
    BY <2>2, <2>3, <2>4, ReferencesAssumption DEF WellFormed
  <2>6. v \in Seq(References \union {Malformed})
    BY <2>4
  <2>7. cured.name # "model_config"
    BY <1>1, <1>2 DEF Bound
  <2> QED BY <1>1, <1>2, <2>4, <2>5, <2>6, <2>7 DEF FieldTyped, FieldHolds, cured
<1>3. CASE f.name = "model_config"
  <2>1. f.value \in ModelConfigs
    BY <1>3 DEF FieldTyped
  <2>2. f.value.model = "listed" /\ v = [f.value EXCEPT !.value = Normalised(f.value.rule, @)]
    BY <1>3, OfModel DEF ValidModel
  <2>3. v \in ModelConfigs /\ v.model = "listed" /\ v.rule = f.value.rule /\ v.value = Normalised(f.value.rule, f.value.value)
    BY <2>1, <2>2, ModelNormalised
  <2>4. f.value.rule \in Rules /\ f.value.value \in Value
    BY <2>1 DEF ModelConfigs
  <2>5. Normalised(v.rule, v.value) = v.value
    BY <2>3, <2>4, NormalisedValue
  <2>6. cured.name \notin Bound
    BY <1>1, <1>3 DEF Bound
  <2> QED BY <1>1, <1>3, <2>3, <2>5, <2>6 DEF FieldTyped, FieldHolds, cured
<1>4. CASE f.name \notin Bound \union {"model_config"}
  <2>1. Passes(f) /\ v = f.value
    BY <1>1, <1>4, Unbound
  <2>2. cured = f
    BY <1>1, <2>1 DEF FieldTyped
  <2> QED BY <1>4, <2>1, <2>2 DEF FieldHolds, cured
<1> QED BY <1>2, <1>3, <1>4

\* What was left by the check passes it again, whatever is there by then.
LEMMA HoldsPasses ==
    ASSUME NEW f, FieldTyped(f), FieldHolds(f)
    PROVE  _validate_draft_app_config(f) # {}
<1>1. CASE f.name \in Bound
  <2>1. f.value \in Seq(References) /\ Len(f.value) <= MaxReferences /\ IsInjective(f.value)
    BY <1>1 DEF FieldHolds
  <2>2. WellFormed(f.value)
    BY <2>1, ReferencesAssumption DEF WellFormed
  <2>3. IsInjective(Found(f.value))
    BY <2>1, FoundOf
  <2> QED BY <1>1, <2>1, <2>2, <2>3, OfBound
<1>2. CASE f.name = "model_config"
  BY <1>2, OfModel DEF FieldHolds, ValidModel
<1>3. CASE f.name \notin Bound \union {"model_config"}
  BY <1>3, Unbound DEF FieldTyped, FieldHolds
<1> QED BY <1>1, <1>2, <1>3

\* The values that the model layer refuses of those that a check leaves.
LEMMA ModelTakes ==
    ASSUME NEW rule \in Rules, NEW v \in Value, Normalised(rule, v) = v
    PROVE  _validate_parameter_value(rule, v) <=> ~(v.type = "null" \/ (rule.min = 0 /\ v.n < 0))
<1>1. v.type \in ValueTypes /\ v.n \in -3 .. 4
  BY DEF Value, ValueTypes
<1>2. CASE rule = [type |-> "float", min |-> 0, max |-> 2, default |-> Integer(1)]
  BY <1>1, <1>2 DEF Normalised, _validate_parameter_value, Integer, ValueTypes
<1>3. CASE rule = [type |-> "float", min |-> -2, max |-> 2, default |-> Integer(0)]
  BY <1>1, <1>3 DEF Normalised, _validate_parameter_value, Integer, ValueTypes
<1>4. CASE rule = [type |-> "int", min |-> 1, max |-> 3, default |-> Integer(2)]
  BY <1>1, <1>4 DEF Normalised, _validate_parameter_value, Integer, ValueTypes
<1> QED BY <1>2, <1>3, <1>4 DEF Rules

LEMMA ResolveRuns ==
    ASSUME RulesInv, Resolve
    PROVE  ResolvedRuns'
<1>1. UNCHANGED <<field, fieldStage>> /\ FieldTyped(field) /\ FieldHolds(field)
  BY DEF Resolve, RulesInv
<1> SUFFICES ASSUME NEW key \in BOOLEAN, NEW sdk \in BOOLEAN
    PROVE  LET given == [value |-> Resolved(field), key |-> key, sdk |-> sdk,
                         llm |-> IF field.name = "model_config"
                                 THEN create_language_model(Resolved(field), key, sdk) ELSE {}]
           IN /\ field.name \in {"tools", "workflows", "datasets"} => IsInjective(given.value)
              /\ field.name = "model_config" =>
                    LET rule == field.value.rule
                        v == field.value.value
                        slips == v.type = "null" \/ (rule.min = 0 /\ v.n < 0)
                    IN given.llm = IF given.key /\ given.sdk /\ ~slips THEN {field.value} ELSE {}
  BY <1>1 DEF ResolvedRuns, Resolve
<1>2. CASE field.name \in Bound
  <2>1. field.name \in {"tools", "workflows", "datasets"} /\ field.name # "model_config"
    BY <1>2 DEF Bound
  <2>2. Resolved(field) = Found(field.value)
    BY <2>1 DEF Resolved
  <2>3. IsInjective(Found(field.value))
    BY <1>1, <1>2, FoundOf DEF FieldHolds
  <2> QED BY <2>1, <2>2, <2>3
<1>3. CASE field.name = "model_config"
  <2> DEFINE config == field.value
  <2>1. config \in ModelConfigs /\ config.model = "listed" /\ Normalised(config.rule, config.value) = config.value
    BY <1>1, <1>3 DEF FieldTyped, FieldHolds
  <2>2. config.rule \in Rules /\ config.value \in Value
    BY <2>1 DEF ModelConfigs
  <2>3. Resolved(field) = config
    BY <1>3, <2>1 DEF Resolved, ModelConfigs
  <2>4. create_language_model(config, key, sdk) =
            IF key /\ sdk /\ _validate_parameter_value(config.rule, config.value) THEN {config} ELSE {}
    BY <2>1 DEF create_language_model, validate_model_config
  <2> HIDE DEF config
  <2>5. _validate_parameter_value(config.rule, config.value)
        <=> ~(config.value.type = "null" \/ (config.rule.min = 0 /\ config.value.n < 0))
    BY <2>1, <2>2, ModelTakes
  <2> QED BY <1>3, <2>3, <2>4, <2>5 DEF config
<1>4. CASE field.name \notin Bound \union {"model_config"}
  BY <1>4 DEF Bound
<1> QED BY <1>2, <1>3, <1>4

LEMMA RulesInitially == RuleInit => RulesInv
<1> SUFFICES ASSUME RuleInit PROVE RulesInv
  OBVIOUS
<1>1. FieldTyped(field)
  BY DEF RuleInit, FieldTyped, FieldNames, Bound
<1> QED BY <1>1 DEF RuleInit, RulesInv, ResolvedRuns

LEMMA RulesStep == RulesInv /\ [RuleNext]_ruleVars => RulesInv'
<1> SUFFICES ASSUME RulesInv, [RuleNext]_ruleVars PROVE RulesInv'
  OBVIOUS
<1>1. FieldTyped(field)
  BY DEF RulesInv
<1>2. ASSUME NEW from, NEW to, NEW refused, NEW f, Store(from, to, refused, f), FieldTyped(f),
             to \in {"saved", "published"}, refused \notin {"saved", "published"},
             refused = "unpublishable" => FieldHolds(f)
      PROVE  RulesInv'
  <2>1. resolved' = {}
    BY <1>2 DEF Store
  <2>2. CASE _validate_draft_app_config(f) = {} /\ fieldStage' = refused /\ field' = f
    <3>1. refused # "unpublishable"
      BY <1>2, <2>2, HoldsPasses
    <3> QED BY <1>2, <2>1, <2>2, <3>1 DEF RulesInv, ResolvedRuns
  <2>3. CASE \E v \in _validate_draft_app_config(f) : fieldStage' = to /\ field' = [f EXCEPT !.value = v]
    <3>1. PICK v \in _validate_draft_app_config(f) : fieldStage' = to /\ field' = [f EXCEPT !.value = v]
      BY <2>3
    <3>2. FieldTyped([f EXCEPT !.value = v]) /\ FieldHolds([f EXCEPT !.value = v])
      BY <1>2, StoredHolds
    <3>3. FieldTyped(field') /\ FieldHolds(field')
      BY <3>1, <3>2
    <3> QED BY <1>2, <2>1, <3>1, <3>3 DEF RulesInv, ResolvedRuns, FieldTyped, FieldHolds
  <2> QED BY <1>2, <2>2, <2>3 DEF Store
<1>3. CASE SaveDraft
  BY <1>2, <1>3, FieldsTyped DEF SaveDraft
<1>4. CASE PublishDraft
  <2>1. FieldHolds(field)
    BY <1>4 DEF PublishDraft, Store, RulesInv
  <2> QED BY <1>1, <1>2, <1>4, <2>1 DEF PublishDraft
<1>5. CASE Resolve
  <2>1. UNCHANGED <<field, fieldStage>>
    BY <1>5 DEF Resolve
  <2>2. ResolvedRuns'
    BY <1>5, ResolveRuns
  <2> QED BY <2>1, <2>2 DEF RulesInv, FieldTyped, FieldHolds
<1>6. CASE ReferencesChange \/ UNCHANGED ruleVars
  <2>1. UNCHANGED <<field, fieldStage, resolved>>
    BY <1>6 DEF ReferencesChange, ruleVars
  <2> QED BY <2>1 DEF RulesInv, FieldTyped, FieldHolds, ResolvedRuns
<1> QED BY <1>3, <1>4, <1>5, <1>6 DEF RuleNext

\* A draft that was saved is never refused when it is published: what the check of a
\* save leaves passes that of a publication, whatever was deleted or cancelled between.
THEOREM SavedStaysPublishable == RuleSpec => []SavedIsPublishable
<1>1. RulesInv => SavedIsPublishable
  BY DEF RulesInv, SavedIsPublishable
<1> QED BY <1>1, RulesInitially, RulesStep, PTL DEF RuleSpec

\* What a turn is given of a stored field runs, but for the two values that the check
\* of a draft lets through and the model layer does not.
THEOREM ResolvedAlwaysRuns == RuleSpec => []ResolvedRuns
<1>1. RulesInv => ResolvedRuns
  BY DEF RulesInv
<1> QED BY <1>1, RulesInitially, RulesStep, PTL DEF RuleSpec

-----------------------------------------------------------------------------
(***************************************************************************)
(* Conversations, for any turns, callers and outcomes.                     *)
(***************************************************************************)
ConversationRow == [owner : Callers, deleted : BOOLEAN, name : {"new", "generated", "user"}, summary : SUBSET Nat]
MessageRow == [owner : Callers, conversation : Nat, size : Nat, answered : BOOLEAN,
               status : {"normal", "stop", "error", "timeout"}, deleted : BOOLEAN, second : Nat]
\* Before its message is there; after the agent has run.
Preparing == {"new", "missing", "opened", "ready"}
Saving == {"answering", "answered", "summarising", "naming", "named", "closing"}
TurnRecord == [at : Preparing \union {"running", "over", "failed"} \union Saving,
         caller : Callers, conversation : Nat, history : Seq(Nat), message : Nat,
         read : SUBSET Nat, status : {"normal", "stop", "error", "timeout"}, since : Nat]

RowsTyped ==
    /\ conversations \in Seq(ConversationRow)
    /\ messages \in Seq(MessageRow)
    /\ pointer \in [Lazy -> Nat]
    /\ exchange \in [Exchanges -> TurnRecord]
    /\ folded \subseteq 1 .. Len(messages)
    /\ overlapped \subseteq 1 .. Len(messages)

\* Whatever names a row names one that is there.
RowsAgree ==
    /\ \A k \in 1 .. Len(conversations) : conversations[k].summary \subseteq 1 .. Len(messages)
    /\ \A m \in 1 .. Len(messages) : messages[m].conversation \in 1 .. Len(conversations)
    /\ \A c \in Lazy : pointer[c] <= Len(conversations)

\* What a turn knows of the rows of messages, and of n conversations.
Agrees(talk, table, n) ==
    /\ talk.conversation <= n
    /\ talk.at \in Preparing => talk.message = 0
    /\ talk.at \in {"opened", "ready"} /\ talk.caller.invoke_from # "web_app" => talk.conversation # 0
    /\ talk.at \in Saving \union {"running"} => talk.message # 0
    /\ talk.message # 0 => /\ talk.message <= Len(table)
                           /\ table[talk.message].conversation = talk.conversation
    /\ talk.read \subseteq 1 .. Len(table)

TurnsAgree == \A t \in Exchanges : Agrees(exchange[t], messages, Len(conversations))

\* A message belongs to one turn.
OwnMessages ==
    \A t, u \in Exchanges : exchange[t].message = exchange[u].message /\ exchange[t].message # 0 => t = u

\* The part of the inductive invariant that types the rows.
ConvInv == RowsTyped /\ RowsAgree /\ TurnsAgree /\ OwnMessages

LEMMA ConvTyped == ConvInv => ConvTypeOK
<1> SUFFICES ASSUME ConvInv PROVE ConvTypeOK
  OBVIOUS
<1>1. DOMAIN conversations = 1 .. Len(conversations) /\ DOMAIN messages = 1 .. Len(messages)
  BY DEF ConvInv, RowsTyped
<1>2. ASSUME NEW k \in DOMAIN conversations
      PROVE  /\ conversations[k].owner \in Callers
             /\ conversations[k].name \in {"new", "generated", "user"}
             /\ conversations[k].summary \subseteq DOMAIN messages
  <2>1. conversations[k] \in ConversationRow
    BY <1>1 DEF ConvInv, RowsTyped
  <2> QED BY <1>1, <2>1 DEF ConversationRow, ConvInv, RowsAgree
<1>3. ASSUME NEW m \in DOMAIN messages
      PROVE  /\ messages[m].conversation \in DOMAIN conversations
             /\ messages[m].status \in {"normal", "stop", "error", "timeout"}
  <2>1. messages[m] \in MessageRow
    BY <1>1 DEF ConvInv, RowsTyped
  <2> QED BY <1>1, <2>1 DEF MessageRow, ConvInv, RowsAgree
<1>4. pointer \in [Lazy -> 0 .. Len(conversations)]
  BY DEF ConvInv, RowsTyped, RowsAgree
<1>5. ASSUME NEW t \in Exchanges PROVE exchange[t].conversation \in 0 .. Len(conversations)
  <2>1. exchange[t] \in TurnRecord
    BY DEF ConvInv, RowsTyped
  <2> QED BY <2>1 DEF TurnRecord, ConvInv, RowsTyped, TurnsAgree, Agrees
<1> QED BY <1>1, <1>2, <1>3, <1>4, <1>5 DEF ConvTypeOK, ConvInv, RowsTyped

-----------------------------------------------------------------------------
\* The rows that were there stay, and a message stays where it was said.
RowsKept ==
    /\ Len(conversations) <= Len(conversations')
    /\ Len(messages) <= Len(messages')
    /\ \A m \in 1 .. Len(messages) : messages'[m].conversation = messages[m].conversation

\* A turn goes on, and the others may rely on what they know.
LEMMA TurnMoves ==
    ASSUME ConvInv, RowsKept, messages' \in Seq(MessageRow), conversations' \in Seq(ConversationRow),
           NEW t \in Exchanges, NEW moved \in TurnRecord, exchange' = [exchange EXCEPT ![t] = moved],
           Agrees(moved, messages', Len(conversations')),
           moved.message \in {0, exchange[t].message, Len(messages) + 1}
    PROVE  exchange' \in [Exchanges -> TurnRecord] /\ TurnsAgree' /\ OwnMessages'
<1>1. exchange \in [Exchanges -> TurnRecord] /\ messages \in Seq(MessageRow) /\ conversations \in Seq(ConversationRow)
  BY DEF ConvInv, RowsTyped
<1>2. exchange' \in [Exchanges -> TurnRecord] /\ exchange'[t] = moved /\ \A u \in Exchanges \ {t} : exchange'[u] = exchange[u]
  BY <1>1
<1>3. \A u \in Exchanges : exchange[u] \in TurnRecord /\ Agrees(exchange[u], messages, Len(conversations))
  BY <1>1 DEF ConvInv, TurnsAgree
<1>4. \A u \in Exchanges : exchange[u].message \in Nat /\ exchange[u].conversation \in Nat
  BY <1>3 DEF TurnRecord
<1>5. Len(messages) \in Nat /\ Len(messages') \in Nat /\ Len(conversations) \in Nat /\ Len(conversations') \in Nat
  BY <1>1
<1>6. ASSUME NEW u \in Exchanges \ {t} PROVE Agrees(exchange[u], messages', Len(conversations'))
  <2>1. exchange[u].message # 0 => exchange[u].message \in 1 .. Len(messages)
    BY <1>3, <1>4, <1>5 DEF Agrees
  <2>2. exchange[u].message # 0 => messages'[exchange[u].message].conversation = exchange[u].conversation
    BY <1>3, <2>1 DEF Agrees, RowsKept
  <2>3. exchange[u].read \subseteq 1 .. Len(messages')
    BY <1>3, <1>5 DEF Agrees, RowsKept
  <2> QED BY <1>3, <1>4, <1>5, <2>1, <2>2, <2>3 DEF Agrees, RowsKept
<1>7. TurnsAgree'
  BY <1>2, <1>6 DEF TurnsAgree
<1>8. \A u \in Exchanges : exchange[u].message # Len(messages) + 1
  BY <1>3, <1>4, <1>5 DEF Agrees
<1>9. OwnMessages'
  <2>1. \A u \in Exchanges \ {t} : exchange[u].message = moved.message => moved.message = 0
    BY <1>8 DEF ConvInv, OwnMessages
  <2> QED BY <1>2, <2>1 DEF ConvInv, OwnMessages
<1> QED BY <1>2, <1>7, <1>9

\* Nobody's turn goes on.
LEMMA TurnsStay ==
    ASSUME ConvInv, RowsKept, messages' \in Seq(MessageRow), conversations' \in Seq(ConversationRow), UNCHANGED exchange
    PROVE  exchange' \in [Exchanges -> TurnRecord] /\ TurnsAgree' /\ OwnMessages'
<1>1. exchange \in [Exchanges -> TurnRecord]
  BY DEF ConvInv, RowsTyped
<1> SUFFICES TurnsAgree'
  BY <1>1 DEF ConvInv, OwnMessages
<1> SUFFICES ASSUME NEW t \in Exchanges PROVE Agrees(exchange[t], messages', Len(conversations'))
  BY DEF TurnsAgree
<1>2. /\ exchange[t] \in TurnRecord /\ Agrees(exchange[t], messages, Len(conversations))
      /\ exchange' = [exchange EXCEPT ![t] = exchange[t]]
  BY <1>1 DEF ConvInv, TurnsAgree
<1>3. exchange[t].message \in Nat /\ exchange[t].conversation \in Nat
  BY <1>2 DEF TurnRecord
<1>4. Len(messages) \in Nat /\ Len(messages') \in Nat /\ Len(conversations) \in Nat /\ Len(conversations') \in Nat
  BY DEF ConvInv, RowsTyped
<1>5. exchange[t].message # 0 => exchange[t].message \in 1 .. Len(messages)
  BY <1>2, <1>3, <1>4 DEF Agrees
<1>6. exchange[t].message # 0 => messages'[exchange[t].message].conversation = exchange[t].conversation
  BY <1>2, <1>5 DEF Agrees, RowsKept
<1> QED BY <1>2, <1>3, <1>4, <1>5, <1>6 DEF Agrees, RowsKept

-----------------------------------------------------------------------------
(***************************************************************************)
(* The history of a turn.                                                  *)
(***************************************************************************)
LEMMA RememberedSeqs ==
    ASSUME messages \in Seq(MessageRow), NEW k, NEW all \in Remembered(k)
    PROVE  /\ all \in Seq(Nat) /\ all \in Seq(Rememberable(k))
           /\ IsInjective(all) /\ InOrder(all) /\ Range(all) = Rememberable(k)
<1> DEFINE rows == Rememberable(k)
<1>1. rows \subseteq 1 .. Len(messages) /\ Len(messages) \in Nat
  BY DEF Rememberable
<1>2. IsFiniteSet(rows)
  <2>1. PICK last \in Nat : last = Len(messages)
    BY <1>1
  <2>2. IsFiniteSet(1 .. last)
    BY FS_Interval
  <2>3. rows \subseteq 1 .. last
    BY <1>1, <2>1
  <2> QED BY <2>2, <2>3, FS_Subset
<1>3. PICK n \in Nat : n = Cardinality(rows)
  BY <1>2, FS_CardinalityType
<1>4. /\ all \in [1 .. n -> rows]
      /\ \A i, j \in 1 .. n : i # j => all[i] # all[j]
      /\ InOrder(all)
  BY <1>3 DEF Remembered, SetToSeqs
<1> HIDE DEF rows
<1>5. IsInjective(all)
  BY <1>4 DEF IsInjective
<1>6. all \in Injection(1 .. n, rows)
  BY <1>4 DEF Injection, IsInjective
<1>7. IsFiniteSet(1 .. n) /\ Cardinality(1 .. n) = n
  BY FS_Interval
<1>8. all \in Surjection(1 .. n, rows)
  BY <1>2, <1>3, <1>6, <1>7, FS_Injection
<1>9. Range(all) = rows
  BY <1>4, <1>8 DEF Surjection, Range
<1>10. all \in Seq(rows) /\ all \in Seq(Nat)
  <2>1. rows \subseteq Nat
    BY <1>1
  <2>2. all \in [1 .. n -> Nat]
    BY <1>4, <2>1
  <2> QED BY <1>4, <2>2
<1> QED BY <1>4, <1>5, <1>9, <1>10 DEF rows

LEMMA NewestOf ==
    ASSUME NEW S, NEW history \in Seq(S), NEW n \in Nat
    PROVE  /\ Newest(history, n) \in Seq(S)
           /\ Len(Newest(history, n)) = IF n < Len(history) THEN n ELSE Len(history)
           /\ \A i \in 1..Len(Newest(history, n)) :
                 Newest(history, n)[i] = history[Len(history) - Len(Newest(history, n)) + i]
<1>1. CASE n < Len(history)
  <2> DEFINE first == Len(history) - n + 1
             newest == SubSeq(history, first, Len(history))
  <2>1. Newest(history, n) = newest
    BY <1>1 DEF Newest
  <2>2. first \in 1 .. Len(history) + 1 /\ Len(history) - first + 1 = n
    BY <1>1
  <2>3. newest \in Seq(S) /\ Len(newest) = n
    <3> HIDE DEF first
    <3> QED BY <2>2
  <2>4. \A i \in 1 .. n : newest[i] = history[first + i - 1]
    <3> HIDE DEF first
    <3> QED BY <2>2
  <2>5. \A i \in 1 .. n : first + i - 1 = Len(history) - n + i
    BY <1>1
  <2> HIDE DEF first, newest
  <2> QED BY <1>1, <2>1, <2>3, <2>4, <2>5
<1>2. CASE ~(n < Len(history))
  <2> DEFINE newest == SubSeq(history, 1, Len(history))
  <2>1. Newest(history, n) = newest
    BY <1>2 DEF Newest
  <2>2. newest \in Seq(S) /\ Len(newest) = Len(history) /\ \A i \in 1..Len(history) : newest[i] = history[i]
    OBVIOUS
  <2>3. \A i \in 1..Len(history) : Len(history) - Len(history) + i = i
    OBVIOUS
  <2> HIDE DEF newest
  <2> QED BY <1>2, <2>1, <2>2, <2>3
<1> QED BY <1>1, <1>2

LEMMA NothingHasNoTokens == TokensOf(<<>>) = 0
<1>1. DOMAIN <<>> = {}
  OBVIOUS
<1> DEFINE iter == CHOOSE f : f = [s \in SUBSET {} |->
              IF s = {} THEN 0
              ELSE LET x == CHOOSE i \in s : TRUE
                   IN messages[<<>>[x]].size + f[s \ {x}]]
<1>2. SUBSET {} = {{}}
  OBVIOUS
<1>3. \E f : f = [s \in SUBSET {} |->
              IF s = {} THEN 0
              ELSE LET x == CHOOSE i \in s : TRUE
                   IN messages[<<>>[x]].size + f[s \ {x}]]
  <2> DEFINE g == [s \in SUBSET {} |-> 0]
  <2>1. g = [s \in SUBSET {} |->
              IF s = {} THEN 0
              ELSE LET x == CHOOSE i \in s : TRUE
                   IN messages[<<>>[x]].size + g[s \ {x}]]
    BY <1>2
  <2> QED BY <2>1
<1>4. iter[{}] = 0
  <2>1. iter = [s \in SUBSET {} |->
              IF s = {} THEN 0
              ELSE LET x == CHOOSE i \in s : TRUE
                   IN messages[<<>>[x]].size + iter[s \ {x}]]
    BY <1>3, Zenon
  <2> HIDE DEF iter
  <2> QED BY <2>1
<1>5. TokensOf(<<>>) = iter[{}]
  BY <1>1 DEF TokensOf, FoldSeq, FoldFunction, FoldFunctionOnSet, MapThenFoldSet
<1> QED BY <1>4, <1>5

LEMMA TrimmedFits ==
    ASSUME NEW S, NEW history \in Seq(S), TokenLimit \in Nat
    PROVE  \E n \in 0..Len(history) : /\ trim_messages(history) = Newest(history, n)
                                      /\ TokensOf(Newest(history, n)) <= TokenLimit
<1> DEFINE fits == {n \in 0 .. Len(history) : TokensOf(Newest(history, n)) <= TokenLimit}
<1>1. Newest(history, 0) = <<>>
  BY NewestOf
<1>2. 0 \in fits
  BY <1>1, NothingHasNoTokens
<1>3. \E n \in fits : \A m \in fits : m <= n
  <2> DEFINE T == {Len(history) - n : n \in fits}
  <2>1. T \subseteq Nat /\ T # {}
    BY <1>2
  <2>2. PICK d \in T : \A e \in T : d <= e
    BY <2>1, LeastOf
  <2>3. PICK n \in fits : d = Len(history) - n
    OBVIOUS
  <2>4. ASSUME NEW m \in fits PROVE m <= n
    <3>1. Len(history) - m \in T
      OBVIOUS
    <3>2. Len(history) - n <= Len(history) - m
      BY <2>2, <2>3, <3>1
    <3>3. m \in 0..Len(history) /\ n \in 0..Len(history) /\ Len(history) \in Nat
      OBVIOUS
    <3> HIDE DEF fits, T
    <3> QED BY <3>2, <3>3
  <2> QED BY <2>4
<1> DEFINE best == CHOOSE n \in fits : \A m \in fits : m <= n
<1>4. best \in fits
  BY <1>3
<1>5. trim_messages(history) = Newest(history, best)
  BY DEF trim_messages
<1> QED BY <1>4, <1>5

\* What a history has to be, ...
IsHistory(history, k, limit) ==
    /\ Range(history) \subseteq Rememberable(k)
    /\ InOrder(history)
    /\ IsInjective(history)
    /\ \A m \in Range(history), n \in Rememberable(k) \ Range(history) :
          messages[n].second <= messages[m].second
    /\ Len(history) <= limit
    /\ TokensOf(history) <= TokenLimit

\* ... and is, as the end of one order of what is remembered, within both limits.
LEMMA HistoryOf ==
    ASSUME messages \in Seq(MessageRow), NEW k, NEW limit \in Nat, TokenLimit \in Nat,
           NEW history \in get_history_prompt_messages(k, limit)
    PROVE  history \in Seq(Nat) /\ IsHistory(history, k, limit)
<1>0. PICK all \in Remembered(k) : history = trim_messages(Newest(all, limit))
  BY DEF get_history_prompt_messages
<1> DEFINE few == Newest(all, limit)
<1>1. /\ all \in Seq(Nat) /\ IsInjective(all) /\ InOrder(all) /\ Range(all) = Rememberable(k)
  BY RememberedSeqs
<1>2. /\ few \in Seq(Nat)
      /\ Len(few) = IF limit < Len(all) THEN limit ELSE Len(all)
      /\ \A i \in 1..Len(few) : few[i] = all[Len(all) - Len(few) + i]
  BY <1>1, NewestOf
<1>3. history = trim_messages(few)
  BY <1>0
<1> HIDE DEF few
<1>4. PICK n \in 0..Len(few) : history = Newest(few, n) /\ TokensOf(history) <= TokenLimit
  BY <1>2, <1>3, TrimmedFits
<1>5. /\ history \in Seq(Nat)
      /\ Len(history) = IF n < Len(few) THEN n ELSE Len(few)
      /\ \A i \in 1..Len(history) : history[i] = few[Len(few) - Len(history) + i]
  <2>1. n \in Nat
    OBVIOUS
  <2> QED BY <1>2, <1>4, <2>1, NewestOf
<1>6. PICK a \in Nat, f \in Nat, h \in Nat :
         /\ a = Len(all) /\ f = Len(few) /\ h = Len(history)
         /\ h <= f /\ f <= a /\ f <= limit
  BY <1>1, <1>2, <1>5
<1>7. \A i \in 1 .. h : a - h + i \in 1 .. a /\ history[i] = all[a - h + i]
  <2> SUFFICES ASSUME NEW i \in 1 .. h PROVE a - h + i \in 1 .. a /\ history[i] = all[a - h + i]
    OBVIOUS
  <2>1. f - h + i \in 1 .. f /\ a - h + i \in 1 .. a /\ a - f + (f - h + i) = a - h + i
    BY <1>6
  <2>2. history[i] = few[f - h + i]
    BY <1>5, <1>6
  <2>3. few[f - h + i] = all[a - f + (f - h + i)]
    BY <1>2, <1>6, <2>1
  <2> QED BY <2>1, <2>2, <2>3
<1>8. DOMAIN history = 1 .. h /\ DOMAIN all = 1 .. a
  BY <1>1, <1>5, <1>6
<1>9. Range(history) \subseteq Rememberable(k)
  BY <1>1, <1>7, <1>8 DEF Range
<1>10. InOrder(history)
  <2> SUFFICES ASSUME NEW i \in 1 .. h, NEW j \in 1 .. h, i < j
               PROVE  messages[history[i]].second <= messages[history[j]].second
    BY <1>8 DEF InOrder
  <2>1. a - h + i \in 1 .. a /\ a - h + j \in 1 .. a /\ a - h + i < a - h + j
    BY <1>6
  <2>2. messages[all[a - h + i]].second <= messages[all[a - h + j]].second
    BY <1>1, <1>8, <2>1 DEF InOrder
  <2> QED BY <1>7, <2>2
<1>11. IsInjective(history)
  <2> SUFFICES ASSUME NEW i \in 1 .. h, NEW j \in 1 .. h, history[i] = history[j] PROVE i = j
    BY <1>8 DEF IsInjective
  <2>1. a - h + i \in 1 .. a /\ a - h + j \in 1 .. a /\ all[a - h + i] = all[a - h + j]
    BY <1>7
  <2>2. a - h + i = a - h + j
    BY <1>1, <1>8, <2>1 DEF IsInjective
  <2> QED BY <1>6, <2>2
\* What is left out comes before what is not.
<1>12. ASSUME NEW m \in Range(history), NEW n_ \in Rememberable(k) \ Range(history)
       PROVE  messages[n_].second <= messages[m].second
  <2>1. PICK i \in 1 .. h : m = history[i]
    BY <1>8 DEF Range
  <2>2. PICK j \in 1 .. a : n_ = all[j]
    BY <1>1, <1>8 DEF Range
  <2>3. j <= a - h
    <3> SUFFICES ASSUME j > a - h PROVE FALSE
      BY <1>6
    <3>1. PICK d \in 1 .. h : d = j - (a - h)
      <4>1. j \in Int /\ a \in Int /\ h \in Int /\ j <= a
        BY <1>6, <2>2
      <4>2. j - (a - h) \in 1 .. h
        BY <4>1
      <4> QED BY <4>2
    <3>2. a - h + d = j
      BY <1>6, <3>1
    <3>3. n_ = history[d]
      BY <1>7, <2>2, <3>2
    <3> QED BY <1>8, <3>3 DEF Range
  <2>4. a - h + i \in 1 .. a /\ j < a - h + i
    BY <1>6, <2>3
  <2>5. messages[all[j]].second <= messages[all[a - h + i]].second
    BY <1>1, <1>8, <2>4 DEF InOrder
  <2> QED BY <1>7, <2>1, <2>2, <2>5
<1>13. Len(history) <= limit
  BY <1>6
<1> QED BY <1>4, <1>5, <1>9, <1>10, <1>11, <1>12, <1>13 DEF IsHistory

-----------------------------------------------------------------------------
LEMMA ConvInitially == ConvInit => ConvInv
<1> SUFFICES ASSUME ConvInit PROVE ConvInv
  OBVIOUS
<1>1. NewExchange \in TurnRecord
  BY CallersAssumption, (CHOOSE c \in Callers : TRUE) \in Callers DEF NewExchange, TurnRecord, Preparing
<1>2. /\ exchange \in [Exchanges -> TurnRecord]
      /\ \A t \in Exchanges : exchange[t] = NewExchange
  BY <1>1 DEF ConvInit
<1>3. ASSUME Len(conversations) \in Nat PROVE TurnsAgree /\ OwnMessages
  <2>1. /\ NewExchange.conversation = 0 /\ NewExchange.message = 0 /\ NewExchange.at = "new" /\ NewExchange.read = {}
    BY DEF NewExchange
  <2> QED BY <1>2, <1>3, <2>1 DEF TurnsAgree, Agrees, OwnMessages, Preparing, Saving
<1>4. pointer \in [Lazy -> Nat] /\ \A c \in Lazy : pointer[c] = 0
  BY DEF ConvInit
<1>5. CASE conversations = << >> /\ messages = << >>
  <2>1. Len(conversations) \in Nat
    BY <1>5
  <2> QED BY <1>2, <1>3, <1>4, <1>5, <2>1 DEF ConvInv, RowsTyped, RowsAgree, ConvInit
<1>6. ASSUME NEW past \in Pasts,
             conversations = <<[NewConversation(past.caller) EXCEPT
                                    !.name = "generated", !.summary = DOMAIN past.sizes]>>,
             messages = [m \in DOMAIN past.sizes |-> Said(past.caller, past.sizes[m], m)]
      PROVE  ConvInv
  <2>1. past.caller \in Callers /\ past.sizes \in Seq(Nat) /\ DOMAIN past.sizes = 1 .. Len(past.sizes)
    BY CallersAssumption
  <2> DEFINE one == [NewConversation(past.caller) EXCEPT !.name = "generated", !.summary = DOMAIN past.sizes]
             said(m) == Said(past.caller, past.sizes[m], m)
  <2>2. one \in ConversationRow /\ one.summary = 1 .. Len(past.sizes)
    <3>1. one \in [owner : {past.caller}, deleted : {FALSE}, name : {"generated"}, summary : {1 .. Len(past.sizes)}]
      BY <2>1 DEF NewConversation
    <3> HIDE DEF one
    <3>2. 1 .. Len(past.sizes) \subseteq Nat
      BY <2>1
    <3> QED BY <2>1, <3>1, <3>2 DEF ConversationRow
  <2>3. \A m \in 1 .. Len(past.sizes) : said(m) \in MessageRow /\ said(m).conversation = 1
    <3> SUFFICES ASSUME NEW m \in 1 .. Len(past.sizes) PROVE said(m) \in MessageRow /\ said(m).conversation = 1
      OBVIOUS
    <3>1. said(m) \in [owner : {past.caller}, conversation : {1}, size : {past.sizes[m]}, answered : {TRUE},
                       status : {"normal"}, deleted : {FALSE}, second : {m - 1}]
      BY DEF Said, NewMessage
    <3>2. past.sizes[m] \in Nat /\ m - 1 \in Nat
      BY <2>1
    <3> HIDE DEF said
    <3>3. past.caller \in Callers /\ 1 \in Nat /\ "normal" \in {"normal", "stop", "error", "timeout"}
      BY <2>1
    <3>5. said(m) \in MessageRow
      BY <3>1, <3>2, <3>3, Zenon DEF MessageRow
    <3>4. said(m).conversation = 1
      BY <3>1
    <3> QED BY <3>4, <3>5
  <2>4. conversations = <<one>> /\ messages = [m \in 1 .. Len(past.sizes) |-> said(m)]
    BY <1>6, <2>1
  <2> HIDE DEF one, said
  <2>5. conversations \in Seq(ConversationRow) /\ Len(conversations) = 1 /\ conversations[1] = one
    BY <2>2, <2>4
  <2>6. messages \in Seq(MessageRow) /\ Len(messages) = Len(past.sizes)
        /\ \A m \in 1 .. Len(messages) : messages[m].conversation = 1
    BY <2>1, <2>3, <2>4
  <2>7. RowsAgree
    BY <1>4, <2>2, <2>5, <2>6 DEF RowsAgree
  <2> QED BY <1>2, <1>3, <1>4, <2>5, <2>6, <2>7 DEF ConvInv, RowsTyped, ConvInit
<1> QED BY <1>5, <1>6 DEF ConvInit

-----------------------------------------------------------------------------
\* A step of a turn that changes no row.
LEMMA TurnOnly ==
    ASSUME ConvInv, UNCHANGED <<conversations, messages, pointer, folded, overlapped>>,
           NEW t \in Exchanges, NEW moved \in TurnRecord, exchange' = [exchange EXCEPT ![t] = moved],
           Agrees(moved, messages, Len(conversations)),
           moved.message \in {0, exchange[t].message}
    PROVE  ConvInv'
<1>1. RowsKept /\ messages' \in Seq(MessageRow) /\ conversations' \in Seq(ConversationRow)
  BY DEF RowsKept, ConvInv, RowsTyped
<1>2. exchange' \in [Exchanges -> TurnRecord] /\ TurnsAgree' /\ OwnMessages'
  BY <1>1, TurnMoves
<1> QED BY <1>2 DEF ConvInv, RowsTyped, RowsAgree

LEMMA TurnOf ==
    ASSUME ConvInv, NEW t \in Exchanges
    PROVE  exchange[t] \in TurnRecord /\ Agrees(exchange[t], messages, Len(conversations))
BY DEF ConvInv, RowsTyped, TurnsAgree

LEMMA OpeningBegins ==
    ASSUME NEW t, NEW c, NEW k, Open(t, c, k) \/ OpenNew(t, c, k)
    PROVE  \E second \in Nat : Begins(t, "new", c, k, second)
<1>1. 0 .. LastSecond \subseteq Nat
  BY CallersAssumption
<1> QED BY <1>1 DEF Open, OpenNew

\* A turn opens the conversation it was given, or was the first to create.
LEMMA OpenKeeps ==
    ASSUME ConvInv, NEW t \in Exchanges, NEW c \in Callers, NEW k \in Nat, NEW second \in Nat,
           Begins(t, "new", c, k, second), k <= Len(conversations'), c.invoke_from # "web_app" => k # 0,
           RowsKept, messages' \in Seq(MessageRow), conversations' \in Seq(ConversationRow)
    PROVE  exchange' \in [Exchanges -> TurnRecord] /\ TurnsAgree' /\ OwnMessages'
<1> DEFINE moved == [exchange[t] EXCEPT !.at = "opened", !.caller = c, !.conversation = k, !.since = second]
<1>1. exchange[t] \in TurnRecord /\ Agrees(exchange[t], messages, Len(conversations)) /\ exchange[t].at = "new"
      /\ exchange' = [exchange EXCEPT ![t] = moved]
  BY TurnOf DEF Begins, Goes
<1>2. moved \in TurnRecord /\ moved.at = "opened" /\ moved.caller = c /\ moved.conversation = k
      /\ moved.message = exchange[t].message /\ moved.read = exchange[t].read
  BY <1>1 DEF TurnRecord, Preparing
<1>3. moved.message = 0 /\ moved.read \subseteq 1 .. Len(messages')
  <2>1. exchange[t].message = 0 /\ exchange[t].read \subseteq 1 .. Len(messages)
    BY <1>1 DEF Agrees, Preparing
  <2>2. Len(messages) \in Nat /\ Len(messages') \in Nat
    BY DEF ConvInv, RowsTyped
  <2> QED BY <1>2, <2>1, <2>2 DEF RowsKept
<1> HIDE DEF moved
<1>4. Agrees(moved, messages', Len(conversations'))
  BY <1>2, <1>3 DEF Agrees, Saving
<1> QED BY <1>1, <1>2, <1>3, <1>4, TurnMoves

-----------------------------------------------------------------------------
(***************************************************************************)
(* The steps of a turn up to where its agent runs.                         *)
(***************************************************************************)
\* The rows that were there are as they were.
RowsOnlyMade ==
    /\ RowsKept
    /\ \A k \in 1 .. Len(conversations) : conversations'[k] = conversations[k]
    /\ \A m \in 1 .. Len(messages) : messages'[m] = messages[m]

\* Turn t goes on, alone, up to where its agent runs.
Enters(t) ==
    /\ RowsOnlyMade
    /\ UNCHANGED <<folded, overlapped>>
    /\ \A u \in Exchanges \ {t} : exchange'[u] = exchange[u]
    /\ exchange'[t].at \in {"missing", "opened", "ready", "running", "over"}
    /\ exchange'[t].at = "over" => exchange'[t].message = 0
    /\ exchange'[t].at = "running" => ~messages'[exchange'[t].message].answered

LEMMA ConversationMade ==
    ASSUME ConvInv, NEW c \in Callers, CreateConversation(c), UNCHANGED <<messages>>
    PROVE  /\ RowsOnlyMade
           /\ conversations' \in Seq(ConversationRow) /\ Len(conversations') = Len(conversations) + 1
           /\ \A k \in 1 .. Len(conversations') : conversations'[k].summary \subseteq 1 .. Len(messages)
<1> DEFINE one == NewConversation(c)
<1>1. one \in ConversationRow /\ one.summary = {}
  BY DEF NewConversation, ConversationRow
<1>2. conversations' = Append(conversations, one) /\ conversations \in Seq(ConversationRow)
  BY DEF CreateConversation, ConvInv, RowsTyped
<1> HIDE DEF one
<1>3. /\ conversations' \in Seq(ConversationRow) /\ Len(conversations') = Len(conversations) + 1
      /\ conversations'[Len(conversations) + 1] = one
      /\ \A k \in 1 .. Len(conversations) : conversations'[k] = conversations[k]
  BY <1>1, <1>2
<1>4. messages' = messages /\ Len(conversations) \in Nat /\ Len(messages) \in Nat
  BY <1>2 DEF ConvInv, RowsTyped
<1>5. \A k \in 1 .. Len(conversations') : conversations'[k].summary \subseteq 1 .. Len(messages)
  BY <1>1, <1>3, <1>4 DEF ConvInv, RowsAgree
<1> QED BY <1>3, <1>4, <1>5 DEF RowsOnlyMade, RowsKept

LEMMA NothingMade ==
    ASSUME ConvInv, UNCHANGED <<conversations, messages>>
    PROVE  /\ RowsOnlyMade
           /\ conversations' \in Seq(ConversationRow) /\ messages' \in Seq(MessageRow)
BY DEF RowsOnlyMade, RowsKept, ConvInv, RowsTyped

\* What is left of the invariant when the tables of rows have grown.
LEMMA GrownAgree ==
    ASSUME ConvInv, RowsOnlyMade, conversations' \in Seq(ConversationRow), messages' = messages,
           \A k \in 1 .. Len(conversations') : conversations'[k].summary \subseteq 1 .. Len(messages),
           UNCHANGED <<pointer, folded, overlapped>>,
           exchange' \in [Exchanges -> TurnRecord], TurnsAgree', OwnMessages'
    PROVE  ConvInv'
<1>1. Len(conversations) \in Nat /\ Len(conversations') \in Nat /\ Len(conversations) <= Len(conversations')
  BY DEF RowsOnlyMade, RowsKept, ConvInv, RowsTyped
<1>2. \A m \in 1 .. Len(messages) : messages[m].conversation \in 1 .. Len(conversations')
  BY <1>1 DEF ConvInv, RowsAgree
<1>3. \A c \in Lazy : pointer[c] <= Len(conversations')
  <2>1. \A c \in Lazy : pointer[c] <= Len(conversations) /\ pointer[c] \in Nat
    BY DEF ConvInv, RowsAgree, RowsTyped
  <2> QED BY <1>1, <2>1
<1> QED BY <1>2, <1>3 DEF ConvInv, RowsTyped, RowsAgree

\* A conversation is opened: one that is there, or that has been made.
LEMMA OpenEnters ==
    ASSUME ConvInv, NEW t \in Exchanges, NEW c \in Callers, NEW k \in Nat, NEW second \in Nat,
           Begins(t, "new", c, k, second), k <= Len(conversations'), c.invoke_from # "web_app" => k # 0,
           \/ UNCHANGED conversations
           \/ CreateConversation(c),
           UNCHANGED <<messages, pointer, folded, overlapped>>
    PROVE  ConvInv' /\ Enters(t)
<1>1. /\ RowsOnlyMade
      /\ conversations' \in Seq(ConversationRow) /\ messages' \in Seq(MessageRow)
      /\ \A j \in 1 .. Len(conversations') : conversations'[j].summary \subseteq 1 .. Len(messages)
  BY ConversationMade, NothingMade DEF ConvInv, RowsAgree, RowsTyped
<1>2. exchange' \in [Exchanges -> TurnRecord] /\ TurnsAgree' /\ OwnMessages'
  BY <1>1, OpenKeeps DEF RowsOnlyMade
<1>3. ConvInv'
  BY <1>1, <1>2, GrownAgree
<1>4. exchange'[t].at = "opened" /\ \A u \in Exchanges \ {t} : exchange'[u] = exchange[u]
  BY TurnOf DEF Begins, Goes, TurnRecord, ConvInv, RowsTyped
<1> QED BY <1>1, <1>3, <1>4 DEF Enters

LEMMA FindWebAppEnters ==
    ASSUME ConvInv, NEW t \in Exchanges, NEW c \in Callers, FindWebAppConversation(t, c)
    PROVE  ConvInv' /\ Enters(t)
<1>1. conversations \in Seq(ConversationRow) /\ DOMAIN conversations = 1 .. Len(conversations) /\ Len(conversations) \in Nat
  BY DEF ConvInv, RowsTyped
<1>2. PICK k \in 0 .. Len(conversations), second \in Nat : Begins(t, "new", c, k, second)
  BY <1>1, OpeningBegins DEF FindWebAppConversation
<1> QED BY <1>1, <1>2, OpenEnters DEF FindWebAppConversation

LEMMA FindOpenapiEnters ==
    ASSUME ConvInv, NEW t \in Exchanges, NEW c \in Callers, FindOpenapiConversation(t, c)
    PROVE  ConvInv' /\ Enters(t)
<1>1. conversations \in Seq(ConversationRow) /\ DOMAIN conversations = 1 .. Len(conversations) /\ Len(conversations) \in Nat
  BY DEF ConvInv, RowsTyped
<1>2. UNCHANGED <<messages, pointer, folded, overlapped>>
  BY DEF FindOpenapiConversation
<1>3. CASE CreateConversation(c) /\ OpenNew(t, c, Len(conversations) + 1)
  <2>1. Len(conversations') = Len(conversations) + 1
    BY <1>2, <1>3, ConversationMade
  <2>2. PICK second \in Nat : Begins(t, "new", c, Len(conversations) + 1, second)
    BY <1>3, OpeningBegins
  <2> QED BY <1>1, <1>2, <1>3, <2>1, <2>2, OpenEnters
<1>4. CASE UNCHANGED conversations /\ \E k \in DOMAIN conversations : MayUse(c, conversations[k]) /\ Open(t, c, k)
  <2>1. PICK k \in 1 .. Len(conversations), second \in Nat : Begins(t, "new", c, k, second)
    BY <1>1, <1>4, OpeningBegins
  <2> QED BY <1>1, <1>2, <1>4, <2>1, OpenEnters
<1> QED BY <1>3, <1>4 DEF FindOpenapiConversation

\* A step of a turn that changes no row, up to where its agent runs.
LEMMA TurnEnters ==
    ASSUME ConvInv, UNCHANGED <<conversations, messages, pointer, folded, overlapped>>,
           NEW t \in Exchanges, NEW moved \in TurnRecord, exchange' = [exchange EXCEPT ![t] = moved],
           Agrees(moved, messages, Len(conversations)),
           moved.message = 0, moved.at \in {"missing", "opened", "ready", "over"}
    PROVE  ConvInv' /\ Enters(t)
<1>1. ConvInv'
  BY TurnOnly
<1>2. exchange'[t] = moved /\ \A u \in Exchanges \ {t} : exchange'[u] = exchange[u]
  BY DEF ConvInv, RowsTyped
<1>3. RowsOnlyMade
  BY NothingMade
<1> QED BY <1>1, <1>2, <1>3 DEF Enters

LEMMA LazyChatEnters ==
    ASSUME ConvInv, NEW t \in Exchanges, NEW c \in Callers, c.invoke_from # "web_app", LazyChat(t, c)
    PROVE  ConvInv' /\ Enters(t)
<1>1. UNCHANGED <<conversations, messages, pointer, folded, overlapped>> /\ c \in Lazy
  BY DEF LazyChat
<1>2. CASE pointer[c] # 0
  <2>1. pointer[c] \in Nat /\ pointer[c] <= Len(conversations) /\ Open(t, c, pointer[c])
    BY <1>1, <1>2 DEF ConvInv, RowsTyped, RowsAgree, LazyChat
  <2>2. PICK second \in Nat : Begins(t, "new", c, pointer[c], second)
    BY <2>1, OpeningBegins
  <2> QED BY <1>1, <1>2, <2>1, <2>2, OpenEnters
<1>3. CASE pointer[c] = 0
  <2> DEFINE moved == [exchange[t] EXCEPT !.at = "missing", !.caller = c]
  <2>1. exchange[t].at = "new" /\ exchange' = [exchange EXCEPT ![t] = moved]
    BY <1>3 DEF LazyChat, Goes
  <2>2. exchange[t] \in TurnRecord /\ Agrees(exchange[t], messages, Len(conversations))
    BY TurnOf
  <2>3. moved \in TurnRecord /\ moved.at = "missing" /\ moved.message = exchange[t].message
        /\ moved.conversation = exchange[t].conversation /\ moved.read = exchange[t].read
    BY <2>2 DEF TurnRecord, Preparing
  <2> HIDE DEF moved
  <2>4. moved.message = 0
    BY <2>1, <2>2, <2>3 DEF Agrees, Preparing
  <2>5. Agrees(moved, messages, Len(conversations))
    BY <2>2, <2>3, <2>4 DEF Agrees, Saving
  <2> QED BY <1>1, <2>1, <2>3, <2>4, <2>5, TurnEnters
<1> QED BY <1>2, <1>3

LEMMA LazyCreateEnters ==
    ASSUME ConvInv, NEW t \in Exchanges, LazyCreate(t)
    PROVE  ConvInv' /\ Enters(t)
<1> DEFINE c == exchange[t].caller
           k == Len(conversations) + 1
           moved == [exchange[t] EXCEPT !.at = "opened", !.caller = c, !.conversation = k, !.since = 0]
<1>1. /\ exchange[t].at = "missing" /\ exchange' = [exchange EXCEPT ![t] = moved]
      /\ CreateConversation(c) /\ pointer' = [pointer EXCEPT ![c] = k]
      /\ UNCHANGED <<messages, folded, overlapped>>
  BY DEF LazyCreate, Begins, Goes
<1>2. exchange[t] \in TurnRecord /\ Agrees(exchange[t], messages, Len(conversations))
  BY TurnOf
<1>3. c \in Callers /\ k \in Nat /\ Len(conversations) \in Nat
  BY <1>2 DEF TurnRecord, ConvInv, RowsTyped
<1>4. moved \in TurnRecord /\ moved.at = "opened" /\ moved.conversation = k
      /\ moved.message = exchange[t].message /\ moved.read = exchange[t].read
  BY <1>2, <1>3 DEF TurnRecord, Preparing
<1>5. /\ RowsOnlyMade /\ conversations' \in Seq(ConversationRow) /\ Len(conversations') = k
      /\ \A j \in 1 .. Len(conversations') : conversations'[j].summary \subseteq 1 .. Len(messages)
  BY <1>1, <1>3, ConversationMade
<1>6. pointer' \in [Lazy -> Nat] /\ \A d \in Lazy : pointer'[d] <= k
  <2>1. pointer \in [Lazy -> Nat] /\ \A d \in Lazy : pointer[d] <= Len(conversations)
    BY DEF ConvInv, RowsTyped, RowsAgree
  <2> HIDE DEF c
  <2>2. pointer' \in [Lazy -> Nat] /\ \A d \in Lazy : pointer'[d] \in {pointer[d], k}
    BY <1>1, <1>3, <2>1
  <2> QED BY <1>3, <2>1, <2>2
<1> HIDE DEF moved
<1>7. moved.message = 0
  BY <1>1, <1>2, <1>4 DEF Agrees, Preparing
<1>8. Agrees(moved, messages, Len(conversations'))
  BY <1>2, <1>3, <1>4, <1>5, <1>7 DEF Agrees, Saving
<1>9. exchange' \in [Exchanges -> TurnRecord] /\ TurnsAgree' /\ OwnMessages'
  BY <1>1, <1>4, <1>5, <1>7, <1>8, TurnMoves DEF RowsOnlyMade, ConvInv, RowsTyped
<1>10. \A m \in 1 .. Len(messages) : messages[m].conversation \in 1 .. Len(conversations')
  BY <1>3, <1>5 DEF ConvInv, RowsAgree
<1>11. ConvInv'
  BY <1>1, <1>5, <1>6, <1>9, <1>10 DEF ConvInv, RowsTyped, RowsAgree
<1>12. exchange'[t] = moved /\ \A u \in Exchanges \ {t} : exchange'[u] = exchange[u]
  BY <1>1 DEF ConvInv, RowsTyped
<1> QED BY <1>1, <1>4, <1>5, <1>11, <1>12 DEF Enters

\* A turn has its history.
LEMMA LoadHistoryEnters ==
    ASSUME ConvInv, NEW t \in Exchanges, LoadHistory(t)
    PROVE  /\ ConvInv' /\ Enters(t)
           /\ IsHistory(exchange'[t].history, exchange[t].conversation, message_limit(t))
<1>0. PICK history \in get_history_prompt_messages(exchange[t].conversation, message_limit(t)) :
         Goes(t, "opened", [exchange[t] EXCEPT !.at = "ready", !.history = history])
  BY Zenon DEF LoadHistory
<1> DEFINE moved == [exchange[t] EXCEPT !.at = "ready", !.history = history]
<1>1. /\ exchange[t].at = "opened" /\ exchange' = [exchange EXCEPT ![t] = moved]
      /\ UNCHANGED <<conversations, messages, pointer, folded, overlapped>>
  BY <1>0 DEF LoadHistory, Goes
<1>2. exchange[t] \in TurnRecord /\ Agrees(exchange[t], messages, Len(conversations))
  BY TurnOf
<1>3. history \in Seq(Nat) /\ IsHistory(history, exchange[t].conversation, message_limit(t))
  <2>1. message_limit(t) \in Nat /\ TokenLimit \in Nat /\ messages \in Seq(MessageRow)
    BY CallersAssumption DEF message_limit, ConvInv, RowsTyped
  <2> QED BY <2>1, HistoryOf
<1>4. /\ moved \in TurnRecord /\ moved.at = "ready" /\ moved.conversation = exchange[t].conversation
      /\ moved.caller = exchange[t].caller /\ moved.history = history
      /\ moved.message = exchange[t].message /\ moved.read = exchange[t].read
  BY <1>2, <1>3 DEF TurnRecord, Preparing
<1> HIDE DEF moved
<1>5. moved.message = 0
  BY <1>1, <1>2, <1>4 DEF Agrees, Preparing
<1>6. Agrees(moved, messages, Len(conversations))
  BY <1>1, <1>2, <1>4, <1>5 DEF Agrees, Saving
<1>7. exchange'[t] = moved
  BY <1>1 DEF ConvInv, RowsTyped
<1> QED BY <1>1, <1>3, <1>4, <1>5, <1>6, <1>7, TurnEnters

LEMMA PrepareFailsEnters ==
    ASSUME ConvInv, NEW t \in Exchanges, PrepareFails(t)
    PROVE  ConvInv' /\ Enters(t)
<1> DEFINE moved == [exchange[t] EXCEPT !.at = "over", !.since = 0]
<1>1. /\ exchange[t].at = "opened" /\ exchange' = [exchange EXCEPT ![t] = moved]
      /\ UNCHANGED <<conversations, messages, pointer, folded, overlapped>>
  BY DEF PrepareFails, Goes
<1>2. exchange[t] \in TurnRecord /\ Agrees(exchange[t], messages, Len(conversations))
  BY TurnOf
<1>3. /\ moved \in TurnRecord /\ moved.at = "over" /\ moved.conversation = exchange[t].conversation
      /\ moved.message = exchange[t].message /\ moved.read = exchange[t].read
  BY <1>2 DEF TurnRecord
<1> HIDE DEF moved
<1>4. moved.message = 0
  BY <1>1, <1>2, <1>3 DEF Agrees, Preparing
<1>5. Agrees(moved, messages, Len(conversations))
  BY <1>2, <1>3, <1>4 DEF Agrees, Saving, Preparing
<1> QED BY <1>1, <1>3, <1>4, <1>5, TurnEnters

\* A message is sent in conversation k, which is there by then.
LEMMA SendMessageEnters ==
    ASSUME ConvInv, NEW t \in Exchanges, NEW k \in 1 .. Len(conversations'), SendMessage(t, k),
           \/ UNCHANGED conversations
           \/ CreateConversation(exchange[t].caller)
    PROVE  ConvInv' /\ Enters(t)
<1> DEFINE read == IF k \in DOMAIN conversations THEN conversations[k].summary ELSE {}
           moved == [exchange[t] EXCEPT
                     !.at = "running", !.conversation = k, !.message = Len(messages) + 1, !.history = << >>,
                     !.read = read, !.since = 0]
<1>1. /\ exchange[t].at = "ready" /\ exchange' = [exchange EXCEPT ![t] = moved]
      /\ UNCHANGED <<pointer, folded, overlapped>>
  BY DEF SendMessage, Goes
<1>2. exchange[t] \in TurnRecord /\ exchange[t].caller \in Callers /\ exchange[t].since \in Nat
  BY TurnOf DEF TurnRecord
<1>3. /\ conversations \in Seq(ConversationRow) /\ messages \in Seq(MessageRow)
      /\ Len(conversations) \in Nat /\ Len(messages) \in Nat
      /\ DOMAIN conversations = 1 .. Len(conversations)
      /\ exchange \in [Exchanges -> TurnRecord] /\ pointer \in [Lazy -> Nat]
  BY DEF ConvInv, RowsTyped
<1>4. PICK size \in Sizes : messages' = Append(messages, NewMessage(exchange[t].caller, k, size, exchange[t].since))
  BY DEF SendMessage
<1>5. /\ conversations' \in Seq(ConversationRow)
      /\ Len(conversations) <= Len(conversations')
      /\ Len(conversations') \in Nat
      /\ \A j \in 1 .. Len(conversations) : conversations'[j] = conversations[j]
      /\ \A j \in 1 .. Len(conversations') : conversations'[j].summary \subseteq 1 .. Len(messages)
  <2>1. CASE UNCHANGED conversations
    BY <1>3, <2>1 DEF ConvInv, RowsAgree
  <2>2. CASE CreateConversation(exchange[t].caller)
    <3> DEFINE one == NewConversation(exchange[t].caller)
    <3>1. one \in ConversationRow /\ one.summary = {}
      BY <1>2 DEF NewConversation, ConversationRow
    <3>2. conversations' = Append(conversations, one)
      BY <2>2 DEF CreateConversation
    <3> HIDE DEF one
    <3>3. /\ conversations' \in Seq(ConversationRow) /\ Len(conversations') = Len(conversations) + 1
          /\ conversations'[Len(conversations) + 1] = one
          /\ \A j \in 1 .. Len(conversations) : conversations'[j] = conversations[j]
      <4>1. conversations \in Seq(ConversationRow)
        BY <1>3
      <4> QED BY <3>1, <3>2, <4>1
    <3> QED BY <1>3, <3>1, <3>3 DEF ConvInv, RowsAgree
  <2> QED BY <2>1, <2>2
<1>6. k \in Nat /\ k # 0 /\ k <= Len(conversations')
  BY <1>5
<1> DEFINE said == NewMessage(exchange[t].caller, k, size, exchange[t].since)
<1>7. said \in MessageRow /\ said.conversation = k /\ said.answered = FALSE
  BY <1>2, <1>6, CallersAssumption DEF NewMessage, MessageRow
<1> HIDE DEF said
<1>8. /\ messages' \in Seq(MessageRow) /\ Len(messages') = Len(messages) + 1
      /\ messages'[Len(messages) + 1] = said
      /\ \A m \in 1 .. Len(messages) : messages'[m] = messages[m]
  BY <1>3, <1>4, <1>7 DEF said
<1>9. read \subseteq 1 .. Len(messages)
  BY <1>3 DEF ConvInv, RowsAgree
<1> HIDE DEF read
<1>10. /\ moved \in TurnRecord /\ moved.at = "running" /\ moved.conversation = k
       /\ moved.message = Len(messages) + 1 /\ moved.read = read
  <2>1. /\ moved.at = "running" /\ moved.conversation = k
        /\ moved.message = Len(messages) + 1 /\ moved.read = read
    BY <1>2 DEF TurnRecord
  <2>2. moved \in [at : {"running"}, caller : {exchange[t].caller}, conversation : {k}, history : {<< >>},
                 message : {Len(messages) + 1}, read : {read}, status : {exchange[t].status}, since : {0}]
    BY <1>2 DEF TurnRecord
  <2>3. read \in SUBSET Nat /\ Len(messages) + 1 \in Nat /\ << >> \in Seq(Nat) /\ exchange[t].status \in {"normal", "stop", "error", "timeout"}
        /\ "running" \in Preparing \union {"running", "over", "failed"} \union Saving /\ 0 \in Nat
    BY <1>2, <1>3, <1>9 DEF TurnRecord
  <2> HIDE DEF moved
  <2>4. moved \in TurnRecord
    BY <1>2, <1>6, <2>2, <2>3, Zenon DEF TurnRecord
  <2> QED BY <2>1, <2>4
<1> HIDE DEF moved
<1>11. RowsOnlyMade
  BY <1>3, <1>5, <1>8 DEF RowsOnlyMade, RowsKept
<1>12. Agrees(moved, messages', Len(conversations'))
  <2>1. Len(messages) + 1 # 0 /\ Len(messages) + 1 <= Len(messages') /\ 1 .. Len(messages) \subseteq 1 .. Len(messages')
    BY <1>3, <1>8
  <2>2. moved.read \subseteq 1 .. Len(messages')
    BY <1>9, <1>10, <2>1
  <2>3. messages'[moved.message].conversation = moved.conversation
    BY <1>7, <1>8, <1>10
  <2>4. moved.at \notin Preparing
    BY <1>10 DEF Preparing
  <2> QED BY <1>6, <1>8, <1>10, <2>1, <2>2, <2>3, <2>4 DEF Agrees
<1>13. exchange' \in [Exchanges -> TurnRecord] /\ TurnsAgree' /\ OwnMessages'
  BY <1>1, <1>5, <1>8, <1>10, <1>11, <1>12, TurnMoves DEF RowsOnlyMade
<1>14. RowsAgree'
  <2>1. \A j \in 1 .. Len(conversations') : conversations'[j].summary \subseteq 1 .. Len(messages')
    BY <1>3, <1>5, <1>8
  <2>2. \A m \in 1 .. Len(messages') : messages'[m].conversation \in 1 .. Len(conversations')
    <3> SUFFICES ASSUME NEW m \in 1 .. Len(messages') PROVE messages'[m].conversation \in 1 .. Len(conversations')
      OBVIOUS
    <3>1. CASE m = Len(messages) + 1
      BY <1>7, <1>8, <3>1
    <3>2. CASE m # Len(messages) + 1
      <4>1. m \in 1 .. Len(messages)
        BY <1>3, <1>8, <3>2
      <4> QED BY <1>3, <1>5, <1>8, <4>1 DEF ConvInv, RowsAgree
    <3> QED BY <3>1, <3>2
  <2>3. \A c \in Lazy : pointer'[c] <= Len(conversations')
    <3>1. \A c \in Lazy : pointer[c] \in Nat /\ pointer[c] <= Len(conversations)
      BY <1>3 DEF ConvInv, RowsAgree
    <3> QED BY <1>1, <1>3, <1>5, <3>1
  <2> QED BY <2>1, <2>2, <2>3 DEF RowsAgree
<1>15. RowsTyped'
  <2>1. folded \subseteq 1 .. Len(messages) /\ overlapped \subseteq 1 .. Len(messages)
    BY DEF ConvInv, RowsTyped
  <2>2. 1 .. Len(messages) \subseteq 1 .. Len(messages')
    BY <1>3, <1>8
  <2> QED BY <1>1, <1>3, <1>5, <1>8, <1>13, <2>1, <2>2 DEF RowsTyped
<1>16. exchange'[t] = moved /\ \A u \in Exchanges \ {t} : exchange'[u] = exchange[u]
  BY <1>1, <1>3
<1>17. ~messages'[moved.message].answered
  BY <1>7, <1>8, <1>10
<1> QED BY <1>1, <1>10, <1>11, <1>13, <1>14, <1>15, <1>16, <1>17 DEF Enters, ConvInv

LEMMA SendWebAppMessageEnters ==
    ASSUME ConvInv, NEW t \in Exchanges, SendWebAppMessage(t)
    PROVE  ConvInv' /\ Enters(t)
<1>1. conversations \in Seq(ConversationRow) /\ Len(conversations) \in Nat
  BY DEF ConvInv, RowsTyped
<1>2. exchange[t] \in TurnRecord /\ exchange[t].conversation \in Nat /\ exchange[t].conversation <= Len(conversations)
  BY TurnOf DEF TurnRecord, Agrees
<1>3. CASE exchange[t].conversation = 0
  <2>1. CreateConversation(exchange[t].caller) /\ SendMessage(t, Len(conversations) + 1)
    BY <1>3 DEF SendWebAppMessage
  <2>2. Len(conversations') = Len(conversations) + 1
    BY <1>1, <2>1 DEF CreateConversation
  <2> QED BY <1>1, <2>1, <2>2, SendMessageEnters
<1>4. CASE exchange[t].conversation # 0
  <2>1. UNCHANGED conversations /\ SendMessage(t, exchange[t].conversation)
    BY <1>4 DEF SendWebAppMessage
  <2> QED BY <1>1, <1>2, <1>4, <2>1, SendMessageEnters
<1> QED BY <1>3, <1>4

LEMMA CreateMessageEnters ==
    ASSUME ConvInv, NEW t \in Exchanges, exchange[t].caller.invoke_from # "web_app", CreateMessage(t)
    PROVE  ConvInv' /\ Enters(t)
<1>1. conversations \in Seq(ConversationRow) /\ Len(conversations) \in Nat
  BY DEF ConvInv, RowsTyped
<1>2. UNCHANGED conversations /\ SendMessage(t, exchange[t].conversation) /\ exchange[t].at = "ready"
  BY DEF CreateMessage, SendMessage, Goes
<1>3. exchange[t].conversation \in 1 .. Len(conversations)
  BY <1>1, <1>2, TurnOf DEF TurnRecord, Agrees
<1> QED BY <1>1, <1>2, <1>3, SendMessageEnters

-----------------------------------------------------------------------------
(***************************************************************************)
(* The steps of save_agent_thoughts.                                       *)
(***************************************************************************)
\* The tables have the rows they had, and the rows may have changed.
RowsSaved ==
    /\ Len(messages') = Len(messages) /\ Len(conversations') = Len(conversations)
    /\ messages' \in Seq(MessageRow) /\ conversations' \in Seq(ConversationRow)
    /\ \A m \in 1 .. Len(messages) : messages'[m].conversation = messages[m].conversation
    /\ \A k \in 1 .. Len(conversations) : conversations'[k].summary \subseteq 1 .. Len(messages)
    /\ folded' \subseteq 1 .. Len(messages) /\ overlapped' \subseteq 1 .. Len(messages)

LEMMA NothingSaved == ASSUME ConvInv, UNCHANGED <<conversations, messages, folded, overlapped>> PROVE RowsSaved
BY DEF RowsSaved, ConvInv, RowsTyped, RowsAgree

LEMMA SavedAgree ==
    ASSUME ConvInv, RowsSaved, pointer' \in [Lazy -> Nat],
           \A c \in Lazy : pointer'[c] <= Len(conversations),
           exchange' \in [Exchanges -> TurnRecord], TurnsAgree', OwnMessages'
    PROVE  ConvInv'
BY DEF ConvInv, RowsTyped, RowsAgree, RowsSaved

\* Turn t goes on from where its agent ran, with its message, and knows r and s.
WentOn(t, a, r, s) ==
    /\ exchange[t].at \in Saving \union {"running"}
    /\ exchange'[t] \in [at : {a}, caller : {exchange[t].caller}, conversation : {exchange[t].conversation},
                         history : {exchange[t].history}, message : {exchange[t].message},
                         read : {r}, status : {s}, since : {exchange[t].since}]
    /\ exchange' = [exchange EXCEPT ![t] = exchange'[t]]

LEMMA WentFields ==
    ASSUME ConvInv, NEW t \in Exchanges, NEW a, NEW r, NEW s, WentOn(t, a, r, s)
    PROVE  /\ exchange[t].message \in 1 .. Len(messages)
           /\ exchange[t].conversation \in 1 .. Len(conversations)
           /\ messages[exchange[t].message].conversation = exchange[t].conversation
           /\ exchange'[t].at = a /\ exchange'[t].conversation = exchange[t].conversation
           /\ exchange'[t].message = exchange[t].message /\ exchange'[t].read = r
           /\ exchange'[t].status = s
           /\ \A u \in Exchanges \ {t} : exchange'[u] = exchange[u]
<1>1. exchange[t] \in TurnRecord /\ Agrees(exchange[t], messages, Len(conversations))
  BY TurnOf
<1>2. exchange[t].message \in 1 .. Len(messages)
  BY <1>1 DEF TurnRecord, Agrees, WentOn, ConvInv, RowsTyped
<1>3. messages[exchange[t].message].conversation = exchange[t].conversation
  BY <1>1, <1>2 DEF Agrees
<1>4. \A u \in Exchanges \ {t} : exchange'[u] = exchange[u]
  BY DEF WentOn, ConvInv, RowsTyped
<1> QED BY <1>2, <1>3, <1>4 DEF WentOn, ConvInv, RowsAgree

\* Every step of save_agent_thoughts has one of these forms.
LEMMA GoesWithRead ==
    ASSUME ConvInv, NEW t \in Exchanges, NEW from \in Saving \union {"running"}, NEW a, NEW r,
           Goes(t, from, [exchange[t] EXCEPT !.at = a, !.read = r])
    PROVE  WentOn(t, a, r, exchange[t].status)
<1> DEFINE moved == [exchange[t] EXCEPT !.at = a, !.read = r]
<1>1. moved \in [at : {a}, caller : {exchange[t].caller}, conversation : {exchange[t].conversation},
                         history : {exchange[t].history}, message : {exchange[t].message},
                         read : {r}, status : {exchange[t].status}, since : {exchange[t].since}]
  BY TurnOf DEF TurnRecord
<1>2. exchange' = [exchange EXCEPT ![t] = moved] /\ exchange[t].at = from
  BY DEF Goes
<1> HIDE DEF moved
<1>3. exchange'[t] = moved
  BY <1>2 DEF ConvInv, RowsTyped
<1> QED BY <1>1, <1>2, <1>3 DEF WentOn

LEMMA GoesOnly ==
    ASSUME ConvInv, NEW t \in Exchanges, NEW from \in Saving \union {"running"}, NEW a,
           Goes(t, from, [exchange[t] EXCEPT !.at = a])
    PROVE  WentOn(t, a, exchange[t].read, exchange[t].status)
<1> DEFINE moved == [exchange[t] EXCEPT !.at = a]
<1>1. moved \in [at : {a}, caller : {exchange[t].caller}, conversation : {exchange[t].conversation},
                         history : {exchange[t].history}, message : {exchange[t].message},
                         read : {exchange[t].read}, status : {exchange[t].status}, since : {exchange[t].since}]
  BY TurnOf DEF TurnRecord
<1>2. exchange' = [exchange EXCEPT ![t] = moved] /\ exchange[t].at = from
  BY DEF Goes
<1> HIDE DEF moved
<1>3. exchange'[t] = moved
  BY <1>2 DEF ConvInv, RowsTyped
<1> QED BY <1>1, <1>2, <1>3 DEF WentOn

LEMMA GoesWithStatus ==
    ASSUME ConvInv, NEW t \in Exchanges, NEW from \in Saving \union {"running"}, NEW a, NEW s,
           Goes(t, from, [exchange[t] EXCEPT !.at = a, !.status = s])
    PROVE  WentOn(t, a, exchange[t].read, s)
<1> DEFINE moved == [exchange[t] EXCEPT !.at = a, !.status = s]
<1>1. moved \in [at : {a}, caller : {exchange[t].caller}, conversation : {exchange[t].conversation},
                         history : {exchange[t].history}, message : {exchange[t].message},
                         read : {exchange[t].read}, status : {s}, since : {exchange[t].since}]
  BY TurnOf DEF TurnRecord
<1>2. exchange' = [exchange EXCEPT ![t] = moved] /\ exchange[t].at = from
  BY DEF Goes
<1> HIDE DEF moved
<1>3. exchange'[t] = moved
  BY <1>2 DEF ConvInv, RowsTyped
<1> QED BY <1>1, <1>2, <1>3 DEF WentOn

LEMMA WentKeeps ==
    ASSUME ConvInv, RowsSaved, UNCHANGED pointer, NEW t \in Exchanges,
           NEW a \in Saving \union {"over", "failed"}, NEW r \in SUBSET (1 .. Len(messages)),
           NEW s \in {"normal", "stop", "error", "timeout"}, WentOn(t, a, r, s)
    PROVE  ConvInv'
<1> DEFINE moved == exchange'[t]
<1>1. exchange[t] \in TurnRecord /\ Agrees(exchange[t], messages, Len(conversations))
  BY TurnOf
<1>2. /\ moved.at = a /\ moved.conversation = exchange[t].conversation
      /\ moved.message = exchange[t].message /\ moved.read = r /\ exchange' = [exchange EXCEPT ![t] = moved]
      /\ exchange[t].message \in 1 .. Len(messages)
      /\ messages[exchange[t].message].conversation = exchange[t].conversation
  BY WentFields DEF WentOn
<1>3. moved \in TurnRecord
  <2>1. moved \in [at : {a}, caller : {exchange[t].caller}, conversation : {exchange[t].conversation},
                         history : {exchange[t].history}, message : {exchange[t].message},
                         read : {r}, status : {s}, since : {exchange[t].since}]
    BY DEF WentOn
  <2>2. /\ exchange[t].caller \in Callers /\ exchange[t].conversation \in Nat /\ exchange[t].history \in Seq(Nat)
        /\ exchange[t].message \in Nat /\ exchange[t].since \in Nat /\ r \in SUBSET Nat /\ a \in Preparing \union {"running", "over", "failed"} \union Saving
    BY <1>1 DEF TurnRecord, ConvInv, RowsTyped
  <2> HIDE DEF moved
  <2> QED BY <2>1, <2>2, Zenon DEF TurnRecord
<1>4. RowsKept
  BY DEF RowsKept, RowsSaved, ConvInv, RowsTyped
<1>5. exchange[t].at \in Saving \union {"running"} /\ exchange[t].message # 0 /\ exchange[t].message <= Len(messages)
  BY <1>2 DEF WentOn, ConvInv, RowsTyped
<1> HIDE DEF moved
<1>6. Agrees(moved, messages', Len(conversations'))
  <2>1. moved.at \notin Preparing
    BY <1>2 DEF Saving, Preparing
  <2>2. moved.conversation <= Len(conversations')
    BY <1>1, <1>2 DEF Agrees, RowsSaved
  <2>3. moved.message <= Len(messages') /\ messages'[moved.message].conversation = moved.conversation
    BY <1>2, <1>5 DEF RowsSaved
  <2>4. moved.read \subseteq 1 .. Len(messages')
    BY <1>2 DEF RowsSaved
  <2>5. moved.message # 0
    BY <1>2, <1>5
  <2>6. ~(moved.at \in {"opened", "ready"})
    BY <2>1 DEF Preparing
  <2> QED BY <2>1, <2>2, <2>3, <2>4, <2>5, <2>6 DEF Agrees
<1>7. exchange' \in [Exchanges -> TurnRecord] /\ TurnsAgree' /\ OwnMessages'
  BY <1>2, <1>3, <1>4, <1>6, TurnMoves DEF RowsSaved
<1> QED BY <1>7, SavedAgree DEF ConvInv, RowsTyped, RowsAgree

\* What a turn that summarises has read holds whatever was folded alone, ...
ReadsFolded(t) ==
    exchange[t].at = "summarising" =>
        \A m \in folded : messages[m].conversation = exchange[t].conversation => m \in overlapped \union exchange[t].read

\* ... and two that summarise one conversation know of each other.
OverlapsSeen ==
    \A t, u \in Exchanges :
        t # u /\ exchange[t].at = "summarising" /\ exchange[u].at = "summarising"
              /\ exchange[t].conversation = exchange[u].conversation
        => exchange[t].message \in overlapped

SummaryInv ==
    /\ SummaryLosesOnlyOverlaps
    /\ \A t \in Exchanges : ReadsFolded(t)
    /\ OverlapsSeen

\* The only message of a conversation is not answered before its turn saves the
\* answer, and then names the conversation.
Alone(talk, table) == \A n \in 1 .. Len(table) : table[n].conversation = talk.conversation => n = talk.message

Names(talk, table, named) ==
    /\ talk.at \in {"running", "answering"} => ~table[talk.message].answered
    /\ talk.at = "named" => talk.message # 0
    /\ talk.at \in {"closing", "over"} /\ talk.message # 0 /\ table[talk.message].answered /\ Alone(talk, table)
       => named[talk.conversation].name # "new"

NameInv == \A t \in Exchanges : Names(exchange[t], messages, conversations)

\* The inductive invariant.
ConversationsInv == ConvInv /\ SummaryInv /\ NameInv

LEMMA NamesKept ==
    ASSUME ConvInv, RowsKept, messages' \in Seq(MessageRow), NEW u \in Exchanges,
           Names(exchange[u], messages, conversations), exchange'[u] = exchange[u],
           exchange[u].message # 0 =>
               (messages'[exchange[u].message].answered <=> messages[exchange[u].message].answered),
           \A k \in 1 .. Len(conversations) : conversations[k].name # "new" => conversations'[k].name # "new"
    PROVE  Names(exchange'[u], messages', conversations')
<1>1. exchange[u] \in TurnRecord /\ Agrees(exchange[u], messages, Len(conversations))
  BY TurnOf
<1>2. /\ exchange[u].message \in Nat /\ exchange[u].conversation \in Nat
      /\ Len(messages) \in Nat /\ Len(messages') \in Nat /\ Len(conversations) \in Nat
  BY <1>1 DEF TurnRecord, ConvInv, RowsTyped
<1>3. Alone(exchange[u], messages') => Alone(exchange[u], messages)
  BY <1>2 DEF Alone, RowsKept
<1>4. exchange[u].at \in {"running", "answering"} => exchange[u].message # 0
  BY <1>1 DEF Agrees, Saving
<1>5. exchange[u].message # 0 => exchange[u].conversation \in 1 .. Len(conversations)
  <2> SUFFICES ASSUME exchange[u].message # 0 PROVE exchange[u].conversation \in 1 .. Len(conversations)
    OBVIOUS
  <2>1. exchange[u].message \in 1 .. Len(messages) /\ messages[exchange[u].message].conversation = exchange[u].conversation
    BY <1>1, <1>2 DEF Agrees
  <2> QED BY <2>1 DEF ConvInv, RowsAgree
<1> QED BY <1>3, <1>4, <1>5 DEF Names

\* A turn that has just entered is not one of those that save.
LEMMA EntersKeeps ==
    ASSUME ConversationsInv, ConvInv', NEW t \in Exchanges, Enters(t)
    PROVE  ConversationsInv'
<1>1. ConvInv /\ RowsOnlyMade /\ RowsKept /\ folded' = folded /\ overlapped' = overlapped
      /\ \A u \in Exchanges \ {t} : exchange'[u] = exchange[u]
  BY DEF ConversationsInv, Enters, RowsOnlyMade
<1>2. /\ messages \in Seq(MessageRow) /\ messages' \in Seq(MessageRow)
      /\ folded \subseteq 1 .. Len(messages) /\ overlapped \subseteq 1 .. Len(messages)
  BY <1>1 DEF ConvInv, RowsTyped
<1>3. \A m \in folded : /\ m \in 1 .. Len(messages) /\ messages'[m] = messages[m]
                        /\ messages[m].conversation \in 1 .. Len(conversations)
                        /\ conversations'[messages[m].conversation] = conversations[messages[m].conversation]
  BY <1>1, <1>2 DEF RowsOnlyMade, ConvInv, RowsAgree
<1>4. SummaryLosesOnlyOverlaps'
  BY <1>1, <1>3 DEF ConversationsInv, SummaryInv, SummaryLosesOnlyOverlaps
<1>5. exchange'[t].at # "summarising"
  BY DEF Enters
<1>6. \A u \in Exchanges : ReadsFolded(u)'
  <2> SUFFICES ASSUME NEW u \in Exchanges PROVE ReadsFolded(u)'
    OBVIOUS
  <2>1. CASE u = t
    BY <1>5, <2>1 DEF ReadsFolded
  <2>2. CASE u # t
    BY <1>1, <1>3, <2>2 DEF ReadsFolded, ConversationsInv, SummaryInv
  <2> QED BY <2>1, <2>2
<1>7. OverlapsSeen'
  BY <1>1, <1>5 DEF OverlapsSeen, ConversationsInv, SummaryInv
<1>8. NameInv'
  <2> SUFFICES ASSUME NEW u \in Exchanges PROVE Names(exchange'[u], messages', conversations')
    BY DEF NameInv
  <2>1. CASE u = t
    BY <2>1 DEF Enters, Names
  <2>2. CASE u # t
    <3>1. exchange'[u] = exchange[u] /\ Names(exchange[u], messages, conversations)
      BY <1>1, <2>2 DEF ConversationsInv, NameInv
    <3>2. exchange[u].message # 0 => exchange[u].message \in 1 .. Len(messages)
      BY <1>1, <1>2, TurnOf DEF TurnRecord, Agrees
    <3>3. exchange[u].message # 0 => messages'[exchange[u].message] = messages[exchange[u].message]
      BY <1>1, <3>2 DEF RowsOnlyMade
    <3> QED BY <1>1, <1>2, <3>1, <3>3, NamesKept DEF RowsOnlyMade
  <2> QED BY <2>1, <2>2
<1> QED BY <1>4, <1>6, <1>7, <1>8 DEF ConversationsInv, SummaryInv

\* A turn that goes on after its agent ran, and disturbs no name and no answer of others.
LEMMA NamesWent ==
    ASSUME ConversationsInv, ConvInv', RowsSaved, NEW t \in Exchanges, NEW a, NEW r, NEW s, WentOn(t, a, r, s),
           Names(exchange'[t], messages', conversations'),
           \A m \in 1 .. Len(messages) :
               m # exchange[t].message => (messages'[m].answered <=> messages[m].answered),
           \A k \in 1 .. Len(conversations) : conversations[k].name # "new" => conversations'[k].name # "new"
    PROVE  NameInv'
<1> SUFFICES ASSUME NEW u \in Exchanges PROVE Names(exchange'[u], messages', conversations')
  BY DEF NameInv
<1>1. ConvInv
  BY DEF ConversationsInv
<1>2. RowsKept /\ messages' \in Seq(MessageRow)
  BY <1>1 DEF RowsKept, RowsSaved, ConvInv, RowsTyped
<1>3. CASE u = t
  BY <1>3
<1>4. CASE u # t
  <2>1. exchange'[u] = exchange[u] /\ Names(exchange[u], messages, conversations)
    BY <1>1, <1>4, WentFields DEF ConversationsInv, NameInv
  <2>2. exchange[u].message # 0 => exchange[u].message \in 1 .. Len(messages)
    <3>1. exchange[u] \in TurnRecord /\ Agrees(exchange[u], messages, Len(conversations))
      BY <1>1, TurnOf
    <3>2. exchange[u].message \in Nat /\ Len(messages) \in Nat
      BY <1>1, <3>1 DEF TurnRecord, ConvInv, RowsTyped
    <3> QED BY <3>1, <3>2 DEF Agrees
  <2>3. exchange[u].message # 0 => exchange[u].message # exchange[t].message
    BY <1>1, <1>4 DEF ConvInv, OwnMessages
  <2> QED BY <1>1, <1>2, <2>1, <2>2, <2>3, NamesKept
<1> QED BY <1>3, <1>4

\* A turn that is not summarising after the step leaves summaries as they were.
LEMMA SummariesWent ==
    ASSUME ConversationsInv, ConvInv', RowsSaved, NEW t \in Exchanges, NEW a, NEW r, NEW s, WentOn(t, a, r, s),
           a # "summarising", UNCHANGED <<folded, overlapped>>,
           \A k \in 1 .. Len(conversations) : conversations'[k].summary = conversations[k].summary
    PROVE  SummaryInv'
<1>1. ConvInv
  BY DEF ConversationsInv
<1>2. \A m \in folded : /\ m \in 1 .. Len(messages)
                        /\ messages'[m].conversation = messages[m].conversation
                        /\ messages[m].conversation \in 1 .. Len(conversations)
  BY <1>1 DEF ConvInv, RowsTyped, RowsAgree, RowsSaved
<1>3. exchange'[t].at # "summarising" /\ \A u \in Exchanges \ {t} : exchange'[u] = exchange[u]
  BY <1>1, WentFields
<1>4. SummaryLosesOnlyOverlaps'
  BY <1>2 DEF ConversationsInv, SummaryInv, SummaryLosesOnlyOverlaps
<1>5. \A u \in Exchanges : ReadsFolded(u)'
  <2> SUFFICES ASSUME NEW u \in Exchanges PROVE ReadsFolded(u)'
    OBVIOUS
  <2>1. CASE u = t
    BY <1>3, <2>1 DEF ReadsFolded
  <2>2. CASE u # t
    BY <1>2, <1>3, <2>2 DEF ReadsFolded, ConversationsInv, SummaryInv
  <2> QED BY <2>1, <2>2
<1>6. OverlapsSeen'
  BY <1>3 DEF OverlapsSeen, ConversationsInv, SummaryInv
<1> QED BY <1>4, <1>5, <1>6 DEF SummaryInv

LEMMA EnteringKeeps ==
    ASSUME ConversationsInv, NEW t \in Exchanges,
           web_app_chat(t) \/ openapi_chat(t) \/ debug_chat(t) \/ assistant_agent_chat(t)
    PROVE  ConversationsInv'
<1> SUFFICES ConvInv' /\ Enters(t)
  BY EntersKeeps
<1>1. ConvInv
  BY DEF ConversationsInv
<1>2. Prepare(t) => ConvInv' /\ Enters(t)
  BY <1>1, LoadHistoryEnters, PrepareFailsEnters DEF Prepare
<1>3. CASE web_app_chat(t)
  BY <1>1, <1>2, <1>3, FindWebAppEnters, SendWebAppMessageEnters DEF web_app_chat
<1>4. CASE openapi_chat(t)
  BY <1>1, <1>2, <1>4, FindOpenapiEnters, CreateMessageEnters DEF openapi_chat, Asks
<1>5. CASE debug_chat(t)
  BY <1>1, <1>2, <1>5, LazyChatEnters, LazyCreateEnters, CreateMessageEnters DEF debug_chat, Asks
<1>6. CASE assistant_agent_chat(t)
  BY <1>1, <1>2, <1>6, LazyChatEnters, LazyCreateEnters, CreateMessageEnters DEF assistant_agent_chat, Asks
<1> QED BY <1>3, <1>4, <1>5, <1>6

\* A turn goes on after its agent ran and writes nothing.
LEMMA WroteNothing ==
    ASSUME ConversationsInv, UNCHANGED <<conversations, messages, pointer, folded, overlapped>>, NEW t \in Exchanges,
           NEW a \in Saving \union {"over", "failed"}, a # "summarising", NEW r \in SUBSET (1 .. Len(messages)),
           NEW s \in {"normal", "stop", "error", "timeout"}, WentOn(t, a, r, s),
           Names(exchange'[t], messages, conversations)
    PROVE  ConversationsInv'
<1>1. ConvInv /\ RowsSaved
  BY NothingSaved DEF ConversationsInv
<1>2. ConvInv'
  BY <1>1, WentKeeps
<1>3. SummaryInv'
  BY <1>1, <1>2, SummariesWent
<1>4. NameInv'
  BY <1>1, <1>2, NamesWent
<1> QED BY <1>2, <1>3, <1>4 DEF ConversationsInv

LEMMA KnownOf ==
    ASSUME ConversationsInv, NEW t \in Exchanges
    PROVE  /\ exchange[t].read \in SUBSET (1 .. Len(messages))
           /\ exchange[t].status \in {"normal", "stop", "error", "timeout"}
           /\ Names(exchange[t], messages, conversations)
BY TurnOf DEF ConversationsInv, NameInv, TurnRecord, Agrees

LEMMA AgentEndsKeeps ==
    ASSUME ConversationsInv, NEW t \in Exchanges, AgentEnds(t)
    PROVE  ConversationsInv'
<1>1. PICK outcome \in Outcomes :
          Goes(t, "running", [exchange[t] EXCEPT !.at = IF outcome.answered THEN "answering" ELSE "closing",
                                                 !.status = outcome.status])
  BY DEF AgentEnds
<1> DEFINE a == IF outcome.answered THEN "answering" ELSE "closing"
<1>2. outcome.status \in {"normal", "stop", "error", "timeout"}
  BY CallersAssumption
<1>3. a \in {"answering", "closing"} /\ exchange[t].at = "running"
  BY <1>1 DEF Goes
<1>4. ConvInv /\ UNCHANGED <<conversations, messages, pointer, folded, overlapped>>
  BY DEF ConversationsInv, AgentEnds
<1>5. WentOn(t, a, exchange[t].read, outcome.status)
  BY <1>1, <1>4, GoesWithStatus
<1> HIDE DEF a
<1>6. exchange'[t].at = a /\ exchange'[t].message = exchange[t].message
  BY <1>4, <1>5, WentFields
<1>7. Names(exchange'[t], messages, conversations)
  BY <1>3, <1>6, KnownOf DEF Names
<1> QED BY <1>2, <1>3, <1>4, <1>5, <1>7, KnownOf, WroteNothing DEF Saving

LEMMA SaveAnswerKeeps ==
    ASSUME ConversationsInv, NEW t \in Exchanges, SaveAnswer(t)
    PROVE  ConversationsInv'
<1> DEFINE m == exchange[t].message
<1>1. ConvInv /\ messages' = [messages EXCEPT ![m].answered = TRUE] /\ UNCHANGED <<conversations, pointer, folded, overlapped>>
  BY DEF ConversationsInv, SaveAnswer
<1>2. WentOn(t, "answered", exchange[t].read, exchange[t].status)
  BY <1>1, GoesOnly DEF SaveAnswer, Saving
<1>3. m \in 1 .. Len(messages) /\ exchange'[t].at = "answered"
  BY <1>1, <1>2, WentFields
<1>4. messages \in Seq(MessageRow) /\ messages[m] \in MessageRow
  BY <1>1, <1>3 DEF ConvInv, RowsTyped
<1> DEFINE one == [messages[m] EXCEPT !.answered = TRUE]
<1>5. one \in MessageRow /\ one.conversation = messages[m].conversation
  BY <1>4 DEF MessageRow
<1> HIDE DEF m
<1>6. /\ messages' \in Seq(MessageRow) /\ Len(messages') = Len(messages)
      /\ \A n \in 1 .. Len(messages) : n # m => messages'[n] = messages[n]
      /\ messages'[m].conversation = messages[m].conversation
  <2> HIDE DEF one
  <2>1. messages' = [messages EXCEPT ![m] = one]
    BY <1>1 DEF one
  <2> QED BY <1>3, <1>4, <1>5, <2>1
<1>7. RowsSaved
  BY <1>1, <1>6 DEF RowsSaved, ConvInv, RowsTyped, RowsAgree
<1>8. ConvInv'
  BY <1>1, <1>2, <1>7, KnownOf, WentKeeps DEF Saving
<1>9. SummaryInv'
  BY <1>1, <1>2, <1>7, <1>8, SummariesWent
<1>10. Names(exchange'[t], messages', conversations')
  BY <1>3 DEF Names
<1>11. NameInv'
  BY <1>1, <1>2, <1>6, <1>7, <1>8, <1>10, NamesWent DEF m
<1> QED BY <1>8, <1>9, <1>11 DEF ConversationsInv

LEMMA ReadSummaryKeeps ==
    ASSUME ConversationsInv, NEW t \in Exchanges, ReadSummary(t)
    PROVE  ConversationsInv'
<1> DEFINE others == Summarising(exchange[t].conversation)
           k == exchange[t].conversation
<1>1. /\ ConvInv /\ UNCHANGED <<conversations, messages, pointer, folded>> /\ exchange[t].at = "answered"
      /\ overlapped' = overlapped \union
             (IF others = {} THEN {}
              ELSE {exchange[t].message} \union {exchange[u].message : u \in others})
  BY DEF ConversationsInv, ReadSummary, Goes
<1>2. WentOn(t, "summarising", conversations[k].summary, exchange[t].status)
  BY <1>1, GoesWithRead DEF ReadSummary, SummaryRead, Saving
<1>3. /\ k \in 1 .. Len(conversations) /\ exchange'[t].at = "summarising" /\ exchange'[t].conversation = k
      /\ exchange'[t].message = exchange[t].message /\ exchange'[t].read = conversations[k].summary
      /\ \A u \in Exchanges \ {t} : exchange'[u] = exchange[u]
      /\ exchange[t].message \in 1 .. Len(messages)
  BY <1>1, <1>2, WentFields
<1>4. conversations[k].summary \in SUBSET (1 .. Len(messages))
  BY <1>1, <1>3 DEF ConvInv, RowsAgree
<1>5. \A u \in others : exchange[u].message \in 1 .. Len(messages)
  <2> SUFFICES ASSUME NEW u \in others PROVE exchange[u].message \in 1 .. Len(messages)
    OBVIOUS
  <2>1. u \in Exchanges /\ exchange[u].at = "summarising"
    BY DEF Summarising
  <2> QED BY <1>1, <2>1, TurnOf DEF TurnRecord, Agrees, Saving, ConvInv, RowsTyped
<1>6. RowsSaved
  BY <1>1, <1>3, <1>5 DEF RowsSaved, ConvInv, RowsTyped, RowsAgree
<1>7. ConvInv'
  BY <1>1, <1>2, <1>4, <1>6, KnownOf, WentKeeps DEF Saving
<1>8. Names(exchange'[t], messages', conversations')
  BY <1>3 DEF Names
<1>9. NameInv'
  BY <1>1, <1>2, <1>6, <1>7, <1>8, NamesWent
<1>10. overlapped \subseteq overlapped'
  BY <1>1
<1>11. SummaryLosesOnlyOverlaps'
  BY <1>1, <1>10 DEF ConversationsInv, SummaryInv, SummaryLosesOnlyOverlaps
<1>12. ASSUME NEW u \in Exchanges PROVE ReadsFolded(u)'
  <2>1. CASE u = t
    BY <1>1, <1>3, <1>10, <2>1 DEF ReadsFolded, ConversationsInv, SummaryInv, SummaryLosesOnlyOverlaps
  <2>2. CASE u # t
    BY <1>1, <1>3, <1>10, <2>2 DEF ReadsFolded, ConversationsInv, SummaryInv
  <2> QED BY <2>1, <2>2
<1>13. OverlapsSeen'
  <2> SUFFICES ASSUME NEW u \in Exchanges, NEW v \in Exchanges, u # v,
                      exchange'[u].at = "summarising", exchange'[v].at = "summarising",
                      exchange'[u].conversation = exchange'[v].conversation
               PROVE  exchange'[u].message \in overlapped'
    BY DEF OverlapsSeen
  <2>1. CASE u # t /\ v # t
    BY <1>3, <1>10, <2>1 DEF OverlapsSeen, ConversationsInv, SummaryInv
  <2>2. CASE u = t
    <3>1. v \in others
      BY <1>3, <2>2 DEF Summarising
    <3> QED BY <1>1, <1>3, <2>2, <3>1
  <2>3. CASE v = t /\ u # t
    <3>1. u \in others
      BY <1>3, <2>3 DEF Summarising
    <3> QED BY <1>1, <1>3, <2>3, <3>1
  <2> QED BY <2>1, <2>2, <2>3
<1> QED BY <1>7, <1>9, <1>11, <1>12, <1>13 DEF ConversationsInv, SummaryInv

LEMMA WriteSummaryKeeps ==
    ASSUME ConversationsInv, NEW t \in Exchanges, WriteSummary(t)
    PROVE  ConversationsInv'
<1> DEFINE m == exchange[t].message
           k == exchange[t].conversation
<1>1. /\ ConvInv /\ UNCHANGED <<messages, pointer, overlapped>> /\ exchange[t].at = "summarising"
      /\ conversations' = [conversations EXCEPT ![k].summary = exchange[t].read \union {m}]
      /\ folded' = folded \union {m}
  BY DEF ConversationsInv, WriteSummary, Goes
<1>2. WentOn(t, "naming", exchange[t].read, exchange[t].status)
  BY <1>1, GoesOnly DEF WriteSummary, Saving
<1>3. /\ k \in 1 .. Len(conversations) /\ exchange'[t].at = "naming"
      /\ m \in 1 .. Len(messages) /\ messages[m].conversation = k
      /\ \A u \in Exchanges \ {t} : exchange'[u] = exchange[u]
  BY <1>1, <1>2, WentFields
<1>4. exchange[t].read \in SUBSET (1 .. Len(messages))
  BY KnownOf
<1>5. conversations \in Seq(ConversationRow) /\ conversations[k] \in ConversationRow /\ Len(messages) \in Nat
  BY <1>1, <1>3 DEF ConvInv, RowsTyped
<1> DEFINE one == [conversations[k] EXCEPT !.summary = exchange[t].read \union {m}]
<1>6. one \in ConversationRow /\ one.summary = exchange[t].read \union {m} /\ one.name = conversations[k].name
  BY <1>3, <1>4, <1>5 DEF ConversationRow
<1> HIDE DEF m, k
<1>7. /\ conversations' \in Seq(ConversationRow) /\ Len(conversations') = Len(conversations)
      /\ \A j \in 1 .. Len(conversations) : j # k => conversations'[j] = conversations[j]
      /\ conversations'[k].summary = exchange[t].read \union {m}
      /\ conversations'[k].name = conversations[k].name
  <2> HIDE DEF one
  <2>1. conversations' = [conversations EXCEPT ![k] = one]
    BY <1>1 DEF one
  <2> QED BY <1>3, <1>5, <1>6, <2>1
<1>8. RowsSaved
  <2>1. \A j \in 1 .. Len(conversations) : conversations'[j].summary \subseteq 1 .. Len(messages)
    BY <1>1, <1>3, <1>4, <1>7 DEF ConvInv, RowsAgree
  <2> QED BY <1>1, <1>3, <1>7, <2>1 DEF RowsSaved, ConvInv, RowsTyped
<1>9. ConvInv'
  BY <1>1, <1>2, <1>4, <1>8, KnownOf, WentKeeps DEF Saving
<1>10. Names(exchange'[t], messages', conversations')
  BY <1>3 DEF Names
<1>11. NameInv'
  BY <1>1, <1>2, <1>7, <1>8, <1>9, <1>10, NamesWent
<1>12. SummaryLosesOnlyOverlaps'
  <2> SUFFICES ASSUME NEW n \in folded' PROVE n \in overlapped \union conversations'[messages[n].conversation].summary
    BY <1>1 DEF SummaryLosesOnlyOverlaps
  <2>1. CASE n = m
    BY <1>3, <1>7, <2>1
  <2>2. CASE n \in folded /\ messages[n].conversation = k
    BY <1>1, <1>7, <2>2 DEF k, ConversationsInv, SummaryInv, ReadsFolded
  <2>3. CASE n \in folded /\ messages[n].conversation # k
    <3>1. messages[n].conversation \in 1 .. Len(conversations)
      BY <1>1, <2>3 DEF ConvInv, RowsTyped, RowsAgree
    <3> QED BY <1>7, <2>3, <3>1 DEF ConversationsInv, SummaryInv, SummaryLosesOnlyOverlaps
  <2> QED BY <1>1, <2>1, <2>2, <2>3
<1>13. ASSUME NEW u \in Exchanges PROVE ReadsFolded(u)'
  <2> SUFFICES ASSUME exchange'[u].at = "summarising", NEW n \in folded', messages[n].conversation = exchange'[u].conversation
               PROVE  n \in overlapped \union exchange'[u].read
    BY <1>1 DEF ReadsFolded
  <2>1. u # t /\ exchange'[u] = exchange[u]
    BY <1>3
  <2>2. CASE n = m
    BY <1>1, <1>3, <2>1, <2>2 DEF m, k, ConversationsInv, SummaryInv, OverlapsSeen
  <2>3. CASE n \in folded
    BY <2>1, <2>3 DEF ConversationsInv, SummaryInv, ReadsFolded
  <2> QED BY <1>1, <2>2, <2>3
<1>14. OverlapsSeen'
  BY <1>1, <1>3, SMTT(30) DEF OverlapsSeen, ConversationsInv, SummaryInv
<1> QED BY <1>9, <1>11, <1>12, <1>13, <1>14 DEF ConversationsInv, SummaryInv

LEMMA NoSummaryKeeps ==
    ASSUME ConversationsInv, NEW t \in Exchanges, NoSummary(t)
    PROVE  ConversationsInv'
<1>1. /\ ConvInv /\ UNCHANGED <<conversations, messages, pointer, folded, overlapped>>
      /\ exchange[t].at \in Saving /\ Goes(t, exchange[t].at, [exchange[t] EXCEPT !.at = "naming"])
  BY DEF ConversationsInv, NoSummary, Saving
<1>2. WentOn(t, "naming", exchange[t].read, exchange[t].status)
  BY <1>1, GoesOnly
<1>3. exchange'[t].at = "naming"
  BY <1>1, <1>2, WentFields
<1> QED BY <1>1, <1>2, <1>3, KnownOf, WroteNothing DEF Saving, Names

\* Who finds another message of its conversation leaves the name to it.
LEMMA AskIsNewKeeps ==
    ASSUME ConversationsInv, NEW t \in Exchanges, AskIsNew(t)
    PROVE  ConversationsInv'
<1> DEFINE a == IF is_new(exchange[t].conversation) THEN "named" ELSE "closing"
<1>1. /\ ConvInv /\ UNCHANGED <<conversations, messages, pointer, folded, overlapped>>
      /\ Goes(t, "naming", [exchange[t] EXCEPT !.at = a])
  BY DEF ConversationsInv, AskIsNew
<1>2. a \in Saving /\ a # "summarising"
  BY DEF Saving
<1>3. WentOn(t, a, exchange[t].read, exchange[t].status)
  BY <1>1, GoesOnly DEF Saving
<1>4. /\ exchange'[t].at = a /\ exchange'[t].message = exchange[t].message
      /\ exchange'[t].conversation = exchange[t].conversation /\ exchange[t].message \in 1 .. Len(messages)
  BY <1>1, <1>3, WentFields
<1>5. a = "closing" => ~Alone(exchange'[t], messages)
  <2> SUFFICES ASSUME ~is_new(exchange[t].conversation) PROVE ~Alone(exchange'[t], messages)
    OBVIOUS
  <2>1. DOMAIN messages = 1 .. Len(messages)
    BY <1>1 DEF ConvInv, RowsTyped
  <2> QED BY <1>4, <2>1 DEF is_new, Alone
<1>6. Len(messages) \in Nat
  BY <1>1 DEF ConvInv, RowsTyped
<1>7. a \in {"named", "closing"}
  OBVIOUS
<1> HIDE DEF a
<1>8. Names(exchange'[t], messages, conversations)
  BY <1>4, <1>5, <1>6, <1>7 DEF Names
<1> QED BY <1>1, <1>2, <1>3, <1>8, KnownOf, WroteNothing

LEMMA WriteNameKeeps ==
    ASSUME ConversationsInv, NEW t \in Exchanges, WriteName(t)
    PROVE  ConversationsInv'
<1> DEFINE k == exchange[t].conversation
<1>1. /\ ConvInv /\ UNCHANGED <<messages, pointer, folded, overlapped>>
      /\ conversations' = [conversations EXCEPT ![k].name = "generated"]
  BY DEF ConversationsInv, WriteName
<1>2. WentOn(t, "closing", exchange[t].read, exchange[t].status)
  BY <1>1, GoesOnly DEF WriteName, Saving
<1>3. /\ k \in 1 .. Len(conversations) /\ exchange'[t].at = "closing" /\ exchange'[t].conversation = k
  BY <1>1, <1>2, WentFields
<1>4. conversations \in Seq(ConversationRow) /\ conversations[k] \in ConversationRow
  BY <1>1, <1>3 DEF ConvInv, RowsTyped
<1> DEFINE one == [conversations[k] EXCEPT !.name = "generated"]
<1>5. one \in ConversationRow /\ one.summary = conversations[k].summary /\ one.name = "generated"
  BY <1>4 DEF ConversationRow
<1> HIDE DEF k
<1>6. /\ conversations' \in Seq(ConversationRow) /\ Len(conversations') = Len(conversations)
      /\ \A j \in 1 .. Len(conversations) : j # k => conversations'[j] = conversations[j]
      /\ conversations'[k].summary = conversations[k].summary
      /\ conversations'[k].name = "generated"
  <2> HIDE DEF one
  <2>1. conversations' = [conversations EXCEPT ![k] = one]
    BY <1>1 DEF one
  <2> QED BY <1>3, <1>4, <1>5, <2>1
<1>7. \A j \in 1 .. Len(conversations) : conversations'[j].summary = conversations[j].summary
  BY <1>6
<1>8. RowsSaved
  BY <1>1, <1>6, <1>7 DEF RowsSaved, ConvInv, RowsTyped, RowsAgree
<1>9. ConvInv'
  BY <1>1, <1>2, <1>8, KnownOf, WentKeeps DEF Saving
<1>10. Names(exchange'[t], messages', conversations')
  BY <1>3, <1>6 DEF Names
<1>11. NameInv'
  BY <1>1, <1>2, <1>6, <1>8, <1>9, <1>10, NamesWent
<1>12. SummaryInv'
  BY <1>1, <1>2, <1>7, <1>8, <1>9, SummariesWent
<1> QED BY <1>9, <1>11, <1>12 DEF ConversationsInv

LEMMA SaveStatusKeeps ==
    ASSUME ConversationsInv, NEW t \in Exchanges, SaveStatus(t)
    PROVE  ConversationsInv'
<1> DEFINE m == exchange[t].message
<1>1. /\ ConvInv /\ messages' = [messages EXCEPT ![m].status = exchange[t].status]
      /\ UNCHANGED <<conversations, pointer, folded, overlapped>> /\ exchange[t].at = "closing"
  BY DEF ConversationsInv, SaveStatus, Goes
<1>2. WentOn(t, "over", {}, exchange[t].status)
  BY <1>1, GoesWithRead DEF SaveStatus, Saving
<1>3. /\ m \in 1 .. Len(messages) /\ exchange'[t].at = "over" /\ exchange'[t].message = m
      /\ exchange'[t].conversation = exchange[t].conversation
  BY <1>1, <1>2, WentFields
<1>4. messages \in Seq(MessageRow) /\ messages[m] \in MessageRow /\ exchange[t].status \in {"normal", "stop", "error", "timeout"}
  BY <1>1, <1>3, KnownOf DEF ConvInv, RowsTyped
<1> DEFINE one == [messages[m] EXCEPT !.status = exchange[t].status]
<1>5. one \in MessageRow /\ one.conversation = messages[m].conversation /\ one.answered = messages[m].answered
  BY <1>4 DEF MessageRow
<1> HIDE DEF m
<1>6. /\ messages' \in Seq(MessageRow) /\ Len(messages') = Len(messages)
      /\ \A n \in 1 .. Len(messages) : messages'[n].conversation = messages[n].conversation
                                       /\ messages'[n].answered = messages[n].answered
  <2> HIDE DEF one
  <2>1. messages' = [messages EXCEPT ![m] = one]
    BY <1>1 DEF one
  <2> QED BY <1>3, <1>4, <1>5, <2>1
<1>7. RowsSaved
  BY <1>1, <1>6 DEF RowsSaved, ConvInv, RowsTyped, RowsAgree
<1>8. ConvInv'
  BY <1>1, <1>2, <1>7, KnownOf, WentKeeps
<1>9. SummaryInv'
  BY <1>1, <1>2, <1>7, <1>8, SummariesWent
<1>10. Names(exchange'[t], messages', conversations')
  <2>1. Alone(exchange'[t], messages') => Alone(exchange[t], messages)
    BY <1>3, <1>6 DEF Alone, m
  <2> QED BY <1>1, <1>3, <1>6, <2>1, KnownOf DEF Names, m
<1>11. NameInv'
  BY <1>1, <1>2, <1>6, <1>7, <1>8, <1>10, NamesWent
<1> QED BY <1>8, <1>9, <1>11 DEF ConversationsInv

LEMMA SaveFailsKeeps ==
    ASSUME ConversationsInv, NEW t \in Exchanges, SaveFails(t)
    PROVE  ConversationsInv'
<1>1. /\ ConvInv /\ UNCHANGED <<conversations, messages, pointer, folded, overlapped>>
      /\ exchange[t].at \in Saving /\ Goes(t, exchange[t].at, [exchange[t] EXCEPT !.at = "failed", !.read = {}])
  BY DEF ConversationsInv, SaveFails, Saving
<1>2. WentOn(t, "failed", {}, exchange[t].status)
  BY <1>1, GoesWithRead
<1>3. exchange'[t].at = "failed"
  BY <1>1, <1>2, WentFields
<1> QED BY <1>1, <1>2, <1>3, KnownOf, WroteNothing DEF Names

-----------------------------------------------------------------------------
\* What users do leaves turns alone.
LEMMA UsersKeep ==
    ASSUME ConversationsInv, ConvInv', RowsSaved, UNCHANGED <<exchange, overlapped>>,
           \A m \in 1 .. Len(messages) : messages'[m].answered <=> messages[m].answered,
           \A k \in 1 .. Len(conversations) : conversations[k].name # "new" => conversations'[k].name # "new",
           folded' \subseteq folded,
           \A m \in folded' : conversations'[messages[m].conversation].summary = conversations[messages[m].conversation].summary
    PROVE  ConversationsInv'
<1>1. ConvInv /\ RowsKept
  BY DEF ConversationsInv, RowsKept, RowsSaved, ConvInv, RowsTyped
<1>2. \A m \in folded' : m \in folded /\ m \in 1 .. Len(messages) /\ messages'[m].conversation = messages[m].conversation
  BY <1>1 DEF ConvInv, RowsTyped, RowsSaved
<1>3. SummaryInv'
  <2>1. SummaryLosesOnlyOverlaps'
    BY <1>2 DEF ConversationsInv, SummaryInv, SummaryLosesOnlyOverlaps
  <2>2. \A t \in Exchanges : ReadsFolded(t)'
    BY <1>2 DEF ConversationsInv, SummaryInv, ReadsFolded
  <2>3. OverlapsSeen'
    BY DEF ConversationsInv, SummaryInv, OverlapsSeen
  <2> QED BY <2>1, <2>2, <2>3 DEF SummaryInv
<1>4. NameInv'
  <2> SUFFICES ASSUME NEW u \in Exchanges PROVE Names(exchange'[u], messages', conversations')
    BY DEF NameInv
  <2>1. exchange[u].message # 0 => exchange[u].message \in 1 .. Len(messages)
    BY <1>1, TurnOf DEF TurnRecord, Agrees, ConvInv, RowsTyped
  <2>2. Names(exchange[u], messages, conversations) /\ messages' \in Seq(MessageRow) /\ exchange'[u] = exchange[u]
    BY DEF ConversationsInv, NameInv, RowsSaved
  <2> QED BY <1>1, <2>1, <2>2, NamesKept
<1> QED BY <1>3, <1>4 DEF ConversationsInv

\* A conversation is renamed, deleted, or given an empty summary.
LEMMA ConversationChanged ==
    ASSUME ConversationsInv, NEW k \in 1 .. Len(conversations), NEW one \in ConversationRow,
           conversations' = [conversations EXCEPT ![k] = one], UNCHANGED <<messages, pointer, exchange, overlapped>>,
           one.summary \subseteq 1 .. Len(messages), conversations[k].name # "new" => one.name # "new",
           folded' \subseteq folded,
           one.summary # conversations[k].summary => \A m \in folded' : messages[m].conversation # k
    PROVE  ConversationsInv'
<1>1. ConvInv /\ conversations \in Seq(ConversationRow)
  BY DEF ConversationsInv, ConvInv, RowsTyped
<1>2. /\ conversations' \in Seq(ConversationRow) /\ Len(conversations') = Len(conversations)
      /\ \A j \in 1 .. Len(conversations) : j # k => conversations'[j] = conversations[j]
      /\ conversations'[k] = one
  BY <1>1
<1>3. RowsSaved
  BY <1>1, <1>2 DEF RowsSaved, ConvInv, RowsTyped, RowsAgree
<1>4. exchange' \in [Exchanges -> TurnRecord] /\ TurnsAgree' /\ OwnMessages'
  <2>1. RowsKept
    BY <1>1, <1>3 DEF RowsKept, RowsSaved, ConvInv, RowsTyped
  <2> QED BY <1>1, <1>3, <2>1, TurnsStay DEF RowsSaved
<1>5. ConvInv'
  BY <1>1, <1>3, <1>4, SavedAgree DEF ConvInv, RowsTyped, RowsAgree
<1>6. \A m \in folded' : conversations'[messages[m].conversation].summary = conversations[messages[m].conversation].summary
  <2> SUFFICES ASSUME NEW m \in folded'
               PROVE  conversations'[messages[m].conversation].summary = conversations[messages[m].conversation].summary
    OBVIOUS
  <2>1. messages[m].conversation \in 1 .. Len(conversations)
    BY <1>1 DEF ConvInv, RowsTyped, RowsAgree
  <2> QED BY <1>2, <2>1
<1>7. \A j \in 1 .. Len(conversations) : conversations[j].name # "new" => conversations'[j].name # "new"
  BY <1>2
<1> QED BY <1>3, <1>5, <1>6, <1>7, UsersKeep

LEMMA ConversationRowOf ==
    ASSUME ConversationsInv, NEW k \in 1 .. Len(conversations)
    PROVE  conversations[k] \in ConversationRow /\ conversations[k].summary \subseteq 1 .. Len(messages)
BY DEF ConversationsInv, ConvInv, RowsTyped, RowsAgree

LEMMA UpdateConversationKeeps ==
    ASSUME ConversationsInv, NEW k \in 1 .. Len(conversations), update_conversation(k)
    PROVE  ConversationsInv'
<1> DEFINE one == [conversations[k] EXCEPT !.name = "user"]
<1>1. one \in ConversationRow /\ one.summary = conversations[k].summary /\ one.name = "user"
  BY ConversationRowOf DEF ConversationRow
<1>2. conversations' = [conversations EXCEPT ![k] = one] /\ UNCHANGED <<messages, pointer, exchange, folded, overlapped>>
  BY DEF update_conversation, Changes
<1> HIDE DEF one
<1> QED BY <1>1, <1>2, ConversationRowOf, ConversationChanged

LEMMA DeleteConversationKeeps ==
    ASSUME ConversationsInv, NEW k \in 1 .. Len(conversations), delete_conversation(k)
    PROVE  ConversationsInv'
<1> DEFINE one == [conversations[k] EXCEPT !.deleted = TRUE]
<1>1. one \in ConversationRow /\ one.summary = conversations[k].summary /\ one.name = conversations[k].name
  BY ConversationRowOf DEF ConversationRow
<1>2. conversations' = [conversations EXCEPT ![k] = one] /\ UNCHANGED <<messages, pointer, exchange, folded, overlapped>>
  BY DEF delete_conversation, Changes
<1> HIDE DEF one
<1> QED BY <1>1, <1>2, ConversationRowOf, ConversationChanged

LEMMA DeleteMessageKeeps ==
    ASSUME ConversationsInv, NEW m \in 1 .. Len(messages), delete_message(m)
    PROVE  ConversationsInv'
<1> DEFINE one == [messages[m] EXCEPT !.deleted = TRUE]
<1>1. ConvInv /\ messages \in Seq(MessageRow) /\ messages[m] \in MessageRow
  BY DEF ConversationsInv, ConvInv, RowsTyped
<1>2. one \in MessageRow /\ one.conversation = messages[m].conversation /\ one.answered = messages[m].answered
  BY <1>1 DEF MessageRow
<1>3. messages' = [messages EXCEPT ![m] = one] /\ UNCHANGED <<conversations, pointer, exchange, folded, overlapped>>
  BY DEF delete_message
<1> HIDE DEF one
<1>4. /\ messages' \in Seq(MessageRow) /\ Len(messages') = Len(messages)
      /\ \A n \in 1 .. Len(messages) : messages'[n].conversation = messages[n].conversation
                                       /\ messages'[n].answered = messages[n].answered
  BY <1>1, <1>2, <1>3
<1>5. RowsSaved
  BY <1>1, <1>3, <1>4 DEF RowsSaved, ConvInv, RowsTyped, RowsAgree
<1>6. exchange' \in [Exchanges -> TurnRecord] /\ TurnsAgree' /\ OwnMessages'
  <2>1. RowsKept
    BY <1>1, <1>5 DEF RowsKept, RowsSaved, ConvInv, RowsTyped
  <2> QED BY <1>1, <1>3, <1>5, <2>1, TurnsStay DEF RowsSaved
<1>7. ConvInv'
  BY <1>1, <1>3, <1>5, <1>6, SavedAgree DEF ConvInv, RowsTyped, RowsAgree
<1> QED BY <1>3, <1>4, <1>5, <1>7, UsersKeep

LEMMA ClearPointerKeeps ==
    ASSUME ConversationsInv, NEW c \in Lazy, ClearPointer(c)
    PROVE  ConversationsInv'
<1>1. ConvInv /\ pointer' = [pointer EXCEPT ![c] = 0] /\ UNCHANGED <<conversations, messages, exchange, folded, overlapped>>
  BY DEF ConversationsInv, ClearPointer
<1>2. RowsSaved
  BY <1>1, NothingSaved
<1>3. pointer' \in [Lazy -> Nat] /\ \A d \in Lazy : pointer'[d] <= Len(conversations)
  <2>1. pointer \in [Lazy -> Nat] /\ \A d \in Lazy : pointer[d] <= Len(conversations)
    BY <1>1 DEF ConvInv, RowsTyped, RowsAgree
  <2>2. Len(conversations) \in Nat
    BY <1>1 DEF ConvInv, RowsTyped
  <2> QED BY <1>1, <2>1, <2>2
<1>4. ConvInv'
  BY <1>1, <1>2, <1>3, SavedAgree DEF ConvInv, RowsTyped, TurnsAgree, OwnMessages
<1> QED BY <1>1, <1>2, <1>4, UsersKeep

LEMMA UpdateSummaryKeeps ==
    ASSUME ConversationsInv, NEW c \in Lazy, update_debug_conversation_summary(c)
    PROVE  ConversationsInv'
<1> DEFINE k == pointer[c]
           one == [conversations[k] EXCEPT !.summary = {}]
<1>1. /\ k # 0 /\ conversations' = [conversations EXCEPT ![k] = one]
      /\ folded' = {m \in folded : messages[m].conversation # k} /\ UNCHANGED <<messages, pointer, exchange, overlapped>>
  BY DEF update_debug_conversation_summary
<1>2. k \in 1 .. Len(conversations)
  BY <1>1 DEF ConversationsInv, ConvInv, RowsTyped, RowsAgree
<1> HIDE DEF k
<1>3. one \in ConversationRow /\ one.summary = {} /\ one.name = conversations[k].name
  BY <1>2, ConversationRowOf DEF ConversationRow
<1> HIDE DEF one
<1> QED BY <1>1, <1>2, <1>3, ConversationChanged

-----------------------------------------------------------------------------
LEMMA ConversationsInitially == ConvInit => ConversationsInv
<1> SUFFICES ASSUME ConvInit PROVE ConversationsInv
  OBVIOUS
<1>1. ConvInv
  BY ConvInitially
<1>2. folded = {} /\ \A t \in Exchanges : exchange[t] = NewExchange
  BY DEF ConvInit
<1>3. NewExchange.at = "new"
  BY DEF NewExchange
<1>4. SummaryInv
  BY <1>2, <1>3 DEF SummaryInv, SummaryLosesOnlyOverlaps, ReadsFolded, OverlapsSeen
<1>5. NameInv
  BY <1>2, <1>3 DEF NameInv, Names
<1> QED BY <1>1, <1>4, <1>5 DEF ConversationsInv

LEMMA ConversationsStep == ConversationsInv /\ [ConvNext]_convVars => ConversationsInv'
<1> SUFFICES ASSUME ConversationsInv, [ConvNext]_convVars PROVE ConversationsInv'
  OBVIOUS
<1>1. ASSUME NEW t \in Exchanges, AgentEnds(t) \/ save_agent_thoughts(t) PROVE ConversationsInv'
  BY <1>1, AgentEndsKeeps, SaveAnswerKeeps, ReadSummaryKeeps, WriteSummaryKeeps, NoSummaryKeeps, AskIsNewKeeps,
     WriteNameKeeps, SaveStatusKeeps, SaveFailsKeeps DEF save_agent_thoughts
<1>2. ASSUME UserActs PROVE ConversationsInv'
  <2>1. DOMAIN conversations = 1 .. Len(conversations) /\ DOMAIN messages = 1 .. Len(messages)
    BY DEF ConversationsInv, ConvInv, RowsTyped
  <2> QED BY <1>2, <2>1, UpdateConversationKeeps, DeleteConversationKeeps, DeleteMessageKeeps, ClearPointerKeeps,
             UpdateSummaryKeeps DEF UserActs
<1>3. ASSUME UNCHANGED convVars PROVE ConversationsInv'
  <2>1. UNCHANGED <<conversations, messages, pointer, exchange, folded, overlapped>>
    BY <1>3 DEF convVars
  <2> QED BY <2>1 DEF ConversationsInv, ConvInv, RowsTyped, RowsAgree, TurnsAgree, OwnMessages, SummaryInv, SummaryLosesOnlyOverlaps,
             ReadsFolded, OverlapsSeen, NameInv
<1> QED BY <1>1, <1>2, <1>3, EnteringKeeps DEF ConvNext

LEMMA ConversationsHold == ConvSpec => []ConversationsInv
BY ConversationsInitially, ConversationsStep, PTL DEF ConvSpec

\* Every row that a turn, a pointer, a summary or a message names is there, and no
\* message changes its conversation, in any order of the turns and of what users do.
THEOREM ConversationsTypeCorrect == ConvSpec => []ConvTypeOK
<1>1. ConversationsInv => ConvTypeOK
  BY ConvTyped DEF ConversationsInv
<1> QED BY <1>1, ConversationsHold, PTL

\* A turn's message that was put into a summary stays in it, or was summarised while
\* another turn of its conversation was: a summary is replaced by one that was made
\* from an older one only when both turns know it.
THEOREM FoldedStays == ConvSpec => []SummaryLosesOnlyOverlaps
<1>1. ConversationsInv => SummaryLosesOnlyOverlaps
  BY DEF ConversationsInv, SummaryInv
<1> QED BY <1>1, ConversationsHold, PTL

\* The first answer of a conversation names it, in whatever order the turns save: a turn
\* that is over without a name has found, or would find, another message there.
THEOREM FirstAnswerIsNamed == ConvSpec => []FirstAnswerNames
<1>1. ASSUME ConversationsInv PROVE FirstAnswerNames
  <2>1. DOMAIN messages = 1 .. Len(messages)
    BY <1>1 DEF ConversationsInv, ConvInv, RowsTyped
  <2> QED BY <1>1, <2>1 DEF ConversationsInv, NameInv, Names, Alone, FirstAnswerNames
<1> QED BY <1>1, ConversationsHold, PTL

\* A turn goes from a place, and alone.
LEMMA GoesFrom ==
    ASSUME ConvInv, NEW u \in Exchanges, NEW from, NEW values, Goes(u, from, values),
           NEW t \in Exchanges, exchange[t].at = "opened", exchange'[t].at = "ready"
    PROVE  t = u /\ from = "opened"
<1>1. exchange \in [Exchanges -> TurnRecord] /\ exchange' = [exchange EXCEPT ![u] = values] /\ exchange[u].at = from
  BY DEF ConvInv, RowsTyped, Goes
<1>2. t # u => exchange'[t] = exchange[t]
  BY <1>1
<1> QED BY <1>1, <1>2

\* Only the loading of its history makes a turn ready.
LEMMA ReadyByLoading ==
    ASSUME ConvInv, ConvNext, NEW t \in Exchanges, exchange[t].at = "opened", exchange'[t].at = "ready"
    PROVE  LoadHistory(t)
<1>1. \A u \in Exchanges, c \in Callers, k \in Nat : ~Open(u, c, k) /\ ~OpenNew(u, c, k)
  <2> SUFFICES ASSUME NEW u \in Exchanges, NEW c \in Callers, NEW k \in Nat, Open(u, c, k) \/ OpenNew(u, c, k)
               PROVE  FALSE
    OBVIOUS
  <2>1. PICK second \in Nat : Begins(u, "new", c, k, second)
    BY OpeningBegins
  <2> QED BY <2>1, GoesFrom DEF Begins
<1>2. /\ DOMAIN conversations \subseteq Nat /\ Len(conversations) + 1 \in Nat
      /\ \A c \in Lazy : pointer[c] \in Nat /\ c \in Callers
  BY DEF ConvInv, RowsTyped, Lazy
<1>3. ASSUME NEW u \in Exchanges, NEW c \in Callers, FindWebAppConversation(u, c) PROVE FALSE
  BY <1>1, <1>2, <1>3 DEF FindWebAppConversation
<1>4. ASSUME NEW u \in Exchanges, NEW c \in Callers, FindOpenapiConversation(u, c) PROVE FALSE
  BY <1>1, <1>2, <1>4 DEF FindOpenapiConversation
<1>5. ASSUME NEW u \in Exchanges, NEW c \in Callers, LazyChat(u, c) PROVE FALSE
  <2>1. pointer[c] # 0 => Open(u, c, pointer[c]) /\ c \in Lazy
    BY <1>5 DEF LazyChat
  <2>2. pointer[c] = 0 => Goes(u, "new", [exchange[u] EXCEPT !.at = "missing", !.caller = c])
    BY <1>5 DEF LazyChat
  <2> QED BY <1>1, <1>2, <2>1, <2>2, GoesFrom
<1>6. ASSUME NEW u \in Exchanges, LazyCreate(u) PROVE FALSE
  BY <1>6, GoesFrom DEF LazyCreate, Begins
<1>7. ASSUME NEW u \in Exchanges, NEW k, SendMessage(u, k) PROVE FALSE
  BY <1>7, GoesFrom DEF SendMessage
<1>8. ASSUME NEW u \in Exchanges, PrepareFails(u) PROVE FALSE
  <2>1. t = u
    BY <1>8, GoesFrom DEF PrepareFails
  <2>2. exchange[t] \in TurnRecord
    BY TurnOf
  <2>3. exchange'[t].at = "over"
    BY <1>8, <2>1, <2>2 DEF PrepareFails, Goes, ConvInv, RowsTyped, TurnRecord
  <2> QED BY <2>3
<1>9. ASSUME NEW u \in Exchanges, AgentEnds(u) PROVE FALSE
  BY <1>9, GoesFrom DEF AgentEnds
<1>10. ASSUME NEW u \in Exchanges, save_agent_thoughts(u) PROVE FALSE
  <2>1. ~SaveAnswer(u) /\ ~AskIsNew(u)
    BY GoesFrom DEF SaveAnswer, AskIsNew
  <2>2. ~ReadSummary(u)
    BY GoesFrom DEF ReadSummary
  <2>3. ~WriteSummary(u)
    BY GoesFrom DEF WriteSummary
  <2>4. ~WriteName(u)
    BY GoesFrom DEF WriteName
  <2>5. ~SaveStatus(u)
    BY GoesFrom DEF SaveStatus
  <2>6. ~NoSummary(u)
    BY GoesFrom DEF NoSummary
  <2>7. ~SaveFails(u)
    BY GoesFrom DEF SaveFails
  <2> QED BY <1>10, <2>1, <2>2, <2>3, <2>4, <2>5, <2>6, <2>7 DEF save_agent_thoughts
<1>11. ASSUME UserActs PROVE FALSE
  <2>1. UNCHANGED exchange
    BY <1>11 DEF UserActs, update_conversation, delete_conversation, Changes, delete_message, ClearPointer,
       update_debug_conversation_summary
  <2> QED BY <2>1
<1>12. ASSUME NEW u \in Exchanges, LoadHistory(u) PROVE LoadHistory(t)
  <2>1. t = u
    BY <1>12, GoesFrom DEF LoadHistory
  <2> QED BY <1>12, <2>1
<1>13. ASSUME NEW u \in Exchanges, web_app_chat(u) \/ openapi_chat(u) \/ debug_chat(u) \/ assistant_agent_chat(u)
      PROVE  LoadHistory(t)
  <2>1. ~SendWebAppMessage(u) /\ ~CreateMessage(u)
    BY <1>7 DEF SendWebAppMessage, CreateMessage
  <2> QED BY <1>3, <1>4, <1>5, <1>6, <1>8, <1>12, <1>13, <2>1
          DEF web_app_chat, openapi_chat, debug_chat, assistant_agent_chat, Prepare
<1> QED BY <1>9, <1>10, <1>11, <1>13 DEF ConvNext

\* A turn's history is the latest of what its conversation remembers, in the order of
\* time, within the configured number of messages and the limit of tokens, whatever
\* their sizes are and however those of one second are ordered.
THEOREM HistoriesAreRecent == ConvSpec => HistoryIsRecent
<1> DEFINE Recent ==
       \A t \in Exchanges : exchange[t].at = "opened" /\ exchange'[t].at = "ready" =>
          LET history == exchange'[t].history
              remembered == Rememberable(exchange[t].conversation)
          IN /\ Range(history) \subseteq remembered
             /\ InOrder(history)
             /\ IsInjective(history)
             /\ \A m \in Range(history), n \in remembered \ Range(history) :
                   messages[n].second <= messages[m].second
             /\ Len(history) <= message_limit(t)
             /\ TokensOf(history) <= TokenLimit
<1>1. ASSUME ConversationsInv, [ConvNext]_convVars PROVE [Recent]_convVars
  <2> SUFFICES ASSUME ConvNext, NEW t \in Exchanges, exchange[t].at = "opened", exchange'[t].at = "ready"
               PROVE  IsHistory(exchange'[t].history, exchange[t].conversation, message_limit(t))
    BY <1>1 DEF IsHistory
  <2>1. LoadHistory(t)
    BY <1>1, ReadyByLoading DEF ConversationsInv
  <2> QED BY <1>1, <2>1, LoadHistoryEnters DEF ConversationsInv
<1> QED BY <1>1, ConversationsHold, PTL DEF ConvSpec, HistoryIsRecent

-----------------------------------------------------------------------------
(***************************************************************************)
(* CallBilling, for any catalogue, kinds of calls and bound on the tokens. *)
(***************************************************************************)
TierRow == [limit : Nat \union {Unknown}, input : Nat, output : Nat, cache : Nat \union {Unknown}]

Tongues == {pricing.currency : pricing \in Pricings}

UsageRow == [complete : BOOLEAN, tokens : Nat, currency : Tongues \union {Unknown}, price : Int \union {Unknown}]

\* A price is in a currency.
Priceable(usage) == usage \in UsageRow /\ (usage.price # Unknown => usage.currency # Unknown)

BillInv ==
    /\ calls \in Seq(UsageRow)
    /\ \A i \in 1 .. Len(calls) : calls[i].price # Unknown => calls[i].currency # Unknown
    /\ \A i \in DOMAIN call : Priceable(call[i].usage) /\ bill = << >>
    /\ BillIsWholeOrOpen
    /\ PriceIsCertain

LEMMA PricingTyped ==
    ASSUME NEW pricing \in Pricings
    PROVE  /\ pricing.currency # Unknown /\ pricing.currency \in Tongues
           /\ pricing.tiers \in Seq(TierRow)
           /\ DOMAIN pricing.tiers = 1 .. Len(pricing.tiers)
           /\ \A i, j \in 1 .. Len(pricing.tiers) : i < j =>
                /\ pricing.tiers[i].limit # Unknown
                /\ pricing.tiers[j].limit # Unknown => pricing.tiers[i].limit < pricing.tiers[j].limit
           /\ \A i \in 1 .. Len(pricing.tiers) :
                /\ pricing.tiers[i] \in TierRow
                /\ pricing.tiers[i].input % 2 = 0 /\ pricing.tiers[i].output % 2 = 0
                /\ pricing.tiers[i].cache # Unknown => pricing.tiers[i].cache % 2 = 0
<1>1. /\ pricing.currency # Unknown /\ pricing.currency \in Tongues /\ pricing.tiers \in Seq(TierRow)
  BY BillingAssumption DEF Tongues, TierRow
<1>2. DOMAIN pricing.tiers = 1 .. Len(pricing.tiers) /\ \A i \in 1 .. Len(pricing.tiers) : pricing.tiers[i] \in TierRow
  BY <1>1
<1>3. \A i, j \in DOMAIN pricing.tiers : i < j =>
                /\ pricing.tiers[i].limit # Unknown
                /\ pricing.tiers[j].limit # Unknown => pricing.tiers[i].limit < pricing.tiers[j].limit
  BY BillingAssumption
<1>4. \A i \in DOMAIN pricing.tiers : /\ pricing.tiers[i].input % 2 = 0 /\ pricing.tiers[i].output % 2 = 0
                                      /\ pricing.tiers[i].cache # Unknown => pricing.tiers[i].cache % 2 = 0
  BY BillingAssumption
<1> QED BY <1>1, <1>2, <1>3, <1>4

WithinTier(pricing, n, i) == pricing.tiers[i].limit = Unknown \/ n <= pricing.tiers[i].limit

\* The tier that is found is the narrowest that fits.
LEMMA TierIsNarrowest ==
    ASSUME NEW pricing \in Pricings, NEW n \in Nat, NEW tier \in Tier(pricing, n)
    PROVE  /\ Tier(pricing, n) = {tier}
           /\ \E i \in 1 .. Len(pricing.tiers) : tier = pricing.tiers[i]
           /\ tier = CHOOSE t \in {s \in {pricing.tiers[j] : j \in DOMAIN pricing.tiers} :
                                     s.limit = Unknown \/ n <= s.limit} :
                        \A u \in {s \in {pricing.tiers[j] : j \in DOMAIN pricing.tiers} :
                                     s.limit = Unknown \/ n <= s.limit} :
                            u.limit = Unknown \/ (t.limit # Unknown /\ t.limit <= u.limit)
<1> DEFINE tiers == pricing.tiers
           wide == {i \in 1 .. Len(tiers) : WithinTier(pricing, n, i)}
           fitting == {t \in {tiers[j] : j \in DOMAIN tiers} : t.limit = Unknown \/ n <= t.limit}
           Narrow(t) == \A u \in fitting : u.limit = Unknown \/ (t.limit # Unknown /\ t.limit <= u.limit)
<1>1. /\ DOMAIN tiers = 1 .. Len(tiers) /\ Len(tiers) \in Nat
      /\ \A i, j \in 1 .. Len(tiers) : i < j =>
                /\ tiers[i].limit # Unknown
                /\ tiers[j].limit # Unknown => tiers[i].limit < tiers[j].limit
      /\ \A i \in 1 .. Len(tiers) : tiers[i].limit \in Nat \union {Unknown}
  <2>1. /\ DOMAIN tiers = 1 .. Len(tiers) /\ tiers \in Seq(TierRow)
        /\ \A i, j \in 1 .. Len(tiers) : i < j =>
                /\ tiers[i].limit # Unknown
                /\ tiers[j].limit # Unknown => tiers[i].limit < tiers[j].limit
    BY PricingTyped
  <2>2. \A i \in 1 .. Len(tiers) : tiers[i] \in TierRow
    BY <2>1
  <2>3. \A i \in 1 .. Len(tiers) : tiers[i].limit \in Nat \union {Unknown}
    BY <2>2 DEF TierRow
  <2>4. Len(tiers) \in Nat
    BY <2>1
  <2> QED BY <2>1, <2>3, <2>4
<1>2. Tier(pricing, n) = {tiers[i] : i \in {j \in wide : \A k \in wide : j <= k}}
  BY <1>1 DEF Tier, WithinTier
<1>3. PICK i \in wide : tier = tiers[i] /\ \A k \in wide : i <= k
  BY <1>2
<1>4. Tier(pricing, n) = {tier}
  <2>1. \A j \in wide : (\A k \in wide : j <= k) => j = i
    BY <1>3
  <2> QED BY <1>2, <1>3, <2>1
<1>5. fitting = {tiers[j] : j \in wide}
  BY <1>1 DEF WithinTier
<1>6. ASSUME NEW j \in wide, j # i PROVE i < j
  BY <1>3, <1>6
<1> HIDE DEF wide, fitting
<1>7. tier \in fitting /\ Narrow(tier)
  <2>1. tier \in fitting
    BY <1>3, <1>5
  <2>2. ASSUME NEW j \in wide PROVE tiers[j].limit = Unknown \/ (tier.limit # Unknown /\ tier.limit <= tiers[j].limit)
    <3>1. i \in 1 .. Len(tiers) /\ j \in 1 .. Len(tiers)
      BY DEF wide
    <3>2. CASE i = j
      BY <1>1, <1>3, <3>1, <3>2
    <3>3. CASE i # j
      BY <1>1, <1>3, <1>6, <3>1, <3>3
    <3> QED BY <3>2, <3>3
  <2> QED BY <1>5, <2>1, <2>2
<1>8. ASSUME NEW t \in fitting, Narrow(t) PROVE t = tier
  <2>1. PICK j \in wide : t = tiers[j]
    BY <1>5
  <2>2. i \in 1 .. Len(tiers) /\ j \in 1 .. Len(tiers)
    BY DEF wide
  <2>3. tier.limit = Unknown \/ (t.limit # Unknown /\ t.limit <= tier.limit)
    BY <1>7, <1>8
  <2>4. CASE j # i
    BY <1>1, <1>3, <1>6, <2>1, <2>2, <2>3, <2>4
  <2> QED BY <1>3, <2>1, <2>4
<1>9. tier = CHOOSE t \in fitting : Narrow(t)
  <2> HIDE DEF Narrow
  <2> QED BY <1>7, <1>8
<1> QED BY <1>3, <1>4, <1>9 DEF fitting, wide

LEMMA EvenProduct ==
    ASSUME NEW a \in Int, NEW p \in Nat, p % 2 = 0
    PROVE  \E h \in Int : a * p = 2 * h
<1>1. PICK x \in Int : p = 2 * x
  <2>1. p = 2 * (p \div 2)
    OBVIOUS
  <2> QED BY <2>1
<1>2. a * x \in Int /\ a * p = 2 * (a * x)
  BY <1>1
<1> QED BY <1>2

LEMMA HalfOfEven ==
    ASSUME NEW x \in Int, NEW y \in Int, NEW z \in Int
    PROVE  2 * ((2 * x + 2 * y + 2 * z) \div 2) = 2 * x + 2 * y + 2 * z
OBVIOUS

LEMMA Regrouped ==
    ASSUME NEW x \in Int, NEW y \in Int, NEW z \in Int PROVE x + y + z = x + z + y
OBVIOUS

LEMMA ProductsTyped ==
    ASSUME NEW a \in Int, NEW b \in Int PROVE a * b \in Int
OBVIOUS

\* What may be known of a report.
ReportTyped(report) ==
    /\ report.input \in Nat \union {Unknown} /\ report.output \in Nat \union {Unknown}
    /\ report.total \in Nat \union {Unknown} /\ report.cache \in Nat \union {Unknown}

\* The price of a call, of which everything is known that it depends on.
LEMMA PriceOf ==
    ASSUME NEW report, ReportTyped(report), report.input # Unknown, report.output # Unknown,
           report.cache # Unknown => report.cache <= report.input,
           NEW tier \in TierRow, tier.input % 2 = 0, tier.output % 2 = 0, tier.cache # Unknown => tier.cache % 2 = 0,
           NEW peak \in BOOLEAN
    PROVE  /\ Price(tier, report, peak) \in Int
           /\ ~NeedsCache(tier, report) =>
                \A cached \in IF report.cache = Unknown THEN 0 .. report.input ELSE {report.cache} :
                   (IF peak THEN 1 ELSE 2) * Price(tier, report, peak) =
                     (report.input - cached) * tier.input + report.output * tier.output
                     + cached * (IF tier.cache = Unknown THEN tier.input ELSE tier.cache)
<1> DEFINE known == IF report.cache = Unknown THEN 0 ELSE report.cache
           rate == CacheRate(tier)
           full == (report.input - known) * tier.input + known * rate + report.output * tier.output
<1>1. /\ report.input \in Nat /\ report.output \in Nat /\ known \in Nat
      /\ tier.input \in Nat /\ tier.output \in Nat /\ rate \in Nat
      /\ rate % 2 = 0 /\ rate = IF tier.cache = Unknown THEN tier.input ELSE tier.cache
  BY DEF ReportTyped, TierRow, CacheRate
<1>2. Price(tier, report, peak) = IF peak THEN full ELSE full \div 2
  BY DEF Price
<1>3. 2 * (full \div 2) = full
  <2> DEFINE a == report.input - known
             c == report.output
             p == tier.input
             r == tier.output
  <2>1. a \in Int /\ known \in Int /\ c \in Int /\ p \in Nat /\ rate \in Nat /\ r \in Nat
    BY <1>1
  <2>2. p % 2 = 0 /\ rate % 2 = 0 /\ r % 2 = 0
    BY <1>1
  <2>3. full = a * p + known * rate + c * r
    OBVIOUS
  <2> HIDE DEF full, known, rate, a, c, p, r
  <2>4. 2 * ((a * p + known * rate + c * r) \div 2) = a * p + known * rate + c * r
    <3>1. PICK x \in Int : a * p = 2 * x
      BY <2>1, <2>2, EvenProduct
    <3>2. PICK y \in Int : known * rate = 2 * y
      BY <2>1, <2>2, EvenProduct
    <3>3. PICK z \in Int : c * r = 2 * z
      BY <2>1, <2>2, EvenProduct
    <3>4. 2 * ((2 * x + 2 * y + 2 * z) \div 2) = 2 * x + 2 * y + 2 * z
      BY HalfOfEven
    <3> DEFINE ap == a * p
               kr == known * rate
               cr == c * r
    <3>5. ap = 2 * x /\ kr = 2 * y /\ cr = 2 * z
      BY <3>1, <3>2, <3>3
    <3> HIDE DEF ap, kr, cr
    <3>6. 2 * ((ap + kr + cr) \div 2) = ap + kr + cr
      BY <3>4, <3>5
    <3> QED BY <3>6 DEF ap, kr, cr
  <2> QED BY <2>3, <2>4
<1>4. full \in Int /\ full \div 2 \in Int
  <2> HIDE DEF known, rate
  <2>1. full \in Int
    BY <1>1
  <2> HIDE DEF full
  <2> QED BY <2>1
<1>5. (IF peak THEN 1 ELSE 2) * Price(tier, report, peak) = full
  <2> HIDE DEF full
  <2> QED BY <1>2, <1>3, <1>4
<1>6. ASSUME ~NeedsCache(tier, report),
             NEW cached \in IF report.cache = Unknown THEN 0 .. report.input ELSE {report.cache}
      PROVE  full = (report.input - cached) * tier.input + report.output * tier.output + cached * rate
  <2>0. /\ (report.input - cached) * tier.input \in Int /\ cached * rate \in Int
        /\ report.output * tier.output \in Int /\ cached \in Int
    <3>1. cached \in Int /\ report.input \in Int /\ report.output \in Int /\ tier.input \in Int
          /\ tier.output \in Int /\ rate \in Int
      BY <1>1, <1>6
    <3>2. report.input - cached \in Int
      BY <3>1
    <3> QED BY <3>1, <3>2, ProductsTyped, Zenon
  <2>1. CASE report.cache # Unknown
    <3>1. cached = known
      BY <1>6, <2>1
    <3>2. full = (report.input - cached) * tier.input + cached * rate + report.output * tier.output
      BY <3>1
    <3> QED BY <3>2, <2>0, Regrouped
  <2>2. CASE report.cache = Unknown /\ report.input = 0
    <3>1. cached = known
      BY <1>6, <2>2
    <3>2. full = (report.input - cached) * tier.input + cached * rate + report.output * tier.output
      BY <3>1
    <3> QED BY <3>2, <2>0, Regrouped
  <2>3. CASE report.cache = Unknown /\ rate = tier.input
    <3>1. cached \in Nat /\ known = 0
      BY <1>1, <1>6, <2>3
    <3> HIDE DEF known, rate
    <3>2. full = report.input * tier.input + report.output * tier.output
      BY <1>1, <2>3, <3>1
    <3>3. (report.input - cached) * tier.input + cached * tier.input = report.input * tier.input
      <4> DEFINE a == report.input
                 r == tier.input
      <4>1. a \in Int /\ r \in Int /\ cached \in Int
        BY <1>1, <3>1
      <4> HIDE DEF a, r
      <4>2. (a - cached) * r + cached * r = a * r
        BY <4>1
      <4> QED BY <4>2 DEF a, r
    <3>4. /\ report.input * tier.input \in Int /\ cached * tier.input \in Int
          /\ (report.input - cached) * tier.input \in Int
      BY <2>0, <2>3, <3>1, <1>1
    <3>5. (report.input - cached) * tier.input + report.output * tier.output + cached * tier.input
          = (report.input - cached) * tier.input + cached * tier.input + report.output * tier.output
      BY <2>0, <3>4, Regrouped, Zenon
    <3> QED BY <2>3, <3>2, <3>3, <3>5
  <2>4. rate = tier.input \/ report.cache # Unknown \/ report.input = 0
    BY <1>6 DEF NeedsCache
  <2> QED BY <2>1, <2>2, <2>3, <2>4
<1> HIDE DEF full
<1>7. Price(tier, report, peak) \in Int
  BY <1>2, <1>4
<1> QED BY <1>1, <1>5, <1>6, <1>7

LEMMA ReportsTyped == \A report \in Reports : ReportTyped(report)
BY BillingAssumption DEF Reports, ReportTyped

\* What is collected of a call.
LEMMA CollectedOf ==
    ASSUME NEW report \in Reports, NEW pricing \in Pricings, NEW complete \in BOOLEAN, NEW peak \in BOOLEAN
    PROVE  LET usage == collect_usage(report, pricing, complete, peak)
           IN /\ Priceable(usage)
              /\ usage.price # Unknown =>
                    /\ report.total \in {Unknown, report.input + report.output} /\ ~report.exceeds
                    /\ report.input \in Nat
                    /\ \E tier \in Tier(pricing, report.input) :
                         \A cached \in IF report.cache = Unknown THEN 0 .. report.input ELSE {report.cache} :
                           (IF peak THEN 1 ELSE 2) * usage.price =
                             (report.input - cached) * tier.input + report.output * tier.output
                             + cached * (IF tier.cache = Unknown THEN tier.input ELSE tier.cache)
<1> DEFINE usage == collect_usage(report, pricing, complete, peak)
<1>1. ReportTyped(report) /\ Unknown \notin Nat /\ Unknown \notin Int
  BY ReportsTyped, BillingAssumption
<1>2. pricing.currency # Unknown /\ pricing.currency \in Tongues
  BY PricingTyped
<1>3. CASE ~Stated(report)
  <2>1. usage = [complete |-> FALSE, tokens |-> 0, currency |-> Unknown, price |-> Unknown]
    BY <1>3 DEF collect_usage, Usage
  <2> HIDE DEF usage
  <2> QED BY <2>1 DEF Priceable, UsageRow, usage
<1>4. Stated(report) => TokensOfReport(report) \in Nat /\ report.input \in Nat /\ report.output \in Nat
  BY <1>1 DEF Stated, TokensOfReport, ReportTyped
<1>5. CASE Stated(report) /\ ~(Consistent(report) /\ complete)
  <2>1. usage = [complete |-> FALSE, tokens |-> TokensOfReport(report), currency |-> Unknown, price |-> Unknown]
    BY <1>5 DEF collect_usage, Usage
  <2> HIDE DEF usage
  <2> QED BY <1>4, <1>5, <2>1 DEF Priceable, UsageRow, usage
<1>6. CASE Stated(report) /\ Consistent(report) /\ complete /\ Tier(pricing, report.input) = {}
  <2>1. usage = [complete |-> TRUE, tokens |-> TokensOfReport(report), currency |-> Unknown, price |-> Unknown]
    BY <1>6 DEF collect_usage, Usage
  <2>2. TokensOfReport(report) \in Nat
    BY <1>4, <1>6
  <2> HIDE DEF usage
  <2> QED BY <2>1, <2>2 DEF Priceable, UsageRow, usage
<1>7. CASE Stated(report) /\ Consistent(report) /\ complete /\ Tier(pricing, report.input) # {}
  <2> DEFINE tier == CHOOSE t \in Tier(pricing, report.input) : TRUE
             price == IF NeedsCache(tier, report) THEN Unknown ELSE Price(tier, report, peak)
  <2>1. usage = [complete |-> TRUE, tokens |-> TokensOfReport(report), currency |-> pricing.currency, price |-> price]
    BY <1>7 DEF collect_usage, Usage
  <2>2. tier \in Tier(pricing, report.input)
    BY <1>7
  <2> HIDE DEF tier
  <2>3. PICK i \in 1 .. Len(pricing.tiers) : tier = pricing.tiers[i]
    BY <1>4, <1>7, <2>2, TierIsNarrowest
  <2>4. /\ tier \in TierRow /\ tier.input % 2 = 0 /\ tier.output % 2 = 0
        /\ tier.cache # Unknown => tier.cache % 2 = 0
    BY <2>3, PricingTyped
  <2>5. /\ report.input # Unknown /\ report.output # Unknown
        /\ report.cache # Unknown => report.cache <= report.input
        /\ report.total \in {Unknown, report.input + report.output} /\ ~report.exceeds
    BY <1>7 DEF Stated, Consistent, TokensOfReport
  <2>6. /\ Price(tier, report, peak) \in Int
        /\ ~NeedsCache(tier, report) =>
                \A cached \in IF report.cache = Unknown THEN 0 .. report.input ELSE {report.cache} :
                   (IF peak THEN 1 ELSE 2) * Price(tier, report, peak) =
                     (report.input - cached) * tier.input + report.output * tier.output
                     + cached * (IF tier.cache = Unknown THEN tier.input ELSE tier.cache)
    BY <1>1, <2>4, <2>5, PriceOf
  <2>7. price \in Int \union {Unknown} /\ (price # Unknown => ~NeedsCache(tier, report) /\ price = Price(tier, report, peak))
    BY <2>6
  <2> HIDE DEF usage, price
  <2>8. usage.price = price
    BY <2>1
  <2>9. Priceable(usage)
    BY <1>2, <1>4, <1>7, <2>1, <2>7 DEF Priceable, UsageRow
  <2>10. ASSUME price # Unknown
         PROVE  \A cached \in IF report.cache = Unknown THEN 0 .. report.input ELSE {report.cache} :
                           (IF peak THEN 1 ELSE 2) * usage.price =
                             (report.input - cached) * tier.input + report.output * tier.output
                             + cached * (IF tier.cache = Unknown THEN tier.input ELSE tier.cache)
    <3>1. ~NeedsCache(tier, report) /\ usage.price = Price(tier, report, peak)
      BY <2>7, <2>8, <2>10
    <3> QED BY <2>6, <3>1, Zenon
  <2>11. usage.price # Unknown =>
           \E t \in Tier(pricing, report.input) :
             \A cached \in IF report.cache = Unknown THEN 0 .. report.input ELSE {report.cache} :
               (IF peak THEN 1 ELSE 2) * usage.price =
                 (report.input - cached) * t.input + report.output * t.output
                 + cached * (IF t.cache = Unknown THEN t.input ELSE t.cache)
    BY <2>2, <2>8, <2>10, Zenon
  <2> QED BY <1>4, <1>7, <2>5, <2>9, <2>11, Zenon DEF usage
<1> QED BY <1>3, <1>5, <1>6, <1>7

\* What PriceIsCertain says of one call.
Certain(report, pricing, peak, price) ==
    LET possible == IF report.cache = Unknown THEN 0 .. report.input ELSE {report.cache}
        fitting == {t \in {pricing.tiers[j] : j \in DOMAIN pricing.tiers} :
                       t.limit = Unknown \/ report.input <= t.limit}
        narrowest == CHOOSE t \in fitting :
                        \A u \in fitting : u.limit = Unknown \/ (t.limit # Unknown /\ t.limit <= u.limit)
    IN /\ report.total \in {Unknown, report.input + report.output}
       /\ ~report.exceeds
       /\ \A cached \in possible :
             (IF peak THEN 1 ELSE 2) * price =
                 (report.input - cached) * narrowest.input + report.output * narrowest.output
                 + cached * (IF narrowest.cache = Unknown THEN narrowest.input ELSE narrowest.cache)

LEMMA CertainOf ==
    PriceIsCertain' <=>
        \A i \in DOMAIN call' : call'[i].usage.price # Unknown =>
            Certain(call'[i].report, call'[i].pricing, call'[i].peak, call'[i].usage.price)
BY Zenon DEF PriceIsCertain, Certain

LEMMA CallIsCertain ==
    ASSUME BillInv, CallEnds
    PROVE  PriceIsCertain' /\ \A i \in DOMAIN call' : Priceable(call'[i].usage)
<1>1. PICK report \in Reports, pricing \in Pricings, complete \in BOOLEAN, peak \in BOOLEAN :
          call' = <<[report |-> report, pricing |-> pricing, peak |-> peak,
                     usage |-> collect_usage(report, pricing, complete, peak)]>>
  BY DEF CallEnds
<1> DEFINE usage == collect_usage(report, pricing, complete, peak)
           one == [report |-> report, pricing |-> pricing, peak |-> peak, usage |-> usage]
<1>2. call' = <<one>>
  BY <1>1
<1>3. /\ Priceable(usage)
      /\ usage.price # Unknown =>
                    /\ report.total \in {Unknown, report.input + report.output} /\ ~report.exceeds
                    /\ report.input \in Nat
                    /\ \E tier \in Tier(pricing, report.input) :
                         \A cached \in IF report.cache = Unknown THEN 0 .. report.input ELSE {report.cache} :
                           (IF peak THEN 1 ELSE 2) * usage.price =
                             (report.input - cached) * tier.input + report.output * tier.output
                             + cached * (IF tier.cache = Unknown THEN tier.input ELSE tier.cache)
  BY CollectedOf
<1> HIDE DEF usage
<1>4. one.report = report /\ one.pricing = pricing /\ one.peak = peak /\ one.usage = usage
  OBVIOUS
<1> HIDE DEF one
<1>5. DOMAIN call' = {1} /\ call'[1] = one
  BY <1>2
<1>6. PriceIsCertain'
  <2> SUFFICES ASSUME usage.price # Unknown
               PROVE  Certain(report, pricing, peak, usage.price)
    BY <1>4, <1>5, CertainOf
  <2>1. PICK tier \in Tier(pricing, report.input) :
                         \A cached \in IF report.cache = Unknown THEN 0 .. report.input ELSE {report.cache} :
                           (IF peak THEN 1 ELSE 2) * usage.price =
                             (report.input - cached) * tier.input + report.output * tier.output
                             + cached * (IF tier.cache = Unknown THEN tier.input ELSE tier.cache)
    BY <1>3, Zenon
  <2>2. report.input \in Nat
    BY <1>3
  <2> DEFINE fitting == {t \in {pricing.tiers[j] : j \in DOMAIN pricing.tiers} :
                                  t.limit = Unknown \/ report.input <= t.limit}
             narrowest == CHOOSE t \in fitting :
                                   \A u \in fitting : u.limit = Unknown \/ (t.limit # Unknown /\ t.limit <= u.limit)
  <2>3. tier = narrowest
    BY <2>2, TierIsNarrowest, Zenon
  <2> HIDE DEF narrowest
  <2>4. \A cached \in IF report.cache = Unknown THEN 0 .. report.input ELSE {report.cache} :
                        (IF peak THEN 1 ELSE 2) * usage.price =
                            (report.input - cached) * narrowest.input + report.output * narrowest.output
                            + cached * (IF narrowest.cache = Unknown THEN narrowest.input ELSE narrowest.cache)
    BY <2>1, <2>3, Zenon
  <2> QED BY <1>3, <2>4, Zenon DEF narrowest, Certain
<1> QED BY <1>3, <1>4, <1>5, <1>6

LEMMA UsageIsMerged ==
    ASSUME BillInv, UsageMerged
    PROVE  /\ calls' \in Seq(UsageRow) /\ call' = << >> /\ bill' = << >>
           /\ \A i \in 1 .. Len(calls') : calls'[i].price # Unknown => calls'[i].currency # Unknown
<1>1. PICK n \in DOMAIN call : calls' = Append(calls, call[n].usage)
  BY DEF UsageMerged
<1>2. Priceable(call[n].usage) /\ call' = << >> /\ bill' = << >>
  BY <1>1 DEF BillInv, UsageMerged
<1>3. PICK usage \in UsageRow : usage = call[n].usage /\ (usage.price # Unknown => usage.currency # Unknown)
  BY <1>2 DEF Priceable
<1>4. calls \in Seq(UsageRow) /\ Len(calls) \in Nat
  BY DEF BillInv
<1>5. /\ calls' \in Seq(UsageRow) /\ Len(calls') = Len(calls) + 1 /\ calls'[Len(calls) + 1] = usage
      /\ \A i \in 1 .. Len(calls) : calls'[i] = calls[i]
  BY <1>1, <1>3, <1>4
<1>6. ASSUME NEW i \in 1 .. Len(calls') PROVE calls'[i].price # Unknown => calls'[i].currency # Unknown
  <2>1. CASE i = Len(calls) + 1
    BY <1>3, <1>5, <2>1
  <2>2. CASE i # Len(calls) + 1
    <3>1. i \in 1 .. Len(calls)
      BY <1>4, <1>5, <2>2
    <3> QED BY <1>5, <3>1 DEF BillInv
  <2> QED BY <2>1, <2>2
<1> QED BY <1>2, <1>5, <1>6

\* What the calls of some rows with a set of indices cost.
CostsOf(table, set) == Total(LAMBDA i : table[i].price, set)
Costs(set) == CostsOf(calls, set)

LEMMA KnownCosts ==
    ASSUME NEW c
    PROVE  known_costs(c) = Costs({i \in DOMAIN calls : calls[i].price # Unknown /\ calls[i].currency = c})
BY DEF known_costs, Costs, CostsOf, Total, MapThenSumSet, MapThenFoldSet

\* What BillIsWholeOrOpen says of one bill.
WholeOrOpen(one, table) ==
    LET prices == {j \in DOMAIN table : table[j].price # Unknown}
    IN /\ one.summary.total_price # Unknown =>
             /\ ~one.summary.interrupted
             /\ prices = DOMAIN table
             /\ \A j, k \in prices : table[j].currency = table[k].currency
             /\ one.summary.total_price = CostsOf(table, prices)
       /\ one.column # 0 =>
             /\ one.column = CostsOf(table, prices)
             /\ \A j, k \in prices : table[j].currency = table[k].currency

LEMMA WholeOf == BillIsWholeOrOpen <=> \A i \in DOMAIN bill : WholeOrOpen(bill[i], calls)
BY DEF BillIsWholeOrOpen, WholeOrOpen, CostsOf, Total, MapThenSumSet, MapThenFoldSet

LEMMA WholeThen == BillIsWholeOrOpen' <=> \A i \in DOMAIN bill' : WholeOrOpen(bill'[i], calls')
BY DEF BillIsWholeOrOpen, WholeOrOpen, CostsOf, Total, MapThenSumSet, MapThenFoldSet

LEMMA OneCurrency ==
    ASSUME BillInv
    PROVE  /\ Cardinality(Currencies) = 1 => Currencies = {Currency} /\ Currency # Unknown
           /\ Cardinality(Currencies) # 1 => Currency = Unknown
           /\ Cardinality(Currencies) <= 1 => Cardinality(Currencies) = 1 \/ Currencies = {}
<1> DEFINE all == {calls[i].currency : i \in DOMAIN calls}
<1>1. IsFiniteSet(all)
  <2>1. IsFiniteSet(1 .. Len(calls)) /\ DOMAIN calls = 1 .. Len(calls)
    BY FS_Interval DEF BillInv
  <2> DEFINE f == [i \in DOMAIN calls |-> calls[i].currency]
  <2>2. f \in Surjection(DOMAIN calls, all)
    BY DEF Surjection
  <2> HIDE DEF f, all
  <2> QED BY <2>1, <2>2, FS_Surjection
<1>2. IsFiniteSet(Currencies)
  BY <1>1, FS_Subset DEF Currencies
<1>3. Cardinality(Currencies) \in Nat
  BY <1>2, FS_CardinalityType
<1>4. Cardinality(Currencies) = 0 => Currencies = {}
  BY <1>2, FS_EmptySet
<1>5. ASSUME Cardinality(Currencies) = 1 PROVE Currencies = {Currency} /\ Currency # Unknown
  <2>1. PICK c : Currencies = {c}
    BY <1>2, <1>5, FS_Singleton
  <2>2. Currency = CHOOSE x \in Currencies : TRUE
    BY <1>5 DEF Currency
  <2>3. Currency \in Currencies
    BY <2>1, <2>2
  <2> QED BY <2>1, <2>3 DEF Currencies
<1> QED BY <1>3, <1>4, <1>5 DEF Currency

\* The only currency there is prices every call that has a price.
LEMMA AllInOne ==
    ASSUME BillInv, Cardinality(Currencies) = 1 \/ Currencies = {}
    PROVE  /\ known_costs(Currency) = Costs({j \in DOMAIN calls : calls[j].price # Unknown})
           /\ \A j, k \in {j \in DOMAIN calls : calls[j].price # Unknown} : calls[j].currency = calls[k].currency
<1> DEFINE prices == {j \in DOMAIN calls : calls[j].price # Unknown}
<1>1. \A j \in prices : calls[j].currency # Unknown /\ calls[j].currency \in Currencies
  BY DEF BillInv, Currencies
<1>2. \A j \in prices : calls[j].currency = Currency
  BY <1>1, OneCurrency
<1>3. prices = {i \in DOMAIN calls : calls[i].price # Unknown /\ calls[i].currency = Currency}
  BY <1>2
<1> HIDE DEF prices
<1>4. known_costs(Currency) = Costs(prices)
  BY <1>3, KnownCosts
<1> QED BY <1>2, <1>4 DEF prices

LEMMA BillOf ==
    ASSUME BillInv, TurnEnds
    PROVE  BillIsWholeOrOpen'
<1>1. PICK interrupted \in BOOLEAN :
         bill' = <<[summary |-> summarize_usage(interrupted), column |-> summary_fields(summarize_usage(interrupted))]>>
  BY DEF TurnEnds
<1> DEFINE s == summarize_usage(interrupted)
           column == summary_fields(s)
           prices == {j \in DOMAIN calls : calls[j].price # Unknown}
<1>2. s.interrupted = interrupted
      /\ s.total_price = IF PriceComplete(interrupted) /\ Cardinality(Currencies) <= 1
                         THEN known_costs(Currency) ELSE Unknown
  BY DEF summarize_usage
<1>3. column = IF s.total_price # Unknown THEN s.total_price
               ELSE IF Currency # Unknown THEN known_costs(Currency) ELSE 0
  BY DEF summary_fields
<1> HIDE DEF s
<1>4. ASSUME s.total_price # Unknown
      PROVE  /\ ~interrupted /\ prices = DOMAIN calls /\ s.total_price = Costs(prices)
             /\ \A j, k \in prices : calls[j].currency = calls[k].currency
  <2>1. PriceComplete(interrupted) /\ Cardinality(Currencies) <= 1 /\ s.total_price = known_costs(Currency)
    BY <1>2, <1>4
  <2>2. ~interrupted /\ prices = DOMAIN calls
    BY <2>1 DEF PriceComplete
  <2>3. Cardinality(Currencies) = 1 \/ Currencies = {}
    BY <2>1, OneCurrency
  <2> QED BY <2>1, <2>2, <2>3, AllInOne
<1>5. ASSUME column # 0
      PROVE  /\ column = Costs(prices)
             /\ \A j, k \in prices : calls[j].currency = calls[k].currency
  <2>1. CASE s.total_price # Unknown
    BY <1>3, <1>4, <2>1
  <2>2. CASE s.total_price = Unknown
    <3>1. Currency # Unknown /\ column = known_costs(Currency)
      BY <1>3, <1>5, <2>2
    <3>2. Cardinality(Currencies) = 1
      BY <3>1, OneCurrency
    <3> QED BY <3>1, <3>2, AllInOne
  <2> QED BY <2>1, <2>2
<1> DEFINE one == [summary |-> s, column |-> column]
<1>6. bill' = <<one>>
  BY <1>1 DEF s
<1> HIDE DEF column
<1>7. one.summary = s /\ one.column = column
  OBVIOUS
<1> HIDE DEF one
<1>8. DOMAIN bill' = {1} /\ bill'[1] = one
  BY <1>6
<1>9. calls' = calls
  BY DEF TurnEnds
<1>10. WholeOrOpen(one, calls)
  BY <1>2, <1>4, <1>5, <1>7 DEF WholeOrOpen, Costs
<1> QED BY <1>8, <1>9, <1>10, WholeThen

LEMMA BillInitially == BillInit => BillInv
BY DEF BillInit, BillInv, BillIsWholeOrOpen, PriceIsCertain

LEMMA BillStep == BillInv /\ [BillNext]_billVars => BillInv'
<1> SUFFICES ASSUME BillInv, [BillNext]_billVars PROVE BillInv'
  OBVIOUS
<1>1. CASE CallEnds
  <2>1. bill' = << >> /\ calls' = calls
    BY <1>1 DEF CallEnds
  <2>2. BillIsWholeOrOpen'
    BY <2>1 DEF BillIsWholeOrOpen
  <2> QED BY <1>1, <2>1, <2>2, CallIsCertain DEF BillInv
<1>2. CASE UsageMerged
  <2>1. BillIsWholeOrOpen' /\ PriceIsCertain'
    BY <1>2, UsageIsMerged DEF BillIsWholeOrOpen, PriceIsCertain
  <2> QED BY <1>2, <2>1, UsageIsMerged DEF BillInv
<1>3. CASE TurnEnds
  <2>1. call' = << >> /\ calls' = calls
    BY <1>3 DEF TurnEnds
  <2>2. PriceIsCertain'
    BY <2>1 DEF PriceIsCertain
  <2> QED BY <1>3, <2>1, <2>2, BillOf DEF BillInv
<1>4. CASE UNCHANGED billVars
  <2>1. call' = call /\ calls' = calls /\ bill' = bill
    BY <1>4 DEF billVars
  <2>2. BillIsWholeOrOpen' /\ PriceIsCertain'
    BY <2>1, WholeOf, WholeThen DEF BillInv, PriceIsCertain
  <2> QED BY <2>1, <2>2 DEF BillInv
<1> QED BY <1>1, <1>2, <1>3, <1>4 DEF BillNext

\* A price is stated only where it is certain, for any catalogue whose tiers go from
\* the narrowest to the widest and any report: what a provider does not say cannot
\* change it.
THEOREM PricesAreCertain == BillSpec => []PriceIsCertain
<1>1. BillInv => PriceIsCertain
  BY DEF BillInv
<1> QED BY <1>1, BillInitially, BillStep, PTL DEF BillSpec

\* A bill has a total only if it is the whole turn's, and no column adds two currencies,
\* for any number of calls.
THEOREM BillsAreWholeOrOpen == BillSpec => []BillIsWholeOrOpen
<1>1. BillInv => BillIsWholeOrOpen
  BY DEF BillInv
<1> QED BY <1>1, BillInitially, BillStep, PTL DEF BillSpec

-----------------------------------------------------------------------------
(***************************************************************************)
(* MessagePages, for any size of the pages and any bounds.                 *)
(***************************************************************************)
\* A list of a set's elements, each once, from the newest second to the oldest.
NewestFirst(order, S) ==
    /\ order \in Seq(S)
    /\ \A m \in S : \E i \in 1 .. Len(order) : order[i] = m
    /\ \A i, j \in 1 .. Len(order) : order[i] = order[j] => i = j
    /\ \A i, j \in 1 .. Len(order) : i < j => posts[order[j]].second <= posts[order[i]].second

LEMMA OrderedIsNewest ==
    ASSUME posts \in Seq(Post), NEW cursor, NEW order \in Ordered(cursor)
    PROVE  NewestFirst(order, Filtered(cursor))
<1> DEFINE S == Filtered(cursor)
           n == Cardinality(S)
<1>1. IsFiniteSet(S) /\ n \in Nat
  <2>1. IsFiniteSet(1 .. Len(posts))
    BY FS_Interval
  <2>2. S \subseteq 1 .. Len(posts)
    BY DEF Filtered
  <2>3. IsFiniteSet(S)
    BY <2>1, <2>2, FS_Subset
  <2> QED BY <2>3, FS_CardinalityType
<1> HIDE DEF S, n
<1>2. /\ order \in [1 .. n -> S]
      /\ \A i, j \in 1 .. n : i # j => order[i] # order[j]
      /\ \A i, j \in DOMAIN order : i < j => posts[order[j]].second <= posts[order[i]].second
  BY DEF Ordered, SetToSeqs, S, n
<1>3. order \in Surjection(1 .. n, S)
  <2>1. order \in Injection(1 .. n, S)
    BY <1>2 DEF Injection, IsInjective
  <2>2. Cardinality(1 .. n) = n
    BY <1>1, FS_Interval
  <2> QED BY <1>1, <2>1, <2>2, FS_Injection DEF n
<1>4. order \in Seq(S) /\ Len(order) = n
  BY <1>1, <1>2
<1>5. \A m \in S : \E i \in 1 .. n : order[i] = m
  BY <1>3 DEF Surjection
<1> QED BY <1>2, <1>4, <1>5 DEF NewestFirst, S

\* Of messages of different seconds there is one such list.
SecondsDiffer(S) == \A m, n \in S : posts[m].second = posts[n].second => m = n

Same(one, other) == Len(one) = Len(other) /\ \A i \in 1 .. Len(one) : one[i] = other[i]

LEMMA OneOrder ==
    ASSUME posts \in Seq(Post), NEW S, S \subseteq DOMAIN posts, SecondsDiffer(S),
           NEW one, NEW other, NewestFirst(one, S), NewestFirst(other, S)
    PROVE  Same(one, other)
<1>0. \A m \in S : posts[m].second \in Nat
  <2>1. \A m \in DOMAIN posts : posts[m] \in Post
    OBVIOUS
  <2>2. \A p \in Post : p.second \in Nat
    BY DEF Post
  <2> QED BY <2>1, <2>2
<1>1. ASSUME NEW a, NEW b, NewestFirst(a, S), NewestFirst(b, S)
      PROVE  \A i \in 1 .. Len(a) : i \in 1 .. Len(b) /\ a[i] = b[i]
  <2>1. /\ Len(a) \in Nat /\ Len(b) \in Nat
        /\ \A i \in 1 .. Len(a) : a[i] \in S
        /\ \A i \in 1 .. Len(b) : b[i] \in S
    BY <1>1 DEF NewestFirst
  <2>2. /\ \A i, j \in 1 .. Len(a) : a[i] = a[j] => i = j
        /\ \A i, j \in 1 .. Len(b) : b[i] = b[j] => i = j
        /\ \A i, j \in 1 .. Len(a) : i < j => posts[a[j]].second <= posts[a[i]].second
        /\ \A i, j \in 1 .. Len(b) : i < j => posts[b[j]].second <= posts[b[i]].second
        /\ \A m \in S : \E i \in 1 .. Len(a) : a[i] = m
        /\ \A m \in S : \E i \in 1 .. Len(b) : b[i] = m
    BY <1>1 DEF NewestFirst
  <2> DEFINE T == {i \in 1 .. Len(a) : ~(i \in 1 .. Len(b) /\ a[i] = b[i])}
  <2> SUFFICES ASSUME T # {} PROVE FALSE
    OBVIOUS
  <2>3. PICK i \in T : \A j \in T : i <= j
    <3>1. T \subseteq Nat
      OBVIOUS
    <3> HIDE DEF T
    <3> QED BY <3>1, LeastOf
  <2>4. \A j \in 1 .. Len(a) : j < i => j \in 1 .. Len(b) /\ a[j] = b[j]
    BY <2>1, <2>3
  <2>5. i \in 1 .. Len(a)
    OBVIOUS
  <2>6. PICK j \in 1 .. Len(b) : b[j] = a[i]
    BY <2>1, <2>2, <2>5
  <2>7. ~(j < i)
    <3> SUFFICES ASSUME j < i PROVE FALSE
      OBVIOUS
    <3>1. j \in 1 .. Len(a)
      BY <2>1, <2>5
    <3>2. a[j] = b[j]
      BY <2>4, <3>1
    <3> QED BY <2>2, <2>5, <2>6, <3>1, <3>2
  <2>8. i \in 1 .. Len(b) /\ i < j
    <3>1. i # j
      BY <2>3, <2>5, <2>6
    <3> QED BY <2>1, <2>5, <2>6, <2>7, <3>1
  <2>9. posts[a[i]].second <= posts[b[i]].second
    BY <2>2, <2>6, <2>8
  <2>10. PICK k \in 1 .. Len(a) : a[k] = b[i]
    BY <2>1, <2>2, <2>8
  <2>11. ~(k < i)
    <3> SUFFICES ASSUME k < i PROVE FALSE
      OBVIOUS
    <3>1. k \in 1 .. Len(b) /\ a[k] = b[k]
      BY <2>4
    <3> QED BY <2>2, <2>8, <2>10, <3>1
  <2>12. k # i
    BY <2>3, <2>8, <2>10
  <2>13. posts[b[i]].second <= posts[a[i]].second
    <3>1. i < k
      BY <2>1, <2>5, <2>11, <2>12
    <3> QED BY <2>2, <2>5, <2>10, <3>1
  <2>14. a[i] = b[i]
    <3>1. a[i] \in S /\ b[i] \in S
      BY <2>1, <2>5, <2>8
    <3>2. posts[a[i]].second = posts[b[i]].second
      BY <1>0, <2>9, <2>13, <3>1
    <3> QED BY <3>1, <3>2 DEF SecondsDiffer
  <2> QED BY <2>3, <2>8, <2>14
<1>2. \A i \in 1 .. Len(one) : i \in 1 .. Len(other) /\ one[i] = other[i]
  BY <1>1
<1>3. \A i \in 1 .. Len(other) : i \in 1 .. Len(one)
  BY <1>1
<1>4. Len(one) \in Nat /\ Len(other) \in Nat
  BY DEF NewestFirst
<1>5. Len(one) = Len(other)
  <2>1. Len(one) <= Len(other)
    <3>1. Len(one) = 0 \/ Len(one) \in 1 .. Len(one)
      BY <1>4
    <3> QED BY <1>2, <1>4, <3>1
  <2>2. Len(other) <= Len(one)
    <3>1. Len(other) = 0 \/ Len(other) \in 1 .. Len(other)
      BY <1>4
    <3> QED BY <1>3, <1>4, <3>1
  <2> QED BY <1>4, <2>1, <2>2
<1> QED BY <1>2, <1>5 DEF Same

-----------------------------------------------------------------------------
\* What is shown after some pages of a list.
IsBeginning(order, shown, page) ==
    /\ Len(shown) = IF page * PageSize < Len(order) THEN page * PageSize ELSE Len(order)
    /\ \A i \in 1 .. Len(shown) : shown[i] = order[i]

\* Where the walk has come in a list of all there is.
Shows(order) ==
    /\ NewestFirst(order, view.base)
    /\ IsBeginning(order, view.shown, view.page)
    /\ view.at = "reading" <=> view.page * PageSize < Len(order)

PagesInv ==
    /\ PagesTypeOK
    /\ view.shown \in Seq(DOMAIN posts)
    /\ view.at = "new" => view.shown = << >> /\ view.page = 0
    /\ view.at # "new" => view.base \subseteq DOMAIN posts
    /\ view.at # "new" /\ view.client = "keeps" /\ ~view.disturbed /\ OneASecond => \E order : Shows(order)

LEMMA PagesInitially == PagesInit => PagesInv
<1> SUFFICES ASSUME PagesInit PROVE PagesInv
  OBVIOUS
<1>1. PICK n \in 0 .. MaxPosts : \E unanswered \in SUBSET (1 .. n) :
          posts = [m \in 1 .. n |->
                      [second |-> m, at |-> IF m \in unanswered THEN "unanswered" ELSE "listed"]]
  BY DEF PagesInit
<1>2. n \in Nat
  BY PagesAssumption
<1>3. posts \in Seq(Post)
  <2>1. posts \in [1 .. n -> Post]
    BY <1>1, <1>2 DEF Post
  <2> QED BY <1>2, <2>1
<1>4. clock \in Nat
  BY <1>3 DEF PagesInit
<1>5. view \in View /\ view.at = "new" /\ view.shown = << >> /\ view.page = 0
  <2>1. /\ {0} \subseteq Nat /\ {<< >>} \subseteq Seq(Nat) /\ {{}} \subseteq SUBSET Nat
        /\ {FALSE} \subseteq BOOLEAN /\ {"new"} \subseteq {"new", "reading", "over"}
    OBVIOUS
  <2>2. view \in [at : {"new"}, client : {"keeps", "panel"},
                 kind : {"web_app", "debugger", "assistant_agent"}, page : {0}, cursor : {0},
                 shown : {<< >>}, base : {{}}, disturbed : {FALSE}]
    BY DEF PagesInit
  <2>3. /\ view = [at |-> view.at, client |-> view.client, kind |-> view.kind, page |-> view.page,
                   cursor |-> view.cursor, shown |-> view.shown, base |-> view.base,
                   disturbed |-> view.disturbed]
        /\ view.client \in {"keeps", "panel"} /\ view.kind \in {"web_app", "debugger", "assistant_agent"}
        /\ view.at = "new" /\ view.page = 0 /\ view.cursor = 0 /\ view.shown = << >>
        /\ view.base = {} /\ view.disturbed = FALSE
    BY <2>2
  <2> QED BY <2>1, <2>3 DEF View
<1>6. view.shown \in Seq(DOMAIN posts)
  BY <1>5
<1> QED BY <1>3, <1>4, <1>5, <1>6 DEF PagesInv, PagesTypeOK

\* What goes on in the conversation moves no message to another second.
LEMMA ConversationGoesOn ==
    ASSUME PagesInv, UNCHANGED view, posts' \in Seq(Post), clock' \in Nat,
           \A m \in DOMAIN posts : m \in DOMAIN posts' /\ posts'[m].second = posts[m].second
    PROVE  PagesInv'
<1>1. PagesTypeOK'
  BY DEF PagesInv, PagesTypeOK
<1>2. view.at # "new" => view.base \subseteq DOMAIN posts /\ view.base \subseteq DOMAIN posts'
  BY DEF PagesInv
<1>3. ASSUME view.at # "new", view.client = "keeps", ~view.disturbed, OneASecond'
      PROVE  \E order : Shows(order)'
  <2>1. OneASecond
    BY <1>2, <1>3 DEF OneASecond
  <2>2. PICK order : Shows(order)
    BY <1>3, <2>1 DEF PagesInv
  <2>3. /\ order \in Seq(view.base)
        /\ \A i, j \in 1 .. Len(order) : i < j => posts[order[j]].second <= posts[order[i]].second
    BY <2>2 DEF Shows, NewestFirst
  <2>4. \A i, j \in 1 .. Len(order) : i < j => posts'[order[j]].second <= posts'[order[i]].second
    <3>1. \A i \in 1 .. Len(order) : order[i] \in view.base
      BY <2>3
    <3>2. \A i \in 1 .. Len(order) : posts'[order[i]].second = posts[order[i]].second
      BY <1>2, <1>3, <3>1
    <3> QED BY <2>3, <3>2
  <2>5. Shows(order)'
    BY <2>2, <2>4 DEF Shows, NewestFirst, IsBeginning
  <2> QED BY <2>5
<1>4. view.shown \in Seq(DOMAIN posts')
  <2>1. view.shown \in Seq(DOMAIN posts) /\ DOMAIN posts \subseteq DOMAIN posts'
    BY DEF PagesInv
  <2> QED BY <2>1
<1> QED BY <1>1, <1>2, <1>3, <1>4 DEF PagesInv

LEMMA Joined ==
    ASSUME NEW S, NEW s \in Seq(S), NEW t \in Seq(S)
    PROVE  /\ s \o t \in Seq(S)
           /\ Len(s \o t) = Len(s) + Len(t)
           /\ \A i \in 1 .. Len(s) + Len(t) : (s \o t)[i] = IF i <= Len(s) THEN s[i] ELSE t[i - Len(s)]
OBVIOUS

\* A page of a list continues what the pages before it have shown.
LEMMA PageContinues ==
    ASSUME NEW S, NEW order \in Seq(S), NEW page \in Nat, NEW shown \in Seq(S),
           IsBeginning(order, shown, page), page # 0 => page * PageSize < Len(order)
    PROVE  IsBeginning(order, shown \o paginate(order, page + 1), page + 1)
<1> DEFINE from == page * PageSize
           to == IF from + PageSize < Len(order) THEN from + PageSize ELSE Len(order)
           part == SubSeq(order, from + 1, to)
<1>1. PageSize \in Nat /\ PageSize > 0 /\ from \in Nat
  BY PagesAssumption
<1>0. (page + 1) * PageSize = from + PageSize
  BY PagesAssumption
<1>2. (page + 1) - 1 = page
  OBVIOUS
<1>3. paginate(order, page + 1) = part
  BY <1>0, <1>2 DEF paginate
<1>4. page = 0 => from = 0
  BY <1>1
<1> HIDE DEF from
<1>5. Len(shown) = from /\ from <= Len(order) /\ Len(order) \in Nat
  BY <1>1, <1>4 DEF from, IsBeginning
<1>6. to \in from .. Len(order)
  BY <1>1, <1>5
<1> HIDE DEF to
<1>7. part \in Seq(S) /\ Len(part) = to - from /\ \A i \in 1 .. to - from : part[i] = order[from + i]
  <2>1. \A i \in (from + 1) .. to : order[i] \in S
    BY <1>1, <1>5, <1>6
  <2> QED BY <1>1, <1>5, <1>6, <2>1
<1>8. to \in Nat /\ from \in Nat /\ from <= to
  BY <1>1, <1>5, <1>6
<1> DEFINE new == shown \o part
<1>9. /\ new \in Seq(S) /\ Len(new) = from + (to - from)
      /\ \A i \in 1 .. from + (to - from) : new[i] = IF i <= from THEN shown[i] ELSE part[i - from]
  <2> HIDE DEF part
  <2>1. part \in Seq(S)
    BY <1>7
  <2>2. /\ shown \o part \in Seq(S)
        /\ Len(shown \o part) = Len(shown) + Len(part)
        /\ \A i \in 1 .. Len(shown) + Len(part) :
              (shown \o part)[i] = IF i <= Len(shown) THEN shown[i] ELSE part[i - Len(shown)]
    BY <2>1, Joined, Zenon
  <2>3. Len(shown) = from /\ Len(part) = to - from
    BY <1>5, <1>7
  <2> QED BY <2>2, <2>3
<1>10. from + (to - from) = to
  BY <1>8
<1> HIDE DEF new, part
<1>11. ASSUME NEW i \in 1 .. to PROVE new[i] = order[i]
  <2>1. CASE i <= from
    BY <1>5, <1>8, <1>9, <1>10, <2>1 DEF IsBeginning
  <2>2. CASE ~(i <= from)
    <3>1. i - from \in 1 .. to - from /\ from + (i - from) = i
      BY <1>8, <2>2
    <3>2. new[i] = part[i - from]
      BY <1>9, <1>10, <2>2
    <3> QED BY <1>7, <3>1, <3>2
  <2> QED BY <2>1, <2>2
<1> QED BY <1>0, <1>3, <1>9, <1>10, <1>11 DEF to, new, IsBeginning

LEMMA PageTyped ==
    ASSUME NEW S, NEW order \in Seq(S), NEW page \in Nat
    PROVE  paginate(order, page + 1) \in Seq(S)
<1> DEFINE from == page * PageSize
           to == IF (page + 1) * PageSize < Len(order) THEN (page + 1) * PageSize ELSE Len(order)
<1>1. from \in Nat /\ (page + 1) - 1 = page /\ (page + 1) * PageSize \in Nat
  BY PagesAssumption
<1>2. paginate(order, page + 1) = SubSeq(order, from + 1, to)
  BY <1>1 DEF paginate
<1>3. to \in 0 .. Len(order)
  BY <1>1
<1> HIDE DEF from, to
<1>4. \A i \in (from + 1) .. to : order[i] \in S
  BY <1>1, <1>3
<1>5. SubSeq(order, from + 1, to) \in Seq(S)
  BY <1>1, <1>3, <1>4
<1> QED BY <1>2, <1>5

\* Reading a page: with the list unchanged it continues the list shown so far.
LEMMA PageIsRead ==
    ASSUME PagesInv, NEW kind, NEW cursor \in Nat, NEW page, page = view.page + 1,
           view.at \in {"new", "reading"}, ReadPage(kind, cursor, page)
    PROVE  PagesInv'
<1>1. posts \in Seq(Post) /\ clock \in Nat /\ view \in View /\ UNCHANGED <<posts, clock>>
  BY DEF PagesInv, PagesTypeOK, ReadPage
<1>2. PICK order \in Ordered(cursor) :
          view' = [view EXCEPT
              !.at = IF IsMore(order, page) THEN "reading" ELSE "over",
              !.page = page,
              !.cursor = cursor,
              !.shown = @ \o paginate(order, page),
              !.base = IF view.at = "new" THEN Listed(cursor) ELSE @,
              !.disturbed = @ \/ Disturbed(cursor)]
  BY DEF ReadPage
<1>3. NewestFirst(order, Filtered(cursor)) /\ Filtered(cursor) = Listed(cursor)
  BY <1>1, OrderedIsNewest DEF Filtered, Listed
<1>4. Listed(cursor) \subseteq DOMAIN posts
  BY DEF Listed
<1>5. /\ view.page \in Nat /\ view.shown \in Seq(DOMAIN posts) /\ view.base \in SUBSET Nat
      /\ view.client \in {"keeps", "panel"} /\ view.kind \in {"web_app", "debugger", "assistant_agent"}
      /\ view.disturbed \in BOOLEAN
  BY <1>1 DEF View, PagesInv
<1>6. order \in Seq(DOMAIN posts)
  BY <1>3, <1>4 DEF NewestFirst
<1> DEFINE new == view.shown \o paginate(order, page)
           listed == IF view.at = "new" THEN Listed(cursor) ELSE view.base
<1>7. /\ view'.at = IF IsMore(order, page) THEN "reading" ELSE "over"
      /\ view'.page = page /\ view'.cursor = cursor /\ view'.shown = new
      /\ view'.base = listed /\ view'.client = view.client /\ view'.kind = view.kind
      /\ view'.disturbed = (view.disturbed \/ Disturbed(cursor))
      /\ view' = [at |-> view'.at, client |-> view'.client, kind |-> view'.kind, page |-> view'.page,
                  cursor |-> view'.cursor, shown |-> view'.shown, base |-> view'.base,
                  disturbed |-> view'.disturbed]
  <2>1. view = [at |-> view.at, client |-> view.client, kind |-> view.kind, page |-> view.page,
                cursor |-> view.cursor, shown |-> view.shown, base |-> view.base,
                disturbed |-> view.disturbed]
    BY <1>1 DEF View
  <2> QED BY <1>2, <2>1
<1>8. new \in Seq(DOMAIN posts)
  <2>1. paginate(order, page) \in Seq(DOMAIN posts)
    BY <1>5, <1>6, PageTyped
  <2> QED BY <1>5, <2>1, Joined
<1>9. listed \subseteq DOMAIN posts
  BY <1>4 DEF PagesInv
<1>10. PagesTypeOK'
  <2>1. DOMAIN posts \subseteq Nat
    BY <1>1
  <2>2. new \in Seq(Nat) /\ listed \in SUBSET Nat
    <3>1. new \in Seq(Nat)
      <4> HIDE DEF new
      <4> QED BY <1>8, <2>1
    <3> QED BY <1>9, <2>1, <3>1
  <2>3. page \in Nat /\ view'.at \in {"new", "reading", "over"} /\ view'.disturbed \in BOOLEAN
    BY <1>5, <1>7 DEF Disturbed
  <2>4. view' \in View
    <3> HIDE DEF new, listed
    <3> QED BY <1>5, <1>7, <2>2, <2>3 DEF View
  <2> QED BY <1>1, <2>4 DEF PagesTypeOK
<1>11. ASSUME view'.client = "keeps", ~view'.disturbed, OneASecond'
       PROVE  Shows(order)'
  <2>1. listed = Filtered(cursor)
    <3>1. ~Disturbed(cursor) /\ view.client = "keeps"
      BY <1>7, <1>11
    <3> QED BY <1>3, <3>1 DEF Disturbed
  <2>2. \A m, n \in listed : posts[m].second = posts[n].second => m = n
    BY <1>1, <1>7, <1>11 DEF OneASecond
  <2>3. /\ IsBeginning(order, view.shown, view.page)
        /\ view.page # 0 => view.page * PageSize < Len(order)
    <3>1. CASE view.at = "new"
      <4>1. view.page = 0 /\ view.shown = << >>
        BY <3>1 DEF PagesInv
      <4>2. view.page * PageSize = 0
        BY <4>1, PagesAssumption
      <4>3. Len(order) \in Nat /\ Len(view.shown) = 0
        BY <1>6, <4>1
      <4> QED BY <4>1, <4>2, <4>3 DEF IsBeginning
    <3>2. CASE view.at = "reading"
      <4>1. view.client = "keeps" /\ ~view.disturbed /\ listed = view.base
        BY <1>7, <1>11, <3>2
      <4>2. OneASecond
        BY <2>2, <4>1 DEF OneASecond
      <4>3. PICK old : Shows(old)
        BY <3>2, <4>1, <4>2 DEF PagesInv
      <4>4. Len(old) = Len(order) /\ \A i \in 1 .. Len(old) : old[i] = order[i]
        <5>1. NewestFirst(old, listed) /\ NewestFirst(order, listed)
          BY <1>3, <2>1, <4>1, <4>3 DEF Shows
        <5>2. posts \in Seq(Post)
          BY <1>1
        <5> HIDE DEF listed
        <5>3. listed \subseteq DOMAIN posts /\ SecondsDiffer(listed)
          BY <1>9, <2>2 DEF SecondsDiffer
        <5>4. Same(old, order)
          BY <5>1, <5>2, <5>3, OneOrder, Zenon
        <5> QED BY <5>4 DEF Same
      <4>5. /\ Len(view.shown) = view.page * PageSize /\ view.page * PageSize < Len(order)
            /\ \A i \in 1 .. Len(view.shown) : view.shown[i] = old[i]
        BY <3>2, <4>3, <4>4 DEF Shows, IsBeginning
      <4>6. \A i \in 1 .. Len(view.shown) : i \in 1 .. Len(old)
        <5>1. Len(view.shown) \in Nat /\ Len(old) \in Nat
          BY <1>5, <1>6, <4>4
        <5>2. Len(view.shown) <= Len(old)
          BY <4>4, <4>5, <5>1
        <5> QED BY <5>1, <5>2
      <4> QED BY <4>4, <4>5, <4>6 DEF IsBeginning
    <3> QED BY <3>1, <3>2
  <2>4. IsBeginning(order, view.shown \o paginate(order, view.page + 1), view.page + 1)
    <3>1. view.page \in Nat /\ view.shown \in Seq(DOMAIN posts)
      BY <1>5
    <3> QED BY <1>6, <2>3, <3>1, PageContinues, Zenon
  <2>5. IsBeginning(order, new, page)
    BY <2>4
  <2>6. view'.at = "reading" <=> page * PageSize < Len(order)
    BY <1>7 DEF IsMore
  <2> HIDE DEF new, listed
  <2>8. IsBeginning(order, view.shown, view.page)'
    BY <1>7, <2>5 DEF IsBeginning
  <2>7. NewestFirst(order, view.base)'
    <3>1. NewestFirst(order, listed)
      BY <1>3, <2>1
    <3> QED BY <1>1, <1>7, <3>1 DEF NewestFirst
  <2> QED BY <1>7, <2>6, <2>7, <2>8 DEF Shows
<1>12. view'.at # "new"
  BY <1>7
<1>13. view'.shown \in Seq(DOMAIN posts) /\ view'.base \subseteq DOMAIN posts
  BY <1>7, <1>8, <1>9
<1> HIDE DEF new, listed
<1> QED BY <1>1, <1>10, <1>11, <1>12, <1>13 DEF PagesInv

LEMMA PagesStep == PagesInv /\ [PagesNext]_pageVars => PagesInv'
<1> SUFFICES ASSUME PagesInv, [PagesNext]_pageVars PROVE PagesInv'
  OBVIOUS
<1>0. posts \in Seq(Post) /\ clock \in Nat /\ view \in View
  BY DEF PagesInv, PagesTypeOK
<1>1. ASSUME SecondPasses PROVE PagesInv'
  <2>1. UNCHANGED <<posts, view>> /\ clock' \in Nat
    BY <1>0, <1>1 DEF SecondPasses
  <2> QED BY <1>0, <2>1, ConversationGoesOn
<1>2. ASSUME AddPost PROVE PagesInv'
  <2>1. UNCHANGED <<clock, view>> /\ posts' = Append(posts, [second |-> clock, at |-> "unanswered"])
    BY <1>2 DEF AddPost
  <2>2. [second |-> clock, at |-> "unanswered"] \in Post
    BY <1>0 DEF Post
  <2>3. posts' \in Seq(Post) /\ \A m \in DOMAIN posts : m \in DOMAIN posts' /\ posts'[m] = posts[m]
    BY <1>0, <2>1, <2>2
  <2> QED BY <1>0, <2>1, <2>3, ConversationGoesOn
<1>3. ASSUME NEW m \in DOMAIN posts, NEW from, NEW to \in {"listed", "gone"}, PostGoes(m, from, to)
      PROVE  PagesInv'
  <2>1. UNCHANGED <<clock, view>> /\ posts' = [posts EXCEPT ![m].at = to]
    BY <1>3 DEF PostGoes
  <2>2. \A k \in DOMAIN posts : posts[k] \in Post
    BY <1>0
  <2>3. posts'[m] = [second |-> posts[m].second, at |-> to] /\ posts'[m] \in Post
    <3>1. posts'[m] = [posts[m] EXCEPT !.at = to]
      BY <2>1
    <3> QED BY <2>2, <3>1 DEF Post
  <2>4. DOMAIN posts' = DOMAIN posts /\ \A k \in DOMAIN posts : k # m => posts'[k] = posts[k]
    BY <2>1
  <2>5. posts' \in Seq(Post)
    <3>1. \A k \in DOMAIN posts : posts'[k] \in Post
      BY <2>2, <2>3, <2>4
    <3>2. DOMAIN posts = 1 .. Len(posts) /\ Len(posts) \in Nat
      BY <1>0
    <3>3. posts' = [k \in 1 .. Len(posts) |-> posts'[k]]
      BY <2>1, <3>2
    <3> QED BY <3>1, <3>2, <3>3
  <2>6. \A k \in DOMAIN posts : posts'[k].second = posts[k].second
    BY <2>3, <2>4
  <2> QED BY <1>0, <2>1, <2>4, <2>5, <2>6, ConversationGoesOn
<1>4. ASSUME ClearConversation PROVE PagesInv'
  <2>1. UNCHANGED <<clock, view>> /\ posts' = [m \in DOMAIN posts |-> [posts[m] EXCEPT !.at = "gone"]]
    BY <1>4 DEF ClearConversation
  <2>2. \A k \in DOMAIN posts : posts[k] \in Post
    BY <1>0
  <2>3. \A k \in DOMAIN posts : posts'[k] \in Post /\ posts'[k].second = posts[k].second
    BY <2>1, <2>2 DEF Post
  <2>4. posts' \in Seq(Post)
    <3>0. DOMAIN posts = 1 .. Len(posts) /\ Len(posts) \in Nat
      BY <1>0
    <3>1. DOMAIN posts' = 1 .. Len(posts) /\ Len(posts) \in Nat
      BY <2>1, <3>0
    <3>2. posts' = [k \in 1 .. Len(posts) |-> posts'[k]]
      BY <2>1, <3>1
    <3> QED BY <1>0, <2>3, <3>1, <3>2
  <2> QED BY <1>0, <2>1, <2>3, <2>4, ConversationGoesOn
<1>5. ASSUME KeepCursor PROVE PagesInv'
  <2>1. CASE view.at = "new"
    <3>1. PICK cursor \in 0 .. clock : GetMessages(cursor, 1)
      BY <1>5, <2>1 DEF KeepCursor
    <3>2. \E kind : ReadPage(kind, cursor, 1)
      BY <3>1 DEF GetMessages, get_conversation_messages_with_page,
                  get_debug_conversation_messages_with_page, get_assistant_agent_messages_with_page
    <3>3. 1 = view.page + 1 /\ cursor \in Nat
      BY <1>0, <2>1 DEF PagesInv
    <3> QED BY <2>1, <3>2, <3>3, PageIsRead
  <2>2. CASE view.at = "reading"
    <3>1. GetMessages(view.cursor, view.page + 1)
      BY <1>5, <2>2 DEF KeepCursor
    <3>2. \E kind : ReadPage(kind, view.cursor, view.page + 1)
      BY <3>1 DEF GetMessages, get_conversation_messages_with_page,
                  get_debug_conversation_messages_with_page, get_assistant_agent_messages_with_page
    <3>3. view.cursor \in Nat
      BY <1>0 DEF View
    <3> QED BY <2>2, <3>2, <3>3, PageIsRead
  <2> QED BY <1>5, <2>1, <2>2 DEF KeepCursor
<1>6. ASSUME load PROVE PagesInv'
  <2>1. CASE view.at = "new"
    <3>1. GetMessages(0, 1)
      BY <1>6, <2>1 DEF load
    <3>2. \E kind : ReadPage(kind, 0, 1)
      BY <3>1 DEF GetMessages, get_conversation_messages_with_page,
                  get_debug_conversation_messages_with_page, get_assistant_agent_messages_with_page
    <3>3. 1 = view.page + 1
      BY <2>1 DEF PagesInv
    <3> QED BY <2>1, <3>2, <3>3, PageIsRead
  <2>2. CASE view.at = "reading"
    <3> DEFINE cursor == IF view.shown = << >> THEN 0 ELSE posts[Last(view.shown)].second
    <3>1. GetMessages(cursor, view.page + 1)
      BY <1>6, <2>2 DEF load
    <3>2. \E kind : ReadPage(kind, cursor, view.page + 1)
      BY <3>1 DEF GetMessages, get_conversation_messages_with_page,
                  get_debug_conversation_messages_with_page, get_assistant_agent_messages_with_page
    <3>3. cursor \in Nat
      <4>1. CASE view.shown = << >>
        BY <4>1
      <4>2. CASE view.shown # << >>
        <5>1. view.shown \in Seq(DOMAIN posts)
          BY DEF PagesInv
        <5>2. Last(view.shown) \in DOMAIN posts
          BY <4>2, <5>1 DEF Last
        <5>3. posts[Last(view.shown)] \in Post
          BY <1>0, <5>2
        <5> QED BY <4>2, <5>3 DEF Post
      <4> QED BY <4>1, <4>2
    <3> HIDE DEF cursor
    <3> QED BY <2>2, <3>2, <3>3, PageIsRead
  <2> QED BY <1>6, <2>1, <2>2 DEF load
<1>7. ASSUME UNCHANGED pageVars PROVE PagesInv'
  <2>1. UNCHANGED <<posts, clock, view>>
    BY <1>7 DEF pageVars
  <2> QED BY <1>0, <2>1, ConversationGoesOn
<1> QED BY <1>1, <1>2, <1>3, <1>4, <1>5, <1>6, <1>7 DEF PagesNext, FinishPost

\* Whoever walks through the pages with one cursor, while nothing up to it changes and
\* no two messages are of one second, is shown each message once and the newest first:
\* there is one order of such messages, and each page continues it.
THEOREM PagesContinueOneOrder == PagesSpec => []PagesShowOnce
<1>1. PagesInit => PagesInv
  BY PagesInitially
<1>2. PagesInv /\ [PagesNext]_pageVars => PagesInv'
  BY PagesStep
<1>3. PagesInv => PagesShowOnce
  <2> SUFFICES ASSUME PagesInv, view.client = "keeps", ~view.disturbed, OneASecond
               PROVE  ShowsNewest
    BY DEF PagesShowOnce
  <2>0. posts \in Seq(Post) /\ view.shown \in Seq(DOMAIN posts)
    BY DEF PagesInv, PagesTypeOK
  <2>1. DOMAIN view.shown = 1 .. Len(view.shown) /\ Len(view.shown) \in Nat
    BY <2>0
  <2>2. CASE view.at = "new"
    <3>1. view.shown = << >>
      BY <2>2 DEF PagesInv
    <3>2. DOMAIN view.shown = {}
      BY <3>1
    <3> QED BY <3>2 DEF ShowsNewest
  <2>3. CASE view.at # "new"
    <3>1. PICK order : Shows(order)
      BY <2>3 DEF PagesInv
    <3>2. /\ order \in Seq(view.base)
          /\ \A m \in view.base : \E i \in 1 .. Len(order) : order[i] = m
          /\ \A i, j \in 1 .. Len(order) : order[i] = order[j] => i = j
          /\ \A i, j \in 1 .. Len(order) : i < j => posts[order[j]].second <= posts[order[i]].second
      BY <3>1 DEF Shows, NewestFirst
    <3>3. Len(order) \in Nat /\ view.page * PageSize \in Nat
      <4>1. view.page \in Nat
        BY DEF PagesInv, PagesTypeOK, View
      <4> QED BY <3>2, <4>1, PagesAssumption
    <3>4. \A i \in 1 .. Len(view.shown) : i \in 1 .. Len(order) /\ view.shown[i] = order[i]
      <4>1. Len(view.shown) <= Len(order)
        BY <3>1, <3>3 DEF Shows, IsBeginning
      <4>2. \A i \in 1 .. Len(view.shown) : view.shown[i] = order[i]
        BY <3>1 DEF Shows, IsBeginning
      <4> QED BY <2>1, <3>3, <4>1, <4>2
    <3>5. \A i, j \in DOMAIN view.shown : view.shown[i] = view.shown[j] => i = j
      BY <2>1, <3>2, <3>4
    <3>6. ASSUME NEW m \in view.base, NEW i \in DOMAIN view.shown,
                 posts[m].second > posts[view.shown[i]].second
          PROVE  \E j \in DOMAIN view.shown : view.shown[j] = m
      <4>1. PICK j \in 1 .. Len(order) : order[j] = m
        BY <3>2
      <4>2. i \in 1 .. Len(order) /\ view.shown[i] = order[i]
        BY <2>1, <3>4
      <4>3. posts[order[j]].second \in Nat /\ posts[order[i]].second \in Nat
        <5>1. view.base \subseteq DOMAIN posts
          BY <2>3 DEF PagesInv
        <5>2. order[j] \in DOMAIN posts /\ order[i] \in DOMAIN posts
          <6>1. \A k \in 1 .. Len(order) : order[k] \in view.base
            BY <3>2
          <6> QED BY <4>2, <5>1, <6>1
        <5>3. \A k \in DOMAIN posts : posts[k] \in Post
          BY <2>0
        <5> QED BY <5>2, <5>3 DEF Post
      <4>4. ~(i < j)
        <5> SUFFICES ASSUME i < j PROVE FALSE
          OBVIOUS
        <5>1. posts[order[j]].second <= posts[order[i]].second
          BY <3>2, <4>2
        <5> QED BY <3>6, <4>1, <4>2, <4>3, <5>1
      <4>5. j \in DOMAIN view.shown
        BY <2>1, <3>3, <4>2, <4>4
      <4> QED BY <2>1, <3>4, <4>1, <4>5
    <3> QED BY <3>5, <3>6 DEF ShowsNewest
  <2> QED BY <2>2, <2>3
<1> QED BY <1>1, <1>2, <1>3, PTL DEF PagesSpec

-----------------------------------------------------------------------------
(***************************************************************************)
(* Sums over finite sets, in whatever order their elements are taken.      *)
(***************************************************************************)
\* What holds of a finite set as soon as it holds of all smaller ones holds of every one.
LEMMA BySize ==
    ASSUME NEW S, IsFiniteSet(S), NEW P \in SUBSET SUBSET S,
           \A s \in SUBSET S : (\A t \in SUBSET s : t # s => t \in P) => s \in P
    PROVE  P = SUBSET S
<1> DEFINE Bad == {s \in SUBSET S : s \notin P}
           T == {Cardinality(s) : s \in Bad}
<1> SUFFICES ASSUME Bad # {} PROVE FALSE
  OBVIOUS
<1>1. \A s \in SUBSET S : IsFiniteSet(s) /\ Cardinality(s) \in Nat
  BY FS_Subset, FS_CardinalityType
<1>2. T \subseteq Nat /\ T # {}
  BY <1>1
<1>3. \E n \in T : \A m \in T : n <= m
  <2> HIDE DEF T
  <2> QED BY <1>2, LeastOf
<1>4. PICK s \in Bad : \A u \in Bad : Cardinality(s) <= Cardinality(u)
  BY <1>3
<1>5. ASSUME NEW t \in SUBSET s, t # s PROVE t \in P
  <2>1. IsFiniteSet(s) /\ t \in SUBSET S
    BY <1>1
  <2>2. Cardinality(t) < Cardinality(s)
    <3>1. Cardinality(t) <= Cardinality(s) /\ (Cardinality(s) = Cardinality(t) => s = t)
      BY <2>1, FS_Subset
    <3>2. Cardinality(s) \in Nat /\ Cardinality(t) \in Nat
      BY <1>1, <2>1
    <3> QED BY <1>5, <3>1, <3>2
  <2>3. ~(Cardinality(s) <= Cardinality(t))
    BY <1>1, <2>1, <2>2
  <2> QED BY <1>4, <2>1, <2>3
<1> QED BY <1>5

Choice(s) == CHOOSE x \in s : TRUE

\* The sums of a value over the subsets of a set.
Sums(f, val, S) ==
    f = [s \in SUBSET S |-> IF s = {} THEN 0 ELSE val[Choice(s)] + f[s \ {Choice(s)}]]

LEMMA SumsExist ==
    ASSUME NEW S, IsFiniteSet(S), NEW val
    PROVE  \E f : Sums(f, val, S)
<1> DEFINE Upto(k) == {s \in SUBSET S : Cardinality(s) <= k}
           Part(f, k) == f = [s \in Upto(k) |->
                                IF s = {} THEN 0 ELSE val[Choice(s)] + f[s \ {Choice(s)}]]
           T == {k \in Nat : ~ \E f : Part(f, k)}
<1>1. \A s \in SUBSET S : IsFiniteSet(s) /\ Cardinality(s) \in Nat /\ Cardinality(s) <= Cardinality(S)
  BY FS_Subset, FS_CardinalityType
<1>2. T = {}
  <2> SUFFICES ASSUME T # {} PROVE FALSE
    OBVIOUS
  <2>1. PICK k \in T : \A j \in T : k <= j
    <3>1. T \subseteq Nat
      OBVIOUS
    <3> HIDE DEF T
    <3> QED BY <3>1, LeastOf
  <2>2. k # 0
    <3> SUFFICES ASSUME k = 0 PROVE \E f : Part(f, k)
      OBVIOUS
    <3> DEFINE f == [s \in Upto(0) |-> 0]
    <3>1. \A s \in Upto(0) : s = {}
      <4>1. \A s \in Upto(0) : IsFiniteSet(s) /\ Cardinality(s) = 0
        BY <1>1
      <4> QED BY <4>1, FS_EmptySet
    <3>2. Part(f, 0)
      BY <3>1
    <3> QED BY <3>2
  <2>3. k - 1 \in Nat /\ ~(k <= k - 1)
    BY <2>2
  <2>4. k - 1 \notin T
    <3> HIDE DEF T
    <3> QED BY <2>1, <2>3
  <2>5. PICK g : Part(g, k - 1)
    BY <2>3, <2>4
  <2> DEFINE f == [s \in Upto(k) |-> IF s = {} THEN 0 ELSE val[Choice(s)] + g[s \ {Choice(s)}]]
  <2>6. ASSUME NEW s \in Upto(k), s # {}
        PROVE  s \ {Choice(s)} \in Upto(k) /\ f[s \ {Choice(s)}] = g[s \ {Choice(s)}]
    <3> DEFINE t == s \ {Choice(s)}
    <3>1. Choice(s) \in s
      BY <2>6 DEF Choice
    <3>2. Cardinality(t) = Cardinality(s) - 1 /\ t \in SUBSET S
      BY <1>1, <3>1, FS_RemoveElement
    <3>3. t \in Upto(k - 1) /\ t \in Upto(k)
      BY <1>1, <3>2
    <3>4. f[t] = IF t = {} THEN 0 ELSE val[Choice(t)] + g[t \ {Choice(t)}]
      BY <3>3
    <3>5. g[t] = IF t = {} THEN 0 ELSE val[Choice(t)] + g[t \ {Choice(t)}]
      BY <2>5, <3>3
    <3> QED BY <3>3, <3>4, <3>5
  <2>7. ASSUME NEW s \in Upto(k)
        PROVE  f[s] = IF s = {} THEN 0 ELSE val[Choice(s)] + f[s \ {Choice(s)}]
    <3>1. f[s] = IF s = {} THEN 0 ELSE val[Choice(s)] + g[s \ {Choice(s)}]
      OBVIOUS
    <3> QED BY <2>6, <3>1
  <2>8. Part(f, k)
    BY <2>7, Zenon
  <2> QED BY <2>8
<1>3. Cardinality(S) \in Nat
  BY <1>1
<1>4. PICK f : Part(f, Cardinality(S))
  BY <1>2, <1>3
<1>5. Upto(Cardinality(S)) = SUBSET S
  BY <1>1
<1>6. Sums(f, val, S)
  BY <1>4, <1>5 DEF Sums
<1> QED BY <1>6

LEMMA SumsAt ==
    ASSUME NEW S, NEW val, NEW f, Sums(f, val, S)
    PROVE  \A s \in SUBSET S : f[s] = IF s = {} THEN 0 ELSE val[Choice(s)] + f[s \ {Choice(s)}]
BY DEF Sums

LEMMA ChoiceIn == \A s : s # {} => Choice(s) \in s
BY DEF Choice

\* The sums of a part of the set are the same.
LEMMA SumsAgree ==
    ASSUME NEW S, IsFiniteSet(S), NEW T \in SUBSET S, NEW val, NEW wal, \A x \in T : val[x] = wal[x],
           NEW f, NEW g, Sums(f, val, S), Sums(g, wal, T)
    PROVE  \A s \in SUBSET T : f[s] = g[s]
<1> DEFINE P == {s \in SUBSET T : f[s] = g[s]}
<1>1. ASSUME NEW s \in SUBSET T, \A t \in SUBSET s : t # s => t \in P PROVE s \in P
  <2>1. /\ f[s] = IF s = {} THEN 0 ELSE val[Choice(s)] + f[s \ {Choice(s)}]
        /\ g[s] = IF s = {} THEN 0 ELSE wal[Choice(s)] + g[s \ {Choice(s)}]
    <3>1. s \in SUBSET S
      OBVIOUS
    <3> QED BY <3>1, SumsAt
  <2>2. ASSUME s # {} PROVE f[s \ {Choice(s)}] = g[s \ {Choice(s)}] /\ val[Choice(s)] = wal[Choice(s)]
    <3>1. Choice(s) \in s
      BY <2>2, ChoiceIn
    <3>2. s \ {Choice(s)} \in P
      BY <1>1, <3>1
    <3> QED BY <3>1, <3>2
  <2> QED BY <2>1, <2>2
<1>2. P = SUBSET T
  <2>1. IsFiniteSet(T) /\ P \in SUBSET SUBSET T
    BY FS_Subset
  <2> HIDE DEF P
  <2> QED BY <1>1, <2>1, BySize
<1> QED BY <1>2

LEMMA SumsTyped ==
    ASSUME NEW S, IsFiniteSet(S), NEW val, \A x \in S : val[x] \in Int, NEW f, Sums(f, val, S)
    PROVE  \A s \in SUBSET S : f[s] \in Int
<1> DEFINE P == {s \in SUBSET S : f[s] \in Int}
<1>1. ASSUME NEW s \in SUBSET S, \A t \in SUBSET s : t # s => t \in P PROVE s \in P
  <2>1. f[s] = IF s = {} THEN 0 ELSE val[Choice(s)] + f[s \ {Choice(s)}]
    BY SumsAt
  <2>2. ASSUME s # {} PROVE f[s \ {Choice(s)}] \in Int /\ val[Choice(s)] \in Int
    <3>1. Choice(s) \in s
      BY <2>2, ChoiceIn
    <3>2. s \ {Choice(s)} \in P
      BY <1>1, <3>1
    <3> QED BY <3>1, <3>2
  <2> QED BY <2>1, <2>2
<1>2. P = SUBSET S
  <2>1. P \in SUBSET SUBSET S
    OBVIOUS
  <2> HIDE DEF P
  <2> QED BY <1>1, <2>1, BySize
<1> QED BY <1>2

\* Whichever element is taken out first.
LEMMA SumsTakeOut ==
    ASSUME NEW S, IsFiniteSet(S), NEW val, \A x \in S : val[x] \in Int, NEW f, Sums(f, val, S)
    PROVE  \A s \in SUBSET S : \A x \in s : f[s] = val[x] + f[s \ {x}]
<1> DEFINE P == {s \in SUBSET S : \A x \in s : f[s] = val[x] + f[s \ {x}]}
<1>0. \A s \in SUBSET S : f[s] \in Int
  BY SumsTyped
<1>1. ASSUME NEW s \in SUBSET S, \A t \in SUBSET s : t # s => t \in P PROVE s \in P
  <2> SUFFICES ASSUME NEW x \in s PROVE f[s] = val[x] + f[s \ {x}]
    OBVIOUS
  <2> DEFINE c == Choice(s)
  <2>0. s # {} /\ f[s] = IF s = {} THEN 0 ELSE val[c] + f[s \ {c}]
    BY SumsAt
  <2>1. c \in s /\ f[s] = val[c] + f[s \ {c}]
    BY <2>0, ChoiceIn
  <2> HIDE DEF c
  <2>2. CASE c = x
    BY <2>1, <2>2
  <2>3. CASE c # x
    <3>1. s \ {c} \in P /\ s \ {x} \in P
      BY <1>1, <2>1
    <3>2. f[s \ {c}] = val[x] + f[(s \ {c}) \ {x}] /\ f[s \ {x}] = val[c] + f[(s \ {x}) \ {c}]
      BY <2>1, <2>3, <3>1
    <3> DEFINE w == (s \ {x}) \ {c}
    <3>3. (s \ {c}) \ {x} = w /\ w \in SUBSET S
      OBVIOUS
    <3>4. f[w] \in Int /\ val[x] \in Int /\ val[c] \in Int
      <4> HIDE DEF w
      <4> QED BY <1>0, <2>1, <3>3
    <3>5. f[s \ {c}] = val[x] + f[w] /\ f[s \ {x}] = val[c] + f[w] /\ f[s] = val[c] + f[s \ {c}]
      BY <2>1, <3>2, <3>3
    <3> HIDE DEF w
    <3> DEFINE fs == f[s]  fc == f[s \ {c}]  fx == f[s \ {x}]  fw == f[w]  vx == val[x]  vc == val[c]
    <3>6. fc = vx + fw /\ fx = vc + fw /\ fs = vc + fc /\ fw \in Int /\ vx \in Int /\ vc \in Int
      BY <3>4, <3>5
    <3>7. fs = vx + fx
      <4> HIDE DEF fs, fc, fx, fw, vx, vc
      <4> QED BY <3>6
    <3> QED BY <3>7
  <2> QED BY <2>2, <2>3
<1>2. P = SUBSET S
  <2>1. P \in SUBSET SUBSET S
    OBVIOUS
  <2> HIDE DEF P
  <2> QED BY <1>1, <2>1, BySize
<1> QED BY <1>2

LEMMA SumsOfUnions ==
    ASSUME NEW S, IsFiniteSet(S), NEW val, \A x \in S : val[x] \in Int, NEW f, Sums(f, val, S),
           NEW s \in SUBSET S
    PROVE  \A u \in SUBSET S : s \intersect u = {} => f[s \union u] = f[s] + f[u]
<1> DEFINE P == {u \in SUBSET S : s \intersect u = {} => f[s \union u] = f[s] + f[u]}
<1>0. \A t \in SUBSET S : f[t] \in Int
  BY SumsTyped
<1>00. \A t \in SUBSET S : f[t] = IF t = {} THEN 0 ELSE val[Choice(t)] + f[t \ {Choice(t)}]
  BY SumsAt
<1>1. ASSUME NEW u \in SUBSET S, \A t \in SUBSET u : t # u => t \in P PROVE u \in P
  <2> SUFFICES ASSUME s \intersect u = {} PROVE f[s \union u] = f[s] + f[u]
    OBVIOUS
  <2>0. f[u] = IF u = {} THEN 0 ELSE val[Choice(u)] + f[u \ {Choice(u)}]
    BY <1>00
  <2>1. CASE u = {}
    <3>1. f[u] = IF u = {} THEN 0 ELSE val[Choice(u)] + f[u \ {Choice(u)}]
      BY <2>0
    <3>2. f[u] = 0 /\ s \union u = s /\ f[s] \in Int
      BY <1>0, <2>1, <3>1
    <3>3. f[s \union u] = f[s]
      BY <3>2
    <3> QED BY <3>2, <3>3
  <2>2. CASE u # {}
    <3>1. PICK x : x \in u
      BY <2>2
    <3>2. u \ {x} \in P /\ s \intersect (u \ {x}) = {}
      BY <1>1, <3>1
    <3>3. f[s \union (u \ {x})] = f[s] + f[u \ {x}]
      BY <3>2
    <3>4. (s \union u) \ {x} = s \union (u \ {x}) /\ s \union u \in SUBSET S /\ x \in s \union u
      BY <3>1
    <3>5. f[u] = val[x] + f[u \ {x}] /\ f[s \union u] = val[x] + f[(s \union u) \ {x}]
      BY <3>1, <3>4, SumsTakeOut
    <3>6. f[s] \in Int /\ f[u \ {x}] \in Int /\ val[x] \in Int
      BY <1>0, <3>1
    <3> DEFINE all == f[s \union u]  rest == f[s \union (u \ {x})]  fs == f[s]  fu == f[u]
               fr == f[u \ {x}]  vx == val[x]
    <3>7. rest = fs + fr /\ fu = vx + fr /\ all = vx + rest /\ fs \in Int /\ fr \in Int /\ vx \in Int
      BY <3>3, <3>4, <3>5, <3>6
    <3>8. all = fs + fu
      <4> HIDE DEF all, rest, fs, fu, fr, vx
      <4> QED BY <3>7
    <3> QED BY <3>8
  <2> QED BY <2>1, <2>2
<1>2. P = SUBSET S
  <2>1. P \in SUBSET SUBSET S
    OBVIOUS
  <2> HIDE DEF P
  <2> QED BY <1>1, <2>1, BySize
<1> QED BY <1>2

\* The sum itself, as the models write it.
SumOver(val, S) == (CHOOSE f : Sums(f, val, S))[S]

LEMMA SumOverIs ==
    ASSUME NEW S, IsFiniteSet(S), NEW val, NEW f, Sums(f, val, S), NEW T \in SUBSET S
    PROVE  SumOver(val, T) = f[T]
<1>1. IsFiniteSet(T)
  BY FS_Subset
<1> DEFINE g == CHOOSE h : Sums(h, val, T)
<1>2. Sums(g, val, T)
  BY <1>1, SumsExist, Zenon
<1> HIDE DEF g
<1>3. f[T] = g[T]
  <2>1. \A s \in SUBSET T : f[s] = g[s]
    BY <1>2, SumsAgree
  <2> QED BY <2>1
<1> QED BY <1>3 DEF SumOver, g

LEMMA SumOfUnion ==
    ASSUME NEW S, NEW T, IsFiniteSet(S), IsFiniteSet(T), S \intersect T = {}, NEW val,
           \A x \in S \union T : val[x] \in Int
    PROVE  /\ SumOver(val, S \union T) = SumOver(val, S) + SumOver(val, T)
           /\ SumOver(val, S) \in Int /\ SumOver(val, T) \in Int
<1>1. IsFiniteSet(S \union T)
  BY FS_Union
<1>2. PICK f : Sums(f, val, S \union T)
  BY <1>1, SumsExist
<1>3. /\ SumOver(val, S \union T) = f[S \union T]
      /\ SumOver(val, S) = f[S] /\ SumOver(val, T) = f[T]
  BY <1>1, <1>2, SumOverIs
<1>4. S \in SUBSET (S \union T) /\ T \in SUBSET (S \union T)
  OBVIOUS
<1>5. f[S \union T] = f[S] + f[T]
  <2> DEFINE U == S \union T
  <2>1. IsFiniteSet(U) /\ (\A x \in U : val[x] \in Int) /\ Sums(f, val, U) /\ S \in SUBSET U /\ T \in SUBSET U
    BY <1>1, <1>2
  <2>2. \A u \in SUBSET U : S \intersect u = {} => f[S \union u] = f[S] + f[u]
    <3> HIDE DEF U
    <3> QED BY <2>1, SumsOfUnions
  <2> QED BY <2>1, <2>2
<1>6. f[S] \in Int /\ f[T] \in Int
  BY <1>1, <1>2, <1>4, SumsTyped
<1> QED BY <1>3, <1>5, <1>6

LEMMA SumOfNone == \A val : SumOver(val, {}) = 0
<1> SUFFICES ASSUME NEW val PROVE SumOver(val, {}) = 0
  OBVIOUS
<1>1. IsFiniteSet({})
  BY FS_EmptySet
<1>2. PICK f : Sums(f, val, {})
  BY <1>1, SumsExist
<1>3. f[{}] = 0
  <2>1. \A S : S = {} => f[S] = 0
    <3> SUFFICES ASSUME NEW S, S = {} PROVE f[S] = 0
      OBVIOUS
    <3>1. Sums(f, val, S)
      BY <1>2
    <3>2. S \in SUBSET S
      OBVIOUS
    <3>3. f[S] = IF S = {} THEN 0 ELSE val[Choice(S)] + f[S \ {Choice(S)}]
      BY <3>1, <3>2, SumsAt, Zenon
    <3> QED BY <3>3
  <2> QED BY <2>1
<1>4. SumOver(val, {}) = f[{}]
  BY <1>1, <1>2, SumOverIs
<1> QED BY <1>3, <1>4

LEMMA SumOfOne ==
    ASSUME NEW val, NEW x, val[x] \in Int
    PROVE  SumOver(val, {x}) = val[x]
<1>1. IsFiniteSet({x})
  BY FS_Singleton
<1>2. PICK f : Sums(f, val, {x})
  BY <1>1, SumsExist
<1>3. \A s \in SUBSET {x} : f[s] = IF s = {} THEN 0 ELSE val[Choice(s)] + f[s \ {Choice(s)}]
  BY <1>2 DEF Sums
<1>4. {x} \in SUBSET {x} /\ {} \in SUBSET {x} /\ {x} # {} /\ {x} \ {x} = {}
  OBVIOUS
<1>5. Choice({x}) = x
  BY <1>4 DEF Choice
<1>6. f[{}] = 0 /\ f[{x}] = val[x] + f[{}]
  BY <1>3, <1>4, <1>5
<1>7. f[{x}] = val[x]
  BY <1>6
<1>8. SumOver(val, {x}) = f[{x}]
  BY <1>1, <1>2, SumOverIs
<1> QED BY <1>7, <1>8

-----------------------------------------------------------------------------
(***************************************************************************)
(* Analysis, for any window, requests, messages and integer prices.        *)
(***************************************************************************)
LEMMA CountTo ==
    ASSUME NEW T \in SUBSET Nat, 0 \in T, \A i \in T : i + 1 \in T
    PROVE  T = Nat
<1> SUFFICES ASSUME Nat \ T # {} PROVE FALSE
  OBVIOUS
<1>1. PICK i \in Nat \ T : \A j \in Nat \ T : i <= j
  <2>1. Nat \ T \subseteq Nat
    OBVIOUS
  <2> QED BY <2>1, LeastOf
<1>2. i # 0
  OBVIOUS
<1>3. i - 1 \in Nat /\ i = (i - 1) + 1 /\ ~(i <= i - 1)
  BY <1>2
<1>4. i - 1 \in T
  BY <1>1, <1>3
<1> QED BY <1>3, <1>4

\* The sum of an entry over the days of a trend.
TiledOf(trend, entry) == MapThenSumSet(LAMBDA d : trend[d][entry], 1 .. WindowDays)

TileSums(f, trend, entry) ==
    f = [s \in SUBSET (1 .. WindowDays) |->
           IF s = {} THEN 0 ELSE trend[Choice(s)][entry] + f[s \ {Choice(s)}]]

LEMMA TiledIsSum ==
    ASSUME NEW trend, NEW entry
    PROVE  TiledOf(trend, entry) = SumOver([d \in 1 .. WindowDays |-> trend[d][entry]], 1 .. WindowDays)
<1> DEFINE S == 1 .. WindowDays
           val == [d \in S |-> trend[d][entry]]
           f == CHOOSE g : TileSums(g, trend, entry)
<1>1. TiledOf(trend, entry) = f[S]
  BY DEF TiledOf, TileSums, MapThenSumSet, MapThenFoldSet, Choice
<1>2. IsFiniteSet(S)
  BY FS_Interval, WindowAssumption
<1>3. ASSUME NEW g PROVE TileSums(g, trend, entry) <=> Sums(g, val, S)
  <2> DEFINE A(s) == IF s = {} THEN 0 ELSE trend[Choice(s)][entry] + g[s \ {Choice(s)}]
             B(s) == IF s = {} THEN 0 ELSE val[Choice(s)] + g[s \ {Choice(s)}]
  <2>1. ASSUME NEW s \in SUBSET S PROVE A(s) = B(s)
    <3>1. CASE s = {}
      BY <3>1
    <3>2. CASE s # {}
      <4>1. Choice(s) \in S
        BY <3>2, ChoiceIn
      <4>2. val[Choice(s)] = trend[Choice(s)][entry]
        BY <4>1
      <4> QED BY <4>2
    <3> QED BY <3>1, <3>2
  <2>2. [s \in SUBSET S |-> A(s)] = [s \in SUBSET S |-> B(s)]
    <3> HIDE DEF A, B, S
    <3> QED BY <2>1
  <2> QED BY <2>2 DEF TileSums, Sums
<1>4. \E g : TileSums(g, trend, entry)
  <2>1. \E g : Sums(g, val, S)
    BY <1>2, SumsExist
  <2> QED BY <1>3, <2>1
<1>5. Sums(f, val, S)
  <2>1. TileSums(f, trend, entry)
    BY <1>4, Zenon
  <2> QED BY <1>3, <2>1
<1> HIDE DEF f, S, val
<1>6. SumOver(val, S) = f[S]
  BY <1>2, <1>5, SumOverIs
<1> QED BY <1>1, <1>6 DEF S, val

CostSums(f, ms) ==
    f = [s \in SUBSET ms |-> IF s = {} THEN 0 ELSE log[Choice(s)].kind.price + f[s \ {Choice(s)}]]

Prices == [m \in DOMAIN log |-> log[m].kind.price]

LEMMA CostIsSum ==
    ASSUME NEW ms \in SUBSET DOMAIN log, IsFiniteSet(ms)
    PROVE  Cost(ms) = SumOver(Prices, ms)
<1> DEFINE f == CHOOSE g : CostSums(g, ms)
<1>1. Cost(ms) = f[ms]
  BY DEF Cost, CostSums, MapThenSumSet, MapThenFoldSet, Choice
<1>3. ASSUME NEW g PROVE CostSums(g, ms) <=> Sums(g, Prices, ms)
  <2> DEFINE A(s) == IF s = {} THEN 0 ELSE log[Choice(s)].kind.price + g[s \ {Choice(s)}]
             B(s) == IF s = {} THEN 0 ELSE Prices[Choice(s)] + g[s \ {Choice(s)}]
  <2>1. ASSUME NEW s \in SUBSET ms PROVE A(s) = B(s)
    <3>1. CASE s = {}
      BY <3>1
    <3>2. CASE s # {}
      <4>1. Choice(s) \in DOMAIN log
        BY <3>2, ChoiceIn
      <4>2. Prices[Choice(s)] = log[Choice(s)].kind.price
        BY <4>1 DEF Prices
      <4> QED BY <4>2
    <3> QED BY <3>1, <3>2
  <2>2. [s \in SUBSET ms |-> A(s)] = [s \in SUBSET ms |-> B(s)]
    <3> HIDE DEF A, B
    <3> QED BY <2>1
  <2> QED BY <2>2 DEF CostSums, Sums
<1>4. \E g : CostSums(g, ms)
  <2>1. \E g : Sums(g, Prices, ms)
    BY SumsExist
  <2> QED BY <1>3, <2>1
<1>5. Sums(f, Prices, ms)
  <2>1. CostSums(f, ms)
    BY <1>4, Zenon
  <2> QED BY <1>3, <2>1
<1> HIDE DEF f
<1>6. SumOver(Prices, ms) = f[ms]
  BY <1>5, SumOverIs
<1> QED BY <1>1, <1>6

LogRow == [at : Nat, answered : Int, kind : Kinds]

LEMMA PricesTyped ==
    ASSUME log \in Seq(LogRow)
    PROVE  \A m \in DOMAIN log : Prices[m] \in Int /\ log[m].at \in Nat /\ log[m].answered \in Int
<1> SUFFICES ASSUME NEW m \in DOMAIN log
             PROVE  Prices[m] \in Int /\ log[m].at \in Nat /\ log[m].answered \in Int
  OBVIOUS
<1>1. log[m] \in LogRow
  OBVIOUS
<1>2. log[m].kind \in Kinds /\ log[m].at \in Nat /\ log[m].answered \in Int
  BY <1>1 DEF LogRow
<1> QED BY <1>2, KindsAssumption DEF Prices

LEMMA LogIsFinite ==
    ASSUME log \in Seq(LogRow)
    PROVE  \A ms \in SUBSET DOMAIN log : IsFiniteSet(ms) /\ Cardinality(ms) \in Nat
<1>1. IsFiniteSet(DOMAIN log)
  <2>1. DOMAIN log = 1 .. Len(log) /\ Len(log) \in Nat
    OBVIOUS
  <2> QED BY <2>1, FS_Interval
<1> QED BY <1>1, FS_Subset, FS_CardinalityType

LEMMA CostOfUnion ==
    ASSUME log \in Seq(LogRow), NEW a \in SUBSET DOMAIN log, NEW b \in SUBSET DOMAIN log, a \intersect b = {}
    PROVE  Cost(a \union b) = Cost(a) + Cost(b) /\ Cost(a) \in Int /\ Cost(b) \in Int
<1>1. IsFiniteSet(a) /\ IsFiniteSet(b) /\ IsFiniteSet(a \union b)
  BY LogIsFinite
<1>2. /\ Cost(a) = SumOver(Prices, a) /\ Cost(b) = SumOver(Prices, b)
      /\ Cost(a \union b) = SumOver(Prices, a \union b)
  BY <1>1, CostIsSum
<1>3. \A x \in a \union b : Prices[x] \in Int
  BY PricesTyped
<1>4. /\ SumOver(Prices, a \union b) = SumOver(Prices, a) + SumOver(Prices, b)
      /\ SumOver(Prices, a) \in Int /\ SumOver(Prices, b) \in Int
  BY <1>1, <1>3, SumOfUnion
<1> QED BY <1>2, <1>4

\* Adding a day to the days before it.
LEMMA NextDay ==
    ASSUME NEW val, NEW k \in Nat, \A d \in 1 .. k + 1 : val[d] \in Int
    PROVE  SumOver(val, 1 .. k + 1) = SumOver(val, 1 .. k) + val[k + 1] /\ SumOver(val, 1 .. k) \in Int
<1>1. IsFiniteSet(1 .. k) /\ IsFiniteSet({k + 1})
  <2>1. IsFiniteSet(1 .. k)
    BY FS_Interval
  <2>2. IsFiniteSet({k + 1})
    BY FS_Singleton
  <2> QED BY <2>1, <2>2
<1>2. (1 .. k) \intersect {k + 1} = {} /\ (1 .. k) \union {k + 1} = 1 .. k + 1
  OBVIOUS
<1>3. /\ SumOver(val, (1 .. k) \union {k + 1}) = SumOver(val, 1 .. k) + SumOver(val, {k + 1})
      /\ SumOver(val, 1 .. k) \in Int
  <2>1. \A x \in (1 .. k) \union {k + 1} : val[x] \in Int
    BY <1>2
  <2> QED BY <1>1, <1>2, <2>1, SumOfUnion
<1>4. SumOver(val, {k + 1}) = val[k + 1]
  <2>1. val[k + 1] \in Int
    OBVIOUS
  <2> QED BY <2>1, SumOfOne
<1> QED BY <1>2, <1>3, <1>4

\* The days of a trend tile the window, whichever messages were read of it.
LEMMA TrendTiles ==
    ASSUME log \in Seq(LogRow), NEW end \in Int, NEW ms,
           ms \subseteq DOMAIN log,
           \A m \in ms : end - 2 * WindowDays <= log[m].at /\ log[m].at < end
    PROVE  /\ TiledOf(calculate_trend_by_messages(end, ms), "total_messages") = Cardinality(ms)
           /\ TiledOf(calculate_trend_by_messages(end, ms), "cost_consumption") = Cost(ms)
<1> DEFINE Start(d) == end - 2 * (WindowDays - d + 1)
           Day(d) == {m \in ms : Start(d) <= log[m].at /\ log[m].at < Start(d) + 2}
           Before(k) == {m \in ms : log[m].at < end - 2 * WindowDays + 2 * k}
           trend == calculate_trend_by_messages(end, ms)
           counts == [d \in 1 .. WindowDays |-> trend[d]["total_messages"]]
           costs == [d \in 1 .. WindowDays |-> trend[d]["cost_consumption"]]
<1>0. WindowDays \in Nat
  BY WindowAssumption
<1>1. /\ ms \in SUBSET DOMAIN log
      /\ \A m \in ms : end - 2 * WindowDays <= log[m].at /\ log[m].at < end /\ log[m].at \in Nat
  BY PricesTyped
<1>2. ASSUME NEW d \in 1 .. WindowDays
      PROVE  counts[d] = Cardinality(Day(d)) /\ costs[d] = Cost(Day(d))
  <2>1. trend[d] = [total_messages |-> Cardinality(Day(d)), active_accounts |-> Cardinality(Users(Day(d))),
                    avg_of_conversation_messages |-> Average(Day(d)), cost_consumption |-> Cost(Day(d))]
    BY DEF calculate_trend_by_messages
  <2>2. counts[d] = trend[d]["total_messages"] /\ costs[d] = trend[d]["cost_consumption"]
    OBVIOUS
  <2> HIDE DEF trend, counts, costs, Day
  <2> QED BY <2>1, <2>2
<1>3. \A d \in 1 .. WindowDays : counts[d] \in Int /\ costs[d] \in Int
  <2> SUFFICES ASSUME NEW d \in 1 .. WindowDays PROVE counts[d] \in Int /\ costs[d] \in Int
    OBVIOUS
  <2>1. Day(d) \in SUBSET DOMAIN log
    BY <1>1
  <2>2. Cardinality(Day(d)) \in Nat
    <3> HIDE DEF Day
    <3> QED BY <2>1, LogIsFinite
  <2>3. Cost(Day(d)) \in Int
    <3>1. Day(d) \intersect {} = {} /\ {} \in SUBSET DOMAIN log
      OBVIOUS
    <3> HIDE DEF Day
    <3> QED BY <2>1, <3>1, CostOfUnion
  <2> HIDE DEF Day, counts, costs
  <2> QED BY <1>2, <2>2, <2>3
<1>4. ASSUME NEW k \in Nat, k < WindowDays
      PROVE  /\ Before(k + 1) = Before(k) \union Day(k + 1) /\ Before(k) \intersect Day(k + 1) = {}
             /\ Before(k) \in SUBSET DOMAIN log /\ Day(k + 1) \in SUBSET DOMAIN log
  <2>1. Start(k + 1) = end - 2 * WindowDays + 2 * k /\ end - 2 * WindowDays + 2 * (k + 1) = Start(k + 1) + 2
    BY <1>0
  <2>2. Start(k + 1) \in Int
    BY <1>0
  <2>3. /\ Before(k) = {m \in ms : log[m].at < Start(k + 1)}
        /\ Before(k + 1) = {m \in ms : log[m].at < Start(k + 1) + 2}
    BY <2>1
  <2> HIDE DEF Start, Before
  <2> QED BY <1>1, <2>2, <2>3
<1> DEFINE T == {k \in Nat : k <= WindowDays =>
                    /\ SumOver(counts, 1 .. k) = Cardinality(Before(k))
                    /\ SumOver(costs, 1 .. k) = Cost(Before(k))}
<1>5. 0 \in T
  <2>1. Before(0) = {}
    BY <1>0, <1>1
  <2>2. 1 .. 0 = {}
    OBVIOUS
  <2>3. Cardinality({}) = 0 /\ IsFiniteSet({})
    BY FS_EmptySet
  <2>4. Cost({}) = 0
    <3>1. Cost({}) = SumOver(Prices, {})
      BY <2>3, CostIsSum
    <3> QED BY <3>1, SumOfNone
  <2>5. SumOver(counts, {}) = 0 /\ SumOver(costs, {}) = 0
    BY SumOfNone
  <2> HIDE DEF counts, costs, Before
  <2> QED BY <2>1, <2>2, <2>3, <2>4, <2>5
<1>6. ASSUME NEW k \in T PROVE k + 1 \in T
  <2>0. k \in Nat /\ k + 1 \in Nat
    OBVIOUS
  <2> SUFFICES ASSUME k + 1 <= WindowDays
               PROVE  /\ SumOver(counts, 1 .. k + 1) = Cardinality(Before(k + 1))
                      /\ SumOver(costs, 1 .. k + 1) = Cost(Before(k + 1))
    BY <2>0
  <2>1. k < WindowDays /\ k <= WindowDays /\ k + 1 \in 1 .. WindowDays
    BY <1>0, <2>0
  <2>2. SumOver(counts, 1 .. k) = Cardinality(Before(k)) /\ SumOver(costs, 1 .. k) = Cost(Before(k))
    BY <2>1
  <2>3. /\ Before(k + 1) = Before(k) \union Day(k + 1) /\ Before(k) \intersect Day(k + 1) = {}
        /\ Before(k) \in SUBSET DOMAIN log /\ Day(k + 1) \in SUBSET DOMAIN log
    BY <1>4, <2>0, <2>1
  <2>4. counts[k + 1] = Cardinality(Day(k + 1)) /\ costs[k + 1] = Cost(Day(k + 1))
    BY <1>2, <2>1
  <2> HIDE DEF Before, Day, counts, costs, T
  <2>5. Cardinality(Before(k + 1)) = Cardinality(Before(k)) + Cardinality(Day(k + 1))
    <3>1. IsFiniteSet(Before(k)) /\ IsFiniteSet(Day(k + 1))
      BY <2>3, LogIsFinite
    <3>2. /\ Cardinality(Before(k) \union Day(k + 1)) =
               Cardinality(Before(k)) + Cardinality(Day(k + 1)) - Cardinality(Before(k) \intersect Day(k + 1))
          /\ Cardinality(Before(k)) \in Nat /\ Cardinality(Day(k + 1)) \in Nat
      BY <2>3, <3>1, FS_Union, LogIsFinite
    <3>3. Cardinality(Before(k) \intersect Day(k + 1)) = 0
      BY <2>3, FS_EmptySet
    <3>4. Cardinality(Before(k + 1)) = Cardinality(Before(k) \union Day(k + 1))
      BY <2>3
    <3> DEFINE all == Cardinality(Before(k) \union Day(k + 1))  b == Cardinality(Before(k))
               d == Cardinality(Day(k + 1))  none == Cardinality(Before(k) \intersect Day(k + 1))
    <3>5. all = b + d - none /\ b \in Nat /\ d \in Nat /\ none = 0
      BY <3>2, <3>3
    <3>6. all = b + d
      <4> HIDE DEF all, b, d, none
      <4> QED BY <3>5
    <3> QED BY <3>4, <3>6
  <2>6. Cost(Before(k + 1)) = Cost(Before(k)) + Cost(Day(k + 1))
    BY <2>3, CostOfUnion
  <2>7. \A d \in 1 .. k + 1 : counts[d] \in Int /\ costs[d] \in Int
    BY <1>0, <1>3, <2>0, <2>1
  <2>8. /\ SumOver(counts, 1 .. k + 1) = SumOver(counts, 1 .. k) + counts[k + 1]
        /\ SumOver(costs, 1 .. k + 1) = SumOver(costs, 1 .. k) + costs[k + 1]
    BY <2>0, <2>7, NextDay
  <2> QED BY <2>2, <2>4, <2>5, <2>6, <2>8
<1>7. T = Nat
  <2>1. T \in SUBSET Nat
    OBVIOUS
  <2> HIDE DEF T
  <2> QED BY <1>5, <1>6, <2>1, CountTo
<1>8. Before(WindowDays) = ms
  BY <1>0, <1>1
<1>9. SumOver(counts, 1 .. WindowDays) = Cardinality(ms) /\ SumOver(costs, 1 .. WindowDays) = Cost(ms)
  <2>1. WindowDays \in T
    BY <1>0, <1>7
  <2> HIDE DEF counts, costs
  <2>2. /\ SumOver(counts, 1 .. WindowDays) = Cardinality(Before(WindowDays))
        /\ SumOver(costs, 1 .. WindowDays) = Cost(Before(WindowDays))
    BY <1>0, <2>1
  <2> HIDE DEF Before
  <2> QED BY <1>8, <2>2
<1>10. /\ TiledOf(trend, "total_messages") = SumOver(counts, 1 .. WindowDays)
       /\ TiledOf(trend, "cost_consumption") = SumOver(costs, 1 .. WindowDays)
  BY TiledIsSum
<1> QED BY <1>9, <1>10

WindowOf(table, end) ==
    {m \in DOMAIN table : end - 2 * WindowDays <= table[m].at /\ table[m].at < end /\ table[m].answered # -1}
EarlyOf(table, end) == {m \in WindowOf(table, end) : table[m].answered < end}

\* Figures of a day, whatever is answered later.
Bounded(table, n, end) ==
    n \in Nat /\ n <= Cardinality(WindowOf(table, end)) /\ n >= Cardinality(EarlyOf(table, end))
Tiles(figures) ==
    /\ TiledOf(figures.trend, "total_messages") = figures.overview.total_messages
    /\ TiledOf(figures.trend, "cost_consumption") = figures.overview.cost_consumption
\* What was read of a window is in it.
Within(table, ms, end) ==
    ms \subseteq DOMAIN table /\ \A m \in ms : end - 2 * WindowDays <= table[m].at /\ table[m].at < end
Fair(table, figures, end) == Bounded(table, figures.overview.total_messages, end) /\ Tiles(figures)

LogOK ==
    /\ log \in Seq(LogRow)
    /\ \A m \in DOMAIN log : log[m].at <= now /\ log[m].answered <= now

CacheOK == \A d \in DOMAIN cache : \A c \in cache[d] : 2 * d <= now /\ Fair(log, c.figures, 2 * d)

RequestOK(a) ==
    /\ analysis[a].at \in {"new", "hit", "computing", "comparing", "computed", "over"}
    /\ analysis[a].at # "new" => analysis[a].today \in 0 .. now
    /\ analysis[a].at \in {"hit", "computing"} =>
          analysis[a] = [at |-> analysis[a].at, today |-> analysis[a].today]
    /\ analysis[a].at = "comparing" =>
          /\ analysis[a] = [at |-> "comparing", today |-> analysis[a].today, recent |-> analysis[a].recent]
          /\ Within(log, analysis[a].recent, Midnight(analysis[a].today))
          /\ Bounded(log, Cardinality(analysis[a].recent), Midnight(analysis[a].today))
    /\ analysis[a].at \in {"computed", "over"} =>
          /\ analysis[a] = [at |-> analysis[a].at, today |-> analysis[a].today, figures |-> analysis[a].figures]
          /\ Fair(log, analysis[a].figures, Midnight(analysis[a].today))

AnalysisInv ==
    /\ now \in 0 .. MaxTime
    /\ DOMAIN cache = Days /\ DOMAIN analysis = Analysers
    /\ LogOK /\ CacheOK /\ \A a \in Analysers : RequestOK(a)

LEMMA MidnightIs ==
    ASSUME NEW t \in 0 .. MaxTime
    PROVE  /\ Midnight(t) \in Nat /\ Midnight(t) <= t
           /\ CacheKey(t) \in Days /\ Midnight(t) = 2 * CacheKey(t)
<1>1. MaxTime \in Nat /\ t \in Nat /\ t <= MaxTime
  BY WindowAssumption
<1>2. t % 2 \in 0 .. 1 /\ t = 2 * (t \div 2) + (t % 2) /\ t \div 2 \in Nat
  BY <1>1
<1>3. MaxTime % 2 \in 0 .. 1 /\ MaxTime = 2 * (MaxTime \div 2) + (MaxTime % 2) /\ MaxTime \div 2 \in Nat
  BY <1>1
<1>4. t \div 2 <= MaxTime \div 2
  BY <1>1, <1>2, <1>3
<1> QED BY <1>1, <1>2, <1>4 DEF Midnight, CacheKey, Days

LEMMA WindowIn ==
    ASSUME NEW table \in Seq(LogRow), NEW end
    PROVE  /\ IsFiniteSet(WindowOf(table, end)) /\ Cardinality(WindowOf(table, end)) \in Nat
           /\ IsFiniteSet(EarlyOf(table, end)) /\ Cardinality(EarlyOf(table, end)) \in Nat
<1>1. IsFiniteSet(DOMAIN table)
  <2>1. DOMAIN table = 1 .. Len(table) /\ Len(table) \in Nat
    OBVIOUS
  <2> QED BY <2>1, FS_Interval
<1>2. WindowOf(table, end) \subseteq DOMAIN table /\ EarlyOf(table, end) \subseteq DOMAIN table
  BY DEF WindowOf, EarlyOf
<1> QED BY <1>1, <1>2, FS_Subset, FS_CardinalityType

\* What is read of a window is in it and bounded.
LEMMA RecentIsBounded ==
    ASSUME log \in Seq(LogRow), NEW end \in Nat, NEW ms,
           ms = get_messages_by_time_range(end - 2 * WindowDays, end)
    PROVE  Within(log, ms, end) /\ Bounded(log, Cardinality(ms), end)
<1>1. Within(log, ms, end)
  BY DEF Within, get_messages_by_time_range
<1>2. ms = WindowOf(log, end) /\ EarlyOf(log, end) \subseteq ms
  BY DEF WindowOf, EarlyOf, get_messages_by_time_range
<1>3. IsFiniteSet(ms) /\ Cardinality(ms) \in Nat
  BY <1>2, WindowIn
<1>4. Cardinality(EarlyOf(log, end)) <= Cardinality(ms) /\ Cardinality(EarlyOf(log, end)) \in Nat
  BY <1>2, <1>3, FS_Subset, FS_CardinalityType
<1> QED BY <1>1, <1>2, <1>3, <1>4 DEF Bounded

\* What is computed of it is fair.
LEMMA FiguresAreFair ==
    ASSUME log \in Seq(LogRow), NEW end \in Nat, NEW ms, Within(log, ms, end),
           Bounded(log, Cardinality(ms), end)
    PROVE  Fair(log, Figures(end, ms), end)
<1>1. /\ Figures(end, ms).overview = calculate_overview_indicators_by_messages(ms)
      /\ Figures(end, ms).trend = calculate_trend_by_messages(end, ms)
  BY DEF Figures
<1>2. /\ calculate_overview_indicators_by_messages(ms).total_messages = Cardinality(ms)
      /\ calculate_overview_indicators_by_messages(ms).cost_consumption = Cost(ms)
  BY DEF calculate_overview_indicators_by_messages
<1>3. /\ TiledOf(calculate_trend_by_messages(end, ms), "total_messages") = Cardinality(ms)
      /\ TiledOf(calculate_trend_by_messages(end, ms), "cost_consumption") = Cost(ms)
  BY TrendTiles DEF Within
<1> QED BY <1>1, <1>2, <1>3 DEF Fair, Tiles

\* Figures of a day that is over stay fair: its window only fills up, with messages
\* that are answered later.
LEMMA BoundedStays ==
    ASSUME NEW table \in Seq(LogRow), NEW later \in Seq(LogRow), NEW end,
           WindowOf(table, end) \subseteq WindowOf(later, end), EarlyOf(later, end) = EarlyOf(table, end),
           NEW n, Bounded(table, n, end)
    PROVE  Bounded(later, n, end)
<1>1. /\ IsFiniteSet(WindowOf(later, end)) /\ Cardinality(WindowOf(later, end)) \in Nat
      /\ Cardinality(WindowOf(table, end)) \in Nat /\ Cardinality(EarlyOf(table, end)) \in Nat
  BY WindowIn
<1>2. Cardinality(WindowOf(table, end)) <= Cardinality(WindowOf(later, end))
  BY <1>1, FS_Subset
<1>3. n \in Nat /\ n <= Cardinality(WindowOf(table, end)) /\ n >= Cardinality(EarlyOf(table, end))
  BY DEF Bounded
<1>4. n <= Cardinality(WindowOf(later, end)) /\ n >= Cardinality(EarlyOf(later, end))
  BY <1>1, <1>2, <1>3
<1> QED BY <1>3, <1>4 DEF Bounded

\* A step of the world: it keeps the requests, and the cache but for entries it forgets.
LEMMA WorldOfAnalysisStep ==
    ASSUME AnalysisInv, UNCHANGED analysis, now' \in now .. MaxTime, LogOK',
           DOMAIN cache' = Days, \A d \in Days : cache'[d] \subseteq cache[d],
           DOMAIN log \subseteq DOMAIN log', \A m \in DOMAIN log : log'[m].at = log[m].at,
           \A end \in 0 .. now : /\ WindowOf(log, end) \subseteq WindowOf(log', end)
                                 /\ EarlyOf(log', end) = EarlyOf(log, end)
    PROVE  AnalysisInv'
<1>1. /\ now \in 0 .. MaxTime /\ DOMAIN cache = Days /\ DOMAIN analysis = Analysers
      /\ LogOK /\ CacheOK /\ \A a \in Analysers : RequestOK(a)
  BY DEF AnalysisInv
<1>2. now \in Nat /\ now' \in Nat /\ now <= now' /\ now' \in 0 .. MaxTime /\ MaxTime \in Nat
  BY <1>1, WindowAssumption
<1>3. ASSUME NEW end \in 0 .. now, NEW n, Bounded(log, n, end) PROVE Bounded(log', n, end)
  <2>1. log \in Seq(LogRow) /\ log' \in Seq(LogRow)
    BY <1>1 DEF LogOK
  <2>2. WindowOf(log, end) \subseteq WindowOf(log', end) /\ EarlyOf(log', end) = EarlyOf(log, end)
    OBVIOUS
  <2> QED BY <1>3, <2>1, <2>2, BoundedStays
<1>4. ASSUME NEW end \in 0 .. now, NEW figures, Fair(log, figures, end) PROVE Fair(log', figures, end)
  BY <1>4, <1>3 DEF Fair
<1>5. CacheOK'
  <2> SUFFICES ASSUME NEW d \in Days, NEW c \in cache'[d]
               PROVE  2 * d <= now' /\ Fair(log', c.figures, 2 * d)
    BY DEF CacheOK
  <2>1. 2 * d <= now /\ Fair(log, c.figures, 2 * d)
    BY <1>1 DEF CacheOK
  <2>2. 2 * d \in 0 .. now
    BY <1>2, <2>1, WindowAssumption DEF Days
  <2>3. now \in Int /\ now' \in Int /\ 2 * d \in Int
    BY <1>2, <2>2
  <2>4. 2 * d <= now'
    BY <1>2, <2>1, <2>3
  <2> QED BY <1>4, <2>1, <2>2, <2>4
<1>6. ASSUME NEW a \in Analysers PROVE RequestOK(a)'
  <2>1. RequestOK(a)
    BY <1>1
  <2>2. analysis[a].at # "new" => analysis[a].today \in 0 .. now'
    BY <1>2, <2>1 DEF RequestOK
  <2>3. analysis[a].at \in {"computed", "over"} => Fair(log', analysis[a].figures, Midnight(analysis[a].today))
    <3> SUFFICES ASSUME analysis[a].at \in {"computed", "over"}
                 PROVE  Fair(log', analysis[a].figures, Midnight(analysis[a].today))
      OBVIOUS
    <3>1. Fair(log, analysis[a].figures, Midnight(analysis[a].today)) /\ analysis[a].today \in 0 .. now
      BY <2>1 DEF RequestOK
    <3>2. Midnight(analysis[a].today) \in 0 .. now
      <4>1. analysis[a].today \in 0 .. MaxTime
        BY <1>1, <1>2, <3>1
      <4>2. Midnight(analysis[a].today) \in Nat /\ Midnight(analysis[a].today) <= analysis[a].today
        BY <4>1, MidnightIs
      <4> QED BY <1>2, <3>1, <4>2
    <3> QED BY <1>4, <3>1, <3>2
  <2>4. Midnight(analysis[a].today)' = Midnight(analysis[a].today)
    BY DEF Midnight
  <2>5. ASSUME analysis[a].at = "comparing"
        PROVE  /\ Within(log', analysis[a].recent, Midnight(analysis[a].today))
               /\ Bounded(log', Cardinality(analysis[a].recent), Midnight(analysis[a].today))
    <3>1. /\ Within(log, analysis[a].recent, Midnight(analysis[a].today))
          /\ Bounded(log, Cardinality(analysis[a].recent), Midnight(analysis[a].today))
          /\ analysis[a].today \in 0 .. now
      BY <2>1, <2>5 DEF RequestOK
    <3>2. Midnight(analysis[a].today) \in 0 .. now
      <4>1. analysis[a].today \in 0 .. MaxTime
        BY <1>1, <1>2, <3>1
      <4>2. Midnight(analysis[a].today) \in Nat /\ Midnight(analysis[a].today) <= analysis[a].today
        BY <4>1, MidnightIs
      <4> QED BY <1>2, <3>1, <4>2
    <3>3. Within(log', analysis[a].recent, Midnight(analysis[a].today))
      BY <3>1 DEF Within
    <3> QED BY <1>3, <3>1, <3>2, <3>3
  <2>6. analysis' = analysis
    OBVIOUS
  <2> QED BY <2>1, <2>2, <2>3, <2>4, <2>5, <2>6 DEF RequestOK
<1> QED BY <1>1, <1>2, <1>5, <1>6 DEF AnalysisInv

LEMMA AnalysisInitially == AnalysisInit => AnalysisInv
<1> SUFFICES ASSUME AnalysisInit PROVE AnalysisInv
  OBVIOUS
<1>1. now \in 0 .. MaxTime
  BY WindowAssumption DEF AnalysisInit
<1>2. LogOK
  <2>1. log \in Seq(LogRow) /\ DOMAIN log = {}
    BY DEF AnalysisInit
  <2> QED BY <2>1 DEF LogOK
<1>3. CacheOK /\ DOMAIN cache = Days
  BY DEF AnalysisInit, CacheOK
<1>4. \A a \in Analysers : analysis[a].at = "new"
  BY DEF AnalysisInit, NoAnalysis
<1>5. \A a \in Analysers : RequestOK(a)
  BY <1>4 DEF RequestOK
<1>6. DOMAIN analysis = Analysers
  BY DEF AnalysisInit
<1> QED BY <1>1, <1>2, <1>3, <1>5, <1>6 DEF AnalysisInv

\* A step of a request.
LEMMA RequestStep ==
    ASSUME AnalysisInv, NEW a \in Analysers, NEW value, analysis' = [analysis EXCEPT ![a] = value],
           UNCHANGED <<now, log>>, DOMAIN cache' = Days, CacheOK', RequestOK(a)'
    PROVE  AnalysisInv'
<1>1. /\ now \in 0 .. MaxTime /\ DOMAIN analysis = Analysers /\ LogOK
      /\ \A b \in Analysers : RequestOK(b)
  BY DEF AnalysisInv
<1>2. ASSUME NEW b \in Analysers, b # a PROVE RequestOK(b)'
  <2>1. analysis'[b] = analysis[b]
    BY <1>1, <1>2
  <2>2. RequestOK(b)
    BY <1>1
  <2>3. Midnight(analysis[b].today)' = Midnight(analysis[b].today)
    BY <2>1 DEF Midnight
  <2> QED BY <2>1, <2>2, <2>3 DEF RequestOK
<1>3. LogOK' /\ now' \in 0 .. MaxTime /\ DOMAIN analysis' = Analysers
  BY <1>1 DEF LogOK
<1> QED BY <1>2, <1>3 DEF AnalysisInv

LEMMA AnalysisStep == AnalysisInv /\ [AnalysisNext]_analysisVars => AnalysisInv'
<1> SUFFICES ASSUME AnalysisInv, [AnalysisNext]_analysisVars PROVE AnalysisInv'
  OBVIOUS
<1>0. /\ now \in 0 .. MaxTime /\ DOMAIN cache = Days /\ DOMAIN analysis = Analysers
      /\ LogOK /\ CacheOK /\ \A a \in Analysers : RequestOK(a)
  BY DEF AnalysisInv
<1>00. now \in Nat /\ MaxTime \in Nat /\ now <= MaxTime /\ log \in Seq(LogRow)
  BY <1>0, WindowAssumption DEF LogOK
<1>000. \A m \in DOMAIN log : log[m] \in LogRow /\ log[m].at \in Nat /\ log[m].answered \in Int
  <2>1. \A m \in DOMAIN log : log[m] \in LogRow
    BY <1>00
  <2> QED BY <2>1 DEF LogRow
<1>1. ASSUME Tick PROVE AnalysisInv'
  <2>1. now' = now + 1 /\ now < MaxTime /\ UNCHANGED <<log, analysis>>
    BY <1>1 DEF Tick
  <2>2. now' \in now .. MaxTime
    BY <1>00, <2>1
  <2>3. LogOK'
    BY <1>0, <1>00, <1>000, <2>1 DEF LogOK
  <2>4. DOMAIN cache' = Days /\ \A d \in Days : cache'[d] \subseteq cache[d]
    BY <1>1 DEF Tick
  <2> QED BY <2>1, <2>2, <2>3, <2>4, WorldOfAnalysisStep
<1>2. ASSUME NewMessageRow PROVE AnalysisInv'
  <2>1. PICK kind \in Kinds : log' = Append(log, [at |-> now, answered |-> -1, kind |-> kind])
    BY <1>2 DEF NewMessageRow
  <2>2. UNCHANGED <<now, cache, analysis>>
    BY <1>2 DEF NewMessageRow
  <2> DEFINE new == [at |-> now, answered |-> -1, kind |-> kind]
  <2>3. new \in LogRow
    BY <1>00 DEF LogRow
  <2>4. new.at = now /\ new.answered = -1
    OBVIOUS
  <2> HIDE DEF new
  <2>5. /\ log' \in Seq(LogRow) /\ DOMAIN log' = (DOMAIN log) \union {Len(log) + 1}
        /\ Len(log) + 1 \notin DOMAIN log
        /\ log'[Len(log) + 1] = new /\ \A m \in DOMAIN log : log'[m] = log[m]
    BY <1>00, <2>1, <2>3 DEF new
  <2>6. LogOK'
    BY <1>0, <1>00, <2>2, <2>4, <2>5 DEF LogOK
  <2>7. ASSUME NEW end
        PROVE  WindowOf(log', end) = WindowOf(log, end) /\ EarlyOf(log', end) = EarlyOf(log, end)
    <3>1. WindowOf(log', end) = WindowOf(log, end)
      BY <2>4, <2>5 DEF WindowOf
    <3>2. \A m \in WindowOf(log, end) : log'[m] = log[m]
      BY <2>5 DEF WindowOf
    <3> QED BY <3>1, <3>2 DEF EarlyOf
  <2>8. DOMAIN log \subseteq DOMAIN log' /\ \A m \in DOMAIN log : log'[m].at = log[m].at
    BY <2>5
  <2> QED BY <1>0, <1>00, <2>2, <2>6, <2>7, <2>8, WorldOfAnalysisStep
<1>3. ASSUME AnswerMessage PROVE AnalysisInv'
  <2>1. PICK m \in DOMAIN log : log[m].answered = -1 /\ log' = [log EXCEPT ![m].answered = now]
    BY <1>3 DEF AnswerMessage
  <2>2. UNCHANGED <<now, cache, analysis>>
    BY <1>3 DEF AnswerMessage
  <2>3. /\ log'[m] = [at |-> log[m].at, answered |-> now, kind |-> log[m].kind] /\ log'[m] \in LogRow
        /\ log[m].kind \in Kinds
    <3>1. log'[m] = [log[m] EXCEPT !.answered = now]
      BY <2>1
    <3> QED BY <1>00, <1>000, <3>1 DEF LogRow
  <2>4. DOMAIN log' = DOMAIN log /\ \A k \in DOMAIN log : k # m => log'[k] = log[k]
    BY <2>1
  <2>5. log' \in Seq(LogRow)
    <3>1. DOMAIN log = 1 .. Len(log) /\ Len(log) \in Nat
      BY <1>00
    <3>2. log' = [k \in 1 .. Len(log) |-> log'[k]]
      BY <2>1, <3>1
    <3>3. \A k \in 1 .. Len(log) : log'[k] \in LogRow
      BY <1>000, <2>3, <2>4, <3>1
    <3> QED BY <3>1, <3>2, <3>3
  <2>6. LogOK'
    BY <1>0, <1>00, <2>2, <2>3, <2>4, <2>5 DEF LogOK
  <2>7. \A k \in DOMAIN log : log'[k].at = log[k].at /\ (k # m => log'[k].answered = log[k].answered)
    BY <2>3, <2>4
  <2>8. log'[m].answered = now /\ now # -1
    BY <1>00, <2>3
  <2>9. ASSUME NEW end \in 0 .. now
        PROVE  WindowOf(log, end) \subseteq WindowOf(log', end) /\ EarlyOf(log', end) = EarlyOf(log, end)
    <3>1. WindowOf(log', end) \subseteq WindowOf(log, end) \union {m}
      BY <2>4, <2>7 DEF WindowOf
    <3>2. WindowOf(log, end) \subseteq WindowOf(log', end) /\ m \notin WindowOf(log, end)
      BY <2>1, <2>4, <2>7, <2>8 DEF WindowOf
    <3>3. ~(log'[m].answered < end)
      BY <1>00, <2>8
    <3>4. \A k \in WindowOf(log, end) : log'[k].answered = log[k].answered
      BY <2>7, <3>2 DEF WindowOf
    <3> QED BY <3>1, <3>2, <3>3, <3>4 DEF EarlyOf
  <2>10. DOMAIN log \subseteq DOMAIN log' /\ \A k \in DOMAIN log : log'[k].at = log[k].at
    BY <2>4, <2>7
  <2> QED BY <1>0, <1>00, <2>2, <2>6, <2>9, <2>10, WorldOfAnalysisStep
<1>4. ASSUME NEW a \in Analysers, get_app_analysis(a) PROVE AnalysisInv'
  <2>0. RequestOK(a)
    BY <1>0
  <2>1. CASE AskAnalysis(a)
    <3>1. PICK at \in {"hit", "computing"} : analysis' = [analysis EXCEPT ![a] = [at |-> at, today |-> now]]
      BY <2>1 DEF AskAnalysis, Analyses
    <3>2. UNCHANGED <<now, log, cache>>
      BY <2>1 DEF AskAnalysis, Analyses
    <3>3. analysis'[a] = [at |-> at, today |-> now]
      BY <1>0, <3>1
    <3>4. RequestOK(a)'
      BY <1>00, <3>2, <3>3 DEF RequestOK
    <3>5. CacheOK'
      BY <1>0, <3>2 DEF CacheOK
    <3> QED BY <1>0, <3>1, <3>2, <3>4, <3>5, RequestStep
  <2>2. CASE ReadCache(a)
    <3>1. UNCHANGED <<now, log, cache>> /\ analysis[a].at = "hit"
      BY <2>2 DEF ReadCache, Analyses
    <3>2. CacheOK'
      BY <1>0, <3>1 DEF CacheOK
    <3>3. /\ analysis[a] = [at |-> "hit", today |-> analysis[a].today]
          /\ analysis[a].today \in 0 .. now
      BY <2>0, <3>1 DEF RequestOK
    <3> DEFINE today == analysis[a].today
    <3>4. /\ today \in 0 .. MaxTime /\ Midnight(today) = 2 * CacheKey(today) /\ CacheKey(today) \in Days
          /\ today \in 0 .. now
      <4>1. today \in 0 .. MaxTime
        BY <1>00, <3>3
      <4> HIDE DEF today
      <4>2. Midnight(today) = 2 * CacheKey(today) /\ CacheKey(today) \in Days
        BY <4>1, MidnightIs
      <4> QED BY <3>3, <4>1, <4>2 DEF today
    <3>5. CASE analysis' = [analysis EXCEPT ![a] = [analysis[a] EXCEPT !.at = "computing"]]
      <4>1. analysis'[a] = [at |-> "computing", today |-> today]
        BY <1>0, <3>3, <3>5
      <4>2. RequestOK(a)'
        BY <3>1, <3>4, <4>1 DEF RequestOK
      <4> QED BY <1>0, <3>1, <3>2, <3>5, <4>2, RequestStep
    <3>6. ASSUME NEW c \in cache[CacheKey(today)],
                 analysis' = [analysis EXCEPT ![a] = [at |-> "over", today |-> today, figures |-> c.figures]]
          PROVE  AnalysisInv'
      <4>1. analysis'[a] = [at |-> "over", today |-> today, figures |-> c.figures]
        BY <1>0, <3>6
      <4>2. Fair(log, c.figures, Midnight(today))
        <5>1. CacheKey(today) \in DOMAIN cache
          BY <1>0, <3>4
        <5>2. Fair(log, c.figures, 2 * CacheKey(today))
          BY <1>0, <5>1 DEF CacheOK
        <5> QED BY <3>4, <5>2
      <4>3. Midnight(analysis[a].today)' = Midnight(today)
        BY <4>1 DEF Midnight
      <4> HIDE DEF today
      <4>4. RequestOK(a)'
        BY <3>1, <3>4, <4>1, <4>2, <4>3 DEF RequestOK
      <4> QED BY <1>0, <3>1, <3>2, <3>6, <4>4, RequestStep
    <3> QED BY <2>2, <3>5, <3>6 DEF ReadCache, Analyses
  <2>3. CASE ReadRecent(a)
    <3> DEFINE today == analysis[a].today
    <3>1. PICK end, recent :
             /\ end = Midnight(today) /\ recent = get_messages_by_time_range(end - 2 * WindowDays, end)
             /\ analysis' = [analysis EXCEPT ![a] = [at |-> "comparing", today |-> today, recent |-> recent]]
      BY <2>3 DEF ReadRecent, Analyses
    <3>2. UNCHANGED <<now, log, cache>> /\ analysis[a].at = "computing"
      BY <2>3 DEF ReadRecent, Analyses
    <3>3. CacheOK'
      BY <1>0, <3>2 DEF CacheOK
    <3>4. today \in 0 .. now /\ today \in 0 .. MaxTime
      BY <1>00, <2>0, <3>2 DEF RequestOK
    <3>5. analysis'[a] = [at |-> "comparing", today |-> today, recent |-> recent]
      BY <1>0, <3>1
    <3> HIDE DEF today
    <3>6. end \in Nat
      BY <3>1, <3>4, MidnightIs
    <3>7. Within(log, recent, end) /\ Bounded(log, Cardinality(recent), end)
      BY <1>00, <3>1, <3>6, RecentIsBounded
    <3>8. Midnight(analysis[a].today)' = end
      BY <3>1, <3>5 DEF Midnight
    <3>9. analysis'[a].at = "comparing" /\ analysis'[a].today = today /\ analysis'[a].recent = recent
      BY <3>5
    <3>10. RequestOK(a)'
      BY <3>2, <3>4, <3>5, <3>7, <3>8, <3>9 DEF RequestOK
    <3> QED BY <1>0, <3>1, <3>2, <3>3, <3>10, RequestStep
  <2>4. CASE Compute(a)
    <3> DEFINE today == analysis[a].today
               figures == Figures(Midnight(today), analysis[a].recent)
    <3>1. /\ UNCHANGED <<now, log, cache>> /\ analysis[a].at = "comparing"
          /\ analysis' = [analysis EXCEPT ![a] = [at |-> "computed", today |-> today, figures |-> figures]]
      BY <2>4 DEF Compute, Analyses
    <3>2. CacheOK'
      BY <1>0, <3>1 DEF CacheOK
    <3>3. today \in 0 .. now /\ today \in 0 .. MaxTime
      BY <1>00, <2>0, <3>1 DEF RequestOK
    <3>4. Fair(log, figures, Midnight(today))
      <4>1. Midnight(today) \in Nat
        BY <3>3, MidnightIs
      <4>2. /\ Within(log, analysis[a].recent, Midnight(today))
            /\ Bounded(log, Cardinality(analysis[a].recent), Midnight(today))
        BY <2>0, <3>1 DEF RequestOK
      <4> QED BY <1>00, <4>1, <4>2, FiguresAreFair
    <3>5. analysis'[a] = [at |-> "computed", today |-> today, figures |-> figures]
      BY <1>0, <3>1
    <3>6. Midnight(analysis[a].today)' = Midnight(today)
      BY <3>5 DEF Midnight
    <3> HIDE DEF figures, today
    <3>7. RequestOK(a)'
      BY <3>1, <3>3, <3>4, <3>5, <3>6 DEF RequestOK
    <3> QED BY <1>0, <3>1, <3>2, <3>7, RequestStep
  <2>5. CASE WriteCache(a)
    <3> DEFINE today == analysis[a].today
               figures == analysis[a].figures
    <3>1. /\ UNCHANGED <<now, log>> /\ analysis[a].at = "computed"
          /\ analysis' = [analysis EXCEPT ![a] = [analysis[a] EXCEPT !.at = "over"]]
      BY <2>5 DEF WriteCache, Analyses
    <3>2. /\ analysis[a] = [at |-> "computed", today |-> today, figures |-> figures]
          /\ today \in 0 .. now /\ today \in 0 .. MaxTime /\ Fair(log, figures, Midnight(today))
      BY <1>00, <2>0, <3>1 DEF RequestOK
    <3>3. analysis'[a] = [at |-> "over", today |-> today, figures |-> figures]
      <4>1. analysis'[a] = [analysis[a] EXCEPT !.at = "over"]
        BY <1>0, <3>1
      <4> QED BY <3>2, <4>1
    <3>4. Midnight(analysis[a].today)' = Midnight(today)
      BY <3>3 DEF Midnight
    <3>5. DOMAIN cache' = Days /\ CacheOK'
      <4>1. CASE UNCHANGED cache
        BY <1>0, <3>1, <4>1 DEF CacheOK
      <4>2. CASE cache' = [cache EXCEPT ![CacheKey(today)] = {[figures |-> figures, expires |-> now + 2]}]
        <5>1. Midnight(today) = 2 * CacheKey(today) /\ Midnight(today) <= today /\ Midnight(today) \in Nat
          BY <3>2, MidnightIs
        <5>2. ASSUME NEW d \in DOMAIN cache', NEW c \in cache'[d]
              PROVE  2 * d <= now /\ Fair(log, c.figures, 2 * d)
          <6>1. CASE d = CacheKey(today)
            <7>1. c.figures = figures
              BY <1>0, <4>2, <5>2, <6>1
            <7>2. 2 * d <= now
              <8>1. today \in Int /\ today <= now /\ now \in Int
                BY <1>00, <3>2
              <8> HIDE DEF today
              <8>2. 2 * d = Midnight(today)
                BY <5>1, <6>1
              <8> QED BY <5>1, <8>1, <8>2
            <7>3. Fair(log, figures, 2 * d)
              BY <3>2, <5>1, <6>1
            <7> QED BY <7>1, <7>2, <7>3
          <6>2. CASE d # CacheKey(today)
            <7>1. c \in cache[d] /\ d \in DOMAIN cache
              BY <1>0, <4>2, <6>2
            <7> QED BY <1>0, <7>1 DEF CacheOK
          <6> QED BY <6>1, <6>2
        <5> QED BY <1>0, <3>1, <4>2, <5>2 DEF CacheOK
      <4> QED BY <2>5, <4>1, <4>2 DEF WriteCache
    <3> HIDE DEF today, figures
    <3>6. RequestOK(a)'
      BY <3>1, <3>2, <3>3, <3>4 DEF RequestOK
    <3> QED BY <1>0, <3>1, <3>5, <3>6, RequestStep
  <2> QED BY <1>4, <2>1, <2>2, <2>4, <2>5, <2>3 DEF get_app_analysis
<1>5. ASSUME UNCHANGED analysisVars PROVE AnalysisInv'
  <2>1. UNCHANGED <<now, log, cache, analysis>>
    BY <1>5 DEF analysisVars
  <2>2. LogOK'
    BY <1>0, <2>1 DEF LogOK
  <2> QED BY <1>0, <1>00, <2>1, <2>2, WorldOfAnalysisStep
<1> QED BY <1>1, <1>2, <1>3, <1>4, <1>5 DEF AnalysisNext

\* Figures that are served count every message of their window that was answered
\* before the midnight that ends it, count nothing else, and their trend tiles them,
\* for any window, any number of requests and messages, and any integer prices.
THEOREM FiguresAreOfToday == AnalysisSpec => []ServedIsOfToday
<1>1. AnalysisInit => AnalysisInv
  BY AnalysisInitially
<1>2. AnalysisInv /\ [AnalysisNext]_analysisVars => AnalysisInv'
  BY AnalysisStep
<1>3. AnalysisInv => ServedIsOfToday
  <2> DEFINE end(a) == Midnight(analysis[a].today)
             window(a) == get_messages_by_time_range(end(a) - 2 * WindowDays, end(a))
             n(a) == analysis[a].figures.overview.total_messages
  <2> SUFFICES ASSUME AnalysisInv, NEW a \in Analysers, analysis[a].at = "over"
               PROVE  /\ n(a) <= Cardinality(window(a))
                      /\ n(a) >= Cardinality({m \in window(a) : log[m].answered < end(a)})
                      /\ TiledOf(analysis[a].figures.trend, "total_messages") = n(a)
                      /\ TiledOf(analysis[a].figures.trend, "cost_consumption") =
                            analysis[a].figures.overview.cost_consumption
    BY DEF ServedIsOfToday, TiledOf, MapThenSumSet, MapThenFoldSet
  <2>1. Fair(log, analysis[a].figures, end(a))
    BY DEF AnalysisInv, RequestOK
  <2>2. \A e : get_messages_by_time_range(e - 2 * WindowDays, e) = WindowOf(log, e)
    BY DEF get_messages_by_time_range, WindowOf
  <2>3. window(a) = WindowOf(log, end(a)) /\ {m \in window(a) : log[m].answered < end(a)} = EarlyOf(log, end(a))
    BY <2>2 DEF EarlyOf
  <2> HIDE DEF window, end
  <2> QED BY <2>1, <2>3 DEF Fair, Bounded, Tiles
<1> QED BY <1>1, <1>2, <1>3, PTL DEF AnalysisSpec

-----------------------------------------------------------------------------
\* A day has one analysis in the cache, which expires a day after it was stored.
EntriesAgree == \A d \in Days : \A c, e \in cache[d] : c = e /\ c.expires <= MaxTime + 2

LEMMA AnalysisTyped == AnalysisInv /\ EntriesAgree => AnalysisTypeOK
<1> SUFFICES ASSUME AnalysisInv, EntriesAgree PROVE AnalysisTypeOK
  OBVIOUS
<1>1. ASSUME NEW m \in DOMAIN log PROVE log[m].at <= now /\ log[m].answered <= now /\ log[m].kind \in Kinds
  <2>1. log \in Seq(LogRow)
    BY DEF AnalysisInv, LogOK
  <2>2. log[m] \in LogRow
    BY <2>1
  <2> QED BY <2>2 DEF AnalysisInv, LogOK, LogRow
<1>2. ASSUME NEW d \in Days, cache[d] # {} PROVE \E c \in cache[d] : cache[d] = {c} /\ c.expires <= MaxTime + 2
  <2>1. PICK c \in cache[d] : TRUE
    BY <1>2
  <2>2. cache[d] = {c}
    BY <2>1 DEF EntriesAgree
  <2> QED BY <2>1, <2>2 DEF EntriesAgree
<1>3. ASSUME NEW a \in Analysers
      PROVE  analysis[a].at \in {"new", "hit", "computing", "comparing", "computed", "over"}
  BY DEF AnalysisInv, RequestOK
<1> QED BY <1>1, <1>2, <1>3 DEF AnalysisTypeOK, AnalysisInv

LEMMA EntriesStep == AnalysisInv /\ EntriesAgree /\ [AnalysisNext]_analysisVars => EntriesAgree'
<1> SUFFICES ASSUME AnalysisInv, EntriesAgree, [AnalysisNext]_analysisVars PROVE EntriesAgree'
  OBVIOUS
<1>1. CASE UNCHANGED cache
  BY <1>1 DEF EntriesAgree
<1>2. CASE Tick
  <2>1. \A d \in Days : cache'[d] \subseteq cache[d]
    BY <1>2 DEF Tick
  <2> QED BY <2>1 DEF EntriesAgree
<1>3. ASSUME NEW a \in Analysers, WriteCache(a) PROVE EntriesAgree'
  <2>1. CASE UNCHANGED cache
    BY <1>1, <2>1
  <2>2. CASE cache' = [cache EXCEPT ![CacheKey(analysis[a].today)] =
                          {[figures |-> analysis[a].figures, expires |-> now + 2]}]
    <3>1. PICK k, figures : k = CacheKey(analysis[a].today) /\ figures = analysis[a].figures
      OBVIOUS
    <3> DEFINE new == [figures |-> figures, expires |-> now + 2]
    <3>2. new.expires <= MaxTime + 2
      BY WindowAssumption DEF AnalysisInv
    <3>3. cache' = [cache EXCEPT ![k] = {new}] /\ DOMAIN cache = Days
      BY <2>2, <3>1 DEF AnalysisInv
    <3> HIDE DEF new
    <3>4. \A d \in Days : cache'[d] = IF d = k THEN {new} ELSE cache[d]
      BY <3>3
    <3> QED BY <3>2, <3>4 DEF EntriesAgree
  <2> QED BY <1>3, <2>1, <2>2 DEF WriteCache
<1> QED BY <1>1, <1>2, <1>3 DEF AnalysisNext, NewMessageRow, AnswerMessage, get_app_analysis, AskAnalysis,
           ReadCache, ReadRecent, Compute, analysisVars

LEMMA AnalysisTypeCorrect == AnalysisSpec => []AnalysisTypeOK
<1>1. AnalysisInit => EntriesAgree
  BY DEF AnalysisInit, EntriesAgree
<1> QED BY <1>1, AnalysisInitially, AnalysisStep, AnalysisTyped, EntriesStep, PTL DEF AnalysisSpec
================================================================================
