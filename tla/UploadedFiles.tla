----------------------------- MODULE UploadedFiles -----------------------------
(***************************************************************************)
(* CosService: a file becomes an object in the bucket and then a row; when *)
(* the row cannot be written the object is removed again.                  *)
(***************************************************************************)
EXTENDS Naturals

CONSTANTS Uploads          \* requests, each with the random key of its object

VARIABLES upload,          \* how far each request is
          objects,         \* keys in the bucket
          fileRows,        \* keys that an UploadFile row names
          logged           \* keys logged as left to be cleaned up

fileVars == <<upload, objects, fileRows, logged>>

FilesTypeOK ==
    /\ upload \in [Uploads -> {"new", "checked", "stored", "compensating", "done", "refused", "lost",
                          "crashed"}]
    /\ objects \subseteq Uploads
    /\ fileRows \subseteq Uploads
    /\ logged \subseteq Uploads

FilesInit ==
    /\ upload = [u \in Uploads |-> "new"]
    /\ objects = {}
    /\ fileRows = {}
    /\ logged = {}

UploadGoes(u, from, to) ==
    /\ upload[u] = from
    /\ upload' = [upload EXCEPT ![u] = to]

\* The name, the extension and the size are checked before anything is stored.
CheckFile(u) ==
    /\ UploadGoes(u, "new", "checked") \/ UploadGoes(u, "new", "refused")
    /\ UNCHANGED <<objects, fileRows, logged>>

\* A call that fails may have stored the object all the same.
put_object(u) ==
    \/ /\ UploadGoes(u, "checked", "stored")
       /\ objects' = objects \union {u}
       /\ UNCHANGED <<fileRows, logged>>
    \/ /\ UploadGoes(u, "checked", "lost")
       /\ objects' \in {objects, objects \union {u}}
       /\ UNCHANGED <<fileRows, logged>>

create_upload_file(u) ==
    \/ /\ UploadGoes(u, "stored", "done")
       /\ fileRows' = fileRows \union {u}
       /\ UNCHANGED <<objects, logged>>
    \/ /\ UploadGoes(u, "stored", "compensating")
       /\ UNCHANGED <<objects, fileRows, logged>>

\* Mutant: the failure of the row is only reported.
delete_object_Never(u) ==
    /\ UploadGoes(u, "compensating", "refused")
    /\ UNCHANGED <<objects, fileRows, logged>>

delete_object(u) ==
    \/ /\ UploadGoes(u, "compensating", "refused")
       /\ objects' = objects \ {u}
       /\ UNCHANGED <<fileRows, logged>>
    \/ /\ UploadGoes(u, "compensating", "refused")
       /\ logged' = logged \union {u}
       /\ UNCHANGED <<objects, fileRows>>

\* The process dies.
UploadCrashes(u) ==
    /\ \E from \in {"checked", "stored", "compensating"} : UploadGoes(u, from, "crashed")
    /\ UNCHANGED <<objects, fileRows, logged>>

upload_file(u) ==
    CheckFile(u) \/ put_object(u) \/ create_upload_file(u) \/ delete_object(u) \/ UploadCrashes(u)

FilesNext == \E u \in Uploads : upload_file(u)

FilesSpec == FilesInit /\ [][FilesNext]_fileVars

-----------------------------------------------------------------------------
\* A row never names an object that is not there, and a failure to write the row
\* leaves an object behind only if its key was logged: the others are left by a
\* crash, or by a call that failed and stored it all the same.
FilesAreAccountedFor ==
    /\ fileRows \subseteq objects
    /\ \A u \in objects \ fileRows :
          \/ upload[u] \in {"stored", "compensating", "crashed", "lost"}
          \/ u \in logged
=============================================================================
