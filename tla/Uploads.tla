------------------------------ MODULE Uploads ------------------------------
(***************************************************************************)
(* Uploads and downloads: handleUploadFile and handleFile                  *)
(* (pkg/server/handler_files.go) across two stores that no transaction     *)
(* spans, the object storage (pkg/storage) and the table gomyadmin_files.  *)
(* An upload draws a random key and a random id of its own, so both are    *)
(* named by the upload.  A body is a number of chunks.                     *)
(***************************************************************************)
EXTENDS Naturals

CONSTANTS Uploads, Downloads,
          Tenants, None,     \* None: no tenant, no object, no row
          Storages,          \* the adapters an application may pick
          Chunks             \* the size of a body

ASSUME ConstantsAssumption ==
  /\ Storages \subseteq {"local", "memory", "s3"}
  /\ Chunks \in Nat \ {0}
  /\ Uploads \intersect Downloads = {}
  /\ None \notin Tenants \union Nat \union [tenant : Tenants \union {None}]

VARIABLES
  storage,  \* the adapter it has picked
  objects,  \* objects[u]: what the storage holds under the key of u
  rows,     \* rows[u]: the tenant in the row of u, or None
  trail,    \* the uploads whose file_upload is in the audit log
  tenant,   \* tenant[r]: the tenant of the actor of request r
  super,    \* the downloads whose actor is a super_admin
  step,     \* step[r]: what request r does next
  answer,   \* answer[r]: its HTTP status
  file,     \* file[d]: the upload that download d asks for
  got,      \* got[d]: what it was sent
  stored,   \* ghost: stored[d]: the uploads confirmed before d began
  failed    \* ghost: the downloads whose own query, Get or copy has failed

setting == <<storage, tenant, super>>
reading == <<file, got, stored, failed>>
vars == <<objects, rows, trail, step, answer, setting, reading>>

Requests == Uploads \union Downloads
Object == 0 .. Chunks    \* what has been written of it

TypeOK ==
  /\ storage \in Storages /\ super \subseteq Downloads
  /\ objects \in [Uploads -> Object \union {None}]
  /\ rows \in [Uploads -> [tenant : Tenants \union {None}] \union {None}]
  /\ trail \subseteq Uploads
  /\ tenant \in [Requests -> Tenants \union {None}]
  /\ step \in [Requests -> {"new", "write", "record", "audit", "fetch", "done", "lost"}]
  /\ answer \in [Requests -> {0, 200, 201, 400, 403, 404, 500}]
  /\ file \in [Downloads -> Uploads \union {None}]
  /\ got \in [Downloads -> Object \union {None}]

Init ==
  /\ storage \in Storages
  /\ super \in SUBSET Downloads
  /\ objects = [u \in Uploads |-> None]
  /\ rows = [u \in Uploads |-> None]
  /\ trail = {}
  /\ tenant \in [Requests -> Tenants \union {None}]
  /\ step = [r \in Requests |-> "new"]
  /\ answer = [r \in Requests |-> 0]
  /\ file = [d \in Downloads |-> None]
  /\ got = [d \in Downloads |-> None]
  /\ stored = [d \in Downloads |-> {}]
  /\ failed = {}

-----------------------------------------------------------------------------
Goto(r, next) == step' = [step EXCEPT ![r] = next] /\ UNCHANGED answer
Send(r, status) ==
  /\ step' = [step EXCEPT ![r] = "done"]
  /\ answer' = [answer EXCEPT ![r] = status]

\* handleUploadFile up to Put: permission, form, type; then the key.  Local
\* creates the file empty, the others read the whole body first.
Upload(u) ==
  /\ step[u] = "new"
  /\ \/ \E status \in {400, 403} : Send(u, status) /\ UNCHANGED objects
     \/ /\ Goto(u, "write")
        /\ objects' = IF storage = "local" THEN [objects EXCEPT ![u] = 0] ELSE objects
  /\ UNCHANGED <<rows, trail, setting, reading>>

\* io.Copy of Local: another chunk reaches the file.
CopyChunk(u) ==
  /\ storage = "local"
  /\ step[u] = "write" /\ objects[u] < Chunks
  /\ objects' = [objects EXCEPT ![u] = @ + 1]
  /\ UNCHANGED <<rows, trail, step, answer, setting, reading>>

\* Put has stored the whole object.
Stored(u) ==
  /\ step[u] = "write"
  /\ \/ storage = "local" /\ objects[u] = Chunks /\ UNCHANGED objects
     \/ storage # "local" /\ objects' = [objects EXCEPT ![u] = Chunks]

PutDone(u) ==
  /\ Stored(u)
  /\ Goto(u, "record")
  /\ UNCHANGED <<rows, trail, setting, reading>>

\* Put fails: the client is gone, the disk is full, the PUT is refused or its
\* answer is lost.  What has been written stays.
PutFails(u) ==
  /\ step[u] = "write"
  /\ UNCHANGED objects \/ (storage = "s3" /\ Stored(u))
  /\ Send(u, 500)
  /\ UNCHANGED <<rows, trail, setting, reading>>

InsertRow(u) == rows' = [rows EXCEPT ![u] = [tenant |-> tenant[u]]]

\* (wrong variant: the row is inserted before the object is stored)
AddFile_First(u) ==
  /\ step[u] \in {"write", "record"}
  /\ InsertRow(u)
  /\ Goto(u, IF step[u] = "write" THEN "write" ELSE "audit")
  /\ UNCHANGED <<objects, trail, setting, reading>>

\* (wrong variant: the tenant is missing from the record)
AddFile_NoTenant(u) ==
  /\ step[u] = "record"
  /\ rows' = [rows EXCEPT ![u] = [tenant |-> None]]
  /\ Goto(u, "audit")
  /\ UNCHANGED <<objects, trail, setting, reading>>

AddFile(u) ==
  /\ step[u] = "record"
  /\ InsertRow(u)
  /\ Goto(u, "audit")
  /\ UNCHANGED <<objects, trail, setting, reading>>

\* The insert fails, or its acknowledgement is lost.  The object stays.
AddFileFails(u) ==
  /\ step[u] = "record"
  /\ InsertRow(u) \/ UNCHANGED rows
  /\ Send(u, 500)
  /\ UNCHANGED <<objects, trail, setting, reading>>

\* emitAudit and the answer; nobody is told when the event is lost.
AuditUpload(u) ==
  /\ step[u] = "audit"
  /\ trail' = trail \union {u} \/ UNCHANGED trail
  /\ Send(u, 201)
  /\ UNCHANGED <<objects, rows, setting, reading>>

-----------------------------------------------------------------------------
\* (wrong variant: the tenant of the row is no matter)
Sees_Any(d, row) == TRUE

\* FileKey: no tenant and the role super_admin see every file.
Sees(d, row) == d \in super \/ tenant[d] = None \/ row.tenant = tenant[d]

LookUp(d) ==
  /\ step[d] = "new"
  /\ \E u \in Uploads :
       /\ file' = [file EXCEPT ![d] = u]
       /\ IF rows[u] # None /\ Sees(d, rows[u]) THEN Goto(d, "fetch") ELSE Send(d, 404)
  /\ stored' = [stored EXCEPT ![d] = {u \in Uploads : answer[u] = 201}]
  /\ UNCHANGED <<objects, rows, trail, setting, got, failed>>

\* What Get of an adapter lets its reader read: Local opens the file and S3
\* hands on the body of the answer, so that either may break off; Memory has it.
LocalGet(u) == IF storage = "local" THEN 0 .. objects[u] ELSE {}
MemoryGet(u) == IF storage = "memory" THEN {objects[u]} ELSE {}
S3Get(u) == IF storage = "s3" THEN 0 .. objects[u] ELSE {}

\* Get and io.Copy, whose error is thrown away: status 200 has been sent.
Fetch(d) ==
  LET u == file[d] IN
  /\ step[d] = "fetch"
  /\ \/ /\ objects[u] # None
        /\ \E n \in LocalGet(u) \union MemoryGet(u) \union S3Get(u) :
             /\ got' = [got EXCEPT ![d] = n]
             /\ failed' = IF n < objects[u] THEN failed \union {d} ELSE failed
        /\ Send(d, 200)
     \/ objects[u] = None /\ Send(d, 404) /\ UNCHANGED <<got, failed>>
  /\ UNCHANGED <<objects, rows, trail, setting, file, stored>>

\* The query of FileKey or Get fails, but not Get of Memory: 404 as well.
ReadFails(d) ==
  /\ step[d] = "new" \/ (step[d] = "fetch" /\ storage # "memory")
  /\ Send(d, 404)
  /\ failed' = failed \union {d}
  /\ UNCHANGED <<objects, rows, trail, setting, file, got, stored>>

\* The process dies: requests end where they are, table and objects stay, but
\* for the memory adapter, which nobody restarts with.
Crash ==
  /\ storage # "memory"
  /\ step' = [r \in Requests |-> IF step[r] \in {"new", "done"} THEN step[r] ELSE "lost"]
  /\ UNCHANGED <<objects, rows, trail, answer, setting, reading>>

Next ==
  \/ \E u \in Uploads :
       \/ Upload(u) \/ CopyChunk(u) \/ PutDone(u) \/ PutFails(u)
       \/ AddFile(u) \/ AddFileFails(u) \/ AuditUpload(u)
  \/ \E d \in Downloads : LookUp(d) \/ Fetch(d) \/ ReadFails(d)
  \/ Crash

Spec == Init /\ [][Next]_vars

-----------------------------------------------------------------------------
\* A row never names an object that is missing or cut short, whatever fails
\* and whenever the process dies: the object is stored before the row.
CatalogueIsWhole ==
  \A u \in Uploads : rows[u] # None => objects[u] = Chunks

MaySee(d, u) == d \in super \/ tenant[d] \in {None, tenant[u]}

\* A download delivers a whole file that its actor may see, also while the
\* upload is still being handled.  What breaks off within the copy is cut short
\* and answered 200 all the same (handler_files.go:95).
DownloadsAreWhole ==
  \A d \in Downloads : answer[d] = 200 =>
    /\ got[d] = Chunks \/ d \in failed
    /\ rows[file[d]] # None /\ MaySee(d, file[d])

\* Once an upload is confirmed, whoever may see it can download it, after a
\* restart too: its tenant, a super_admin, an actor without tenant.  Only a
\* download whose own read failed is told that there is no such file.
ConfirmedCanBeRead ==
  \A d \in Downloads \ failed :
    answer[d] = 404 /\ file[d] \in stored[d] => ~MaySee(d, file[d])
=============================================================================
