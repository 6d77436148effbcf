------------------------------ MODULE FilesProofs ------------------------------
(***************************************************************************)
(* The two components that write files.  Uploads: for any number of        *)
(* uploads, downloads, tenants and chunks, and any choice of adapters, the *)
(* table names whole objects only, a download is whole and permitted, and  *)
(* what is confirmed can be read.  Generator: for any number of commands,  *)
(* files, names and failing calls, a project reported created is complete, *)
(* a failed one leaves at most what failed, no command touches what was    *)
(* there before, and what from-schema reports is there.                    *)
(***************************************************************************)
EXTENDS Uploads, Generator, FiniteSetTheorems, TLAPS

-----------------------------------------------------------------------------
\* Uploads.

\* The object of an upload is whole before its row is inserted, and the row
\* before its answer; the row carries the tenant of the request.
UploadOK(u) ==
  /\ step[u] = "write" /\ storage = "local" => objects[u] # None
  /\ rows[u] # None => /\ step[u] \in {"audit", "done", "lost"}
                       /\ objects[u] = Chunks /\ rows[u].tenant = tenant[u]
  /\ step[u] = "record" => objects[u] = Chunks
  /\ step[u] = "audit" => rows[u] # None
  /\ answer[u] = 201 => rows[u] # None

\* A download that gets past FileKey has found a row its actor may see.
DownloadOK(d) ==
  /\ step[d] \in {"new", "fetch"} => answer[d] = 0
  /\ step[d] = "fetch" \/ answer[d] = 200 =>
       file[d] \in Uploads /\ rows[file[d]] # None /\ MaySee(d, file[d])
  /\ answer[d] = 200 => got[d] = Chunks \/ d \in failed
  /\ \A u \in stored[d] : rows[u] # None
  /\ d \notin failed /\ answer[d] = 404 /\ file[d] \in stored[d] => ~MaySee(d, file[d])

IInv ==
  /\ TypeOK
  /\ stored \in [Downloads -> SUBSET Uploads] /\ failed \subseteq Downloads
  /\ \A u \in Uploads : UploadOK(u)
  /\ \A d \in Downloads : DownloadOK(d)

UploadStep(u) ==
  \/ Upload(u) \/ CopyChunk(u) \/ PutDone(u) \/ PutFails(u)
  \/ AddFile(u) \/ AddFileFails(u) \/ AuditUpload(u)

DownloadStep(d) == LookUp(d) \/ Fetch(d) \/ ReadFails(d)

USE ConstantsAssumption

-----------------------------------------------------------------------------
\* What a step leaves alone.

\* An upload changes its own object, row and request.
LEMMA UploadFrame ==
  ASSUME TypeOK, NEW u \in Uploads, UploadStep(u)
  PROVE  /\ UNCHANGED <<storage, tenant, super, file, got, stored, failed>>
         /\ \A v \in Uploads \ {u} : objects'[v] = objects[v] /\ rows'[v] = rows[v]
         /\ \A r \in Requests \ {u} : step'[r] = step[r] /\ answer'[r] = answer[r]
<1> USE DEF TypeOK, Requests, Goto, Send, Stored, InsertRow
<1>1. UNCHANGED <<setting, reading>>
  BY DEF UploadStep, Upload, CopyChunk, PutDone, PutFails, AddFile, AddFileFails, AuditUpload
<1>2. \A v \in Uploads \ {u} : objects'[v] = objects[v]
  BY DEF UploadStep, Upload, CopyChunk, PutDone, PutFails, AddFile, AddFileFails, AuditUpload
<1>3. \A v \in Uploads \ {u} : rows'[v] = rows[v]
  BY DEF UploadStep, Upload, CopyChunk, PutDone, PutFails, AddFile, AddFileFails, AuditUpload
<1>4. \A r \in Requests \ {u} : step'[r] = step[r] /\ answer'[r] = answer[r]
  BY DEF UploadStep, Upload, CopyChunk, PutDone, PutFails, AddFile, AddFileFails, AuditUpload
<1> QED
  BY <1>1, <1>2, <1>3, <1>4 DEF setting, reading

\* A download changes its own request and nothing of the two stores.
LEMMA DownloadFrame ==
  ASSUME TypeOK, NEW d \in Downloads, DownloadStep(d)
  PROVE  /\ UNCHANGED <<storage, tenant, super, objects, rows, trail>>
         /\ \A r \in Requests \ {d} : step'[r] = step[r] /\ answer'[r] = answer[r]
         /\ \A e \in Downloads \ {d} : file'[e] = file[e] /\ got'[e] = got[e]
                                       /\ (e \in failed' <=> e \in failed)
<1> USE DEF TypeOK, Requests, Goto, Send
<1>1. UNCHANGED <<setting, objects, rows, trail>>
  BY DEF DownloadStep, LookUp, Fetch, ReadFails
<1>2. \A r \in Requests \ {d} : step'[r] = step[r] /\ answer'[r] = answer[r]
  BY DEF DownloadStep, LookUp, Fetch, ReadFails
<1>3. \A e \in Downloads \ {d} : file'[e] = file[e] /\ got'[e] = got[e]
  BY DEF DownloadStep, LookUp, Fetch, ReadFails
<1>4. \A e \in Downloads \ {d} : e \in failed' <=> e \in failed
  BY DEF DownloadStep, LookUp, Fetch, ReadFails
<1> QED
  BY <1>1, <1>2, <1>3, <1>4 DEF setting

-----------------------------------------------------------------------------
\* Before the first request everything holds.
LEMMA InitHolds == Init => IInv
  BY DEF Init, IInv, TypeOK, UploadOK, DownloadOK, Requests, Object

\* The types are kept.
LEMMA StepTypes ==
  ASSUME IInv, [Next]_vars PROVE TypeOK'
<1> USE DEF TypeOK, Requests, Object, Goto, Send, setting, reading
<1>1. TypeOK /\ \A d \in Downloads : DownloadOK(d)
  BY DEF IInv
<1>2. ASSUME NEW u \in Uploads, UploadStep(u) PROVE TypeOK'
  <2>1. UNCHANGED <<storage, tenant, super, file, got>>
    BY <1>1, <1>2, UploadFrame
  <2>2. objects' \in [Uploads -> Object \union {None}]
    <3>1. CASE CopyChunk(u)
      <4>1. objects[u] \in 0 .. Chunks /\ objects[u] < Chunks
        BY <1>1, <3>1 DEF CopyChunk, IInv, UploadOK
      <4>2. objects[u] + 1 \in 0 .. Chunks
        BY <4>1
      <4> QED
        BY <1>1, <3>1, <4>2 DEF CopyChunk
    <3>2. CASE ~CopyChunk(u)
      BY <1>1, <1>2, <3>2 DEF UploadStep, Upload, PutDone, PutFails, Stored, AddFile,
                                 AddFileFails, AuditUpload
    <3> QED
      BY <3>1, <3>2
  <2>3. rows' \in [Uploads -> [tenant : Tenants \union {None}] \union {None}]
    BY <1>1, <1>2 DEF UploadStep, Upload, CopyChunk, PutDone, PutFails, AddFile, AddFileFails,
                          AuditUpload, InsertRow
  <2>4. trail' \subseteq Uploads
    BY <1>1, <1>2 DEF UploadStep, Upload, CopyChunk, PutDone, PutFails, AddFile, AddFileFails, AuditUpload
  <2>5. /\ step' \in [Requests -> {"new", "write", "record", "audit", "fetch", "done", "lost"}]
        /\ answer' \in [Requests -> {0, 200, 201, 400, 403, 404, 500}]
    BY <1>1, <1>2 DEF UploadStep, Upload, CopyChunk, PutDone, PutFails, AddFile, AddFileFails, AuditUpload
  <2> QED
    BY <1>1, <2>1, <2>2, <2>3, <2>4, <2>5
<1>3. ASSUME NEW d \in Downloads, DownloadStep(d) PROVE TypeOK'
  <2>1. UNCHANGED <<storage, tenant, super, objects, rows, trail>>
    BY <1>1, <1>3, DownloadFrame
  <2>2. file' \in [Downloads -> Uploads \union {None}]
    BY <1>1, <1>3 DEF DownloadStep, LookUp, Fetch, ReadFails
  <2>3. got' \in [Downloads -> Object \union {None}]
    <3>1. CASE Fetch(d)
      <4>1. file[d] \in Uploads
        BY <1>1, <3>1 DEF Fetch, DownloadOK
      <4>2. objects[file[d]] # None => objects[file[d]] \in 0 .. Chunks
        BY <1>1, <4>1
      <4> QED
        BY <1>1, <3>1, <4>1, <4>2 DEF Fetch, LocalGet, MemoryGet, S3Get
    <3>2. CASE LookUp(d) \/ ReadFails(d)
      BY <1>1, <3>2 DEF LookUp, ReadFails
    <3> QED
      BY <1>3, <3>1, <3>2 DEF DownloadStep
  <2>4. /\ step' \in [Requests -> {"new", "write", "record", "audit", "fetch", "done", "lost"}]
        /\ answer' \in [Requests -> {0, 200, 201, 400, 403, 404, 500}]
    BY <1>1, <1>3 DEF DownloadStep, LookUp, Fetch, ReadFails
  <2> QED
    BY <1>1, <2>1, <2>2, <2>3, <2>4
<1>4. CASE Crash
  BY <1>1, <1>4 DEF Crash
<1>5. CASE UNCHANGED vars
  BY <1>1, <1>5 DEF vars
<1> QED
  BY <1>2, <1>3, <1>4, <1>5 DEF Next, UploadStep, DownloadStep

\* Only downloads touch the ghosts, each its own.
LEMMA StepGhosts ==
  ASSUME IInv, [Next]_vars
  PROVE  stored' \in [Downloads -> SUBSET Uploads] /\ failed' \subseteq Downloads
<1>1. TypeOK /\ stored \in [Downloads -> SUBSET Uploads] /\ failed \subseteq Downloads
  BY DEF IInv
<1>2. ASSUME NEW u \in Uploads, UploadStep(u) PROVE UNCHANGED <<stored, failed>>
  BY <1>1, <1>2, UploadFrame
<1>3. ASSUME NEW d \in Downloads, DownloadStep(d)
      PROVE  stored' \in [Downloads -> SUBSET Uploads] /\ failed' \subseteq Downloads
  BY <1>1, <1>3 DEF DownloadStep, LookUp, Fetch, ReadFails
<1> QED
  BY <1>1, <1>2, <1>3 DEF Next, UploadStep, DownloadStep, Crash, vars, reading

-----------------------------------------------------------------------------
\* What an upload does to itself.
LEMMA UploadKeepsItself ==
  ASSUME IInv, NEW u \in Uploads, UploadStep(u)
  PROVE  UploadOK(u)' /\ (rows[u] # None => rows'[u] = rows[u])
<1> USE DEF TypeOK, Requests, Goto, Send
<1>1. TypeOK /\ UploadOK(u) /\ UNCHANGED <<tenant, storage>>
  BY UploadFrame DEF IInv
<1>2. CASE Upload(u)
  <2>1. /\ step[u] = "new" /\ rows' = rows /\ step'[u] \in {"write", "done"}
        /\ answer'[u] \in {answer[u], 400, 403}
    BY <1>1, <1>2 DEF Upload
  <2>2. step'[u] = "write" /\ storage' = "local" => objects'[u] # None
    BY <1>1, <1>2 DEF Upload, setting
  <2> QED
    BY <1>1, <2>1, <2>2 DEF UploadOK
<1>3. CASE CopyChunk(u)
  <2>1. /\ step[u] = "write" /\ storage = "local" /\ UNCHANGED <<rows, step, answer>>
        /\ objects' = [objects EXCEPT ![u] = @ + 1]
    BY <1>3 DEF CopyChunk
  <2>2. objects[u] \in 0 .. Chunks
    BY <1>1, <2>1 DEF UploadOK, Object
  <2>3. objects'[u] # None
    BY <1>1, <2>1, <2>2
  <2> QED
    BY <1>1, <2>1, <2>3 DEF UploadOK
<1>4. CASE PutDone(u)
  <2>1. /\ step[u] = "write" /\ UNCHANGED <<rows, answer>> /\ step'[u] = "record"
        /\ objects'[u] = Chunks
    BY <1>1, <1>4 DEF PutDone, Stored
  <2> QED
    BY <1>1, <2>1 DEF UploadOK
<1>5. CASE PutFails(u)
  <2>1. step[u] = "write" /\ rows' = rows /\ step'[u] = "done" /\ answer'[u] = 500
    BY <1>1, <1>5 DEF PutFails
  <2> QED
    BY <1>1, <2>1 DEF UploadOK
<1>6. CASE AddFile(u)
  <2>1. step[u] = "record" /\ UNCHANGED <<objects, answer>> /\ step'[u] = "audit"
    BY <1>1, <1>6 DEF AddFile
  <2>2. rows'[u] = [tenant |-> tenant[u]] /\ rows'[u] # None
    BY <1>1, <1>6 DEF AddFile, InsertRow
  <2> QED
    BY <1>1, <2>1, <2>2 DEF UploadOK
<1>7. CASE AddFileFails(u)
  <2>1. step[u] = "record" /\ objects' = objects /\ step'[u] = "done" /\ answer'[u] = 500
    BY <1>1, <1>7 DEF AddFileFails
  <2>2. rows'[u] \in {rows[u], [tenant |-> tenant[u]]}
    BY <1>1, <1>7 DEF AddFileFails, InsertRow
  <2> QED
    BY <1>1, <2>1, <2>2 DEF UploadOK
<1>8. CASE AuditUpload(u)
  <2>1. step[u] = "audit" /\ UNCHANGED <<objects, rows>> /\ step'[u] = "done"
    BY <1>1, <1>8 DEF AuditUpload
  <2> QED
    BY <1>1, <2>1 DEF UploadOK
<1> QED
  BY <1>2, <1>3, <1>4, <1>5, <1>6, <1>7, <1>8 DEF UploadStep

\* Rows are never taken back.
LEMMA RowsRemain ==
  ASSUME IInv, [Next]_vars, NEW u \in Uploads, rows[u] # None
  PROVE  rows'[u] = rows[u]
<1>1. TypeOK
  BY DEF IInv
<1>2. ASSUME NEW v \in Uploads, UploadStep(v) PROVE rows'[u] = rows[u]
  BY <1>1, <1>2, UploadFrame, UploadKeepsItself
<1>3. ASSUME NEW d \in Downloads, DownloadStep(d) PROVE rows' = rows
  BY <1>1, <1>3, DownloadFrame
<1> QED
  BY <1>2, <1>3 DEF Next, UploadStep, DownloadStep, Crash, vars

\* The object, its row and the answer keep their order.
LEMMA StepUploads ==
  ASSUME IInv, [Next]_vars, NEW u \in Uploads PROVE UploadOK(u)'
<1>1. TypeOK /\ UploadOK(u) /\ u \in Requests
  BY DEF IInv, Requests
<1>2. ASSUME NEW v \in Uploads, UploadStep(v) PROVE UploadOK(u)'
  <2>1. CASE u = v
    BY <1>2, <2>1, UploadKeepsItself
  <2>2. CASE u # v
    BY <1>1, <1>2, <2>2, UploadFrame DEF UploadOK
  <2> QED
    BY <2>1, <2>2
<1>3. ASSUME NEW d \in Downloads, DownloadStep(d) PROVE UploadOK(u)'
  <2>1. d # u
    OBVIOUS
  <2> QED
    BY <1>1, <1>3, <2>1, DownloadFrame DEF UploadOK
<1>4. CASE Crash
  <2>1. step'[u] = step[u] \/ (step[u] \notin {"new", "done"} /\ step'[u] = "lost")
    BY <1>1, <1>4 DEF Crash
  <2> QED
    BY <1>1, <1>4, <2>1 DEF Crash, UploadOK, setting
<1>5. CASE UNCHANGED vars
  BY <1>1, <1>5 DEF vars, setting, UploadOK
<1> QED
  BY <1>2, <1>3, <1>4, <1>5 DEF Next, UploadStep, DownloadStep

-----------------------------------------------------------------------------
\* What a row shows of its upload is what FileKey decides by.
LEMMA SeesIsMaySee ==
  ASSUME IInv, NEW u \in Uploads, rows[u] # None, NEW d \in Downloads
  PROVE  Sees(d, rows[u]) <=> MaySee(d, u)
  BY DEF IInv, UploadOK, Sees, MaySee

\* What a download does to itself.
LEMMA DownloadKeepsItself ==
  ASSUME IInv, NEW d \in Downloads, DownloadStep(d) PROVE DownloadOK(d)'
<1> USE DEF TypeOK, Requests, Goto, Send
<1>1. TypeOK /\ DownloadOK(d) /\ stored \in [Downloads -> SUBSET Uploads] /\ failed \subseteq Downloads
  BY DEF IInv
<1>2. UNCHANGED <<tenant, super, objects, rows>>
  BY <1>1, DownloadFrame
<1>3. CASE LookUp(d)
  <2>1. PICK u \in Uploads :
          /\ file' = [file EXCEPT ![d] = u]
          /\ IF rows[u] # None /\ Sees(d, rows[u]) THEN Goto(d, "fetch") ELSE Send(d, 404)
    BY <1>3 DEF LookUp
  <2>2. file'[d] = u /\ stored'[d] = {v \in Uploads : answer[v] = 201} /\ UNCHANGED failed /\ answer[d] = 0
    BY <1>1, <1>3, <2>1 DEF LookUp, DownloadOK
  <2>3. \A v \in stored'[d] : rows[v] # None
    BY <2>2 DEF IInv, UploadOK
  <2>4. CASE rows[u] # None /\ Sees(d, rows[u])
    <3>1. step'[d] = "fetch" /\ answer'[d] = 0 /\ MaySee(d, u)
      BY <1>1, <2>1, <2>2, <2>4, SeesIsMaySee
    <3> QED
      BY <1>2, <2>2, <2>3, <2>4, <3>1 DEF DownloadOK, MaySee
  <2>5. CASE ~(rows[u] # None /\ Sees(d, rows[u]))
    <3>1. step'[d] = "done" /\ answer'[d] = 404
      BY <1>1, <2>1, <2>5
    <3>2. u \in stored'[d] => ~MaySee(d, u)
      BY <2>3, <2>5, SeesIsMaySee
    <3> QED
      BY <1>2, <2>2, <2>3, <3>1, <3>2 DEF DownloadOK, MaySee
  <2> QED
    BY <2>4, <2>5
<1>4. CASE Fetch(d)
  <2>1. /\ step[d] = "fetch" /\ UNCHANGED <<file, stored>>
        /\ file[d] \in Uploads /\ rows[file[d]] # None /\ MaySee(d, file[d])
    BY <1>1, <1>4 DEF Fetch, DownloadOK, reading
  <2>2. objects[file[d]] = Chunks /\ Chunks # None
    BY <2>1 DEF IInv, UploadOK
  <2>3. step'[d] = "done" /\ answer'[d] = 200
    BY <1>1, <1>4, <2>2 DEF Fetch
  <2>4. PICK n \in 0 .. Chunks : /\ got' = [got EXCEPT ![d] = n]
                                 /\ failed' = IF n < Chunks THEN failed \union {d} ELSE failed
    BY <1>4, <2>2 DEF Fetch, LocalGet, MemoryGet, S3Get
  <2>5. got'[d] = Chunks \/ d \in failed'
    <3>1. n < Chunks \/ n = Chunks
      OBVIOUS
    <3>2. got'[d] = n
      BY <1>1, <2>4
    <3> QED
      BY <2>4, <3>1, <3>2
  <2> QED
    BY <1>1, <1>2, <2>1, <2>3, <2>5 DEF DownloadOK, MaySee
<1>5. CASE ReadFails(d)
  <2>1. step'[d] = "done" /\ answer'[d] = 404 /\ d \in failed' /\ stored' = stored
    BY <1>1, <1>5 DEF ReadFails
  <2> QED
    BY <1>1, <1>2, <2>1 DEF DownloadOK
<1> QED
  BY <1>3, <1>4, <1>5 DEF DownloadStep

\* What a download has found remains, so that it never has to look again.
LEMMA StepDownloads ==
  ASSUME IInv, [Next]_vars, NEW d \in Downloads PROVE DownloadOK(d)'
<1>1. TypeOK /\ DownloadOK(d) /\ d \in Requests /\ stored \in [Downloads -> SUBSET Uploads]
  BY DEF IInv, Requests
<1>2. \A u \in Uploads : rows[u] # None => rows'[u] # None
  BY RowsRemain
<1>3. ASSUME NEW u \in Uploads, UploadStep(u) PROVE DownloadOK(d)'
  <2>1. /\ UNCHANGED <<tenant, super, file, got, stored, failed>>
        /\ step'[d] = step[d] /\ answer'[d] = answer[d]
    BY <1>1, <1>3, UploadFrame
  <2> QED
    BY <1>1, <1>2, <2>1 DEF DownloadOK, MaySee
<1>4. ASSUME NEW e \in Downloads, DownloadStep(e) PROVE DownloadOK(d)'
  <2>1. CASE d = e
    BY <1>4, <2>1, DownloadKeepsItself
  <2>2. CASE d # e
    <3>1. /\ UNCHANGED <<tenant, super, rows>> /\ step'[d] = step[d] /\ answer'[d] = answer[d]
          /\ file'[d] = file[d] /\ got'[d] = got[d] /\ (d \in failed' <=> d \in failed)
      BY <1>1, <1>4, <2>2, DownloadFrame
    <3>2. stored'[d] = stored[d]
      BY <1>1, <1>4, <2>2 DEF DownloadStep, LookUp, Fetch, ReadFails
    <3> QED
      BY <1>1, <3>1, <3>2 DEF DownloadOK, MaySee
  <2> QED
    BY <2>1, <2>2
<1>5. CASE Crash
  <2>1. step'[d] = step[d] \/ step'[d] = "lost"
    BY <1>1, <1>5 DEF Crash
  <2> QED
    BY <1>1, <1>5, <2>1 DEF Crash, DownloadOK, MaySee, setting, reading
<1>6. CASE UNCHANGED vars
  BY <1>1, <1>6 DEF vars, setting, reading, DownloadOK, MaySee
<1> QED
  BY <1>3, <1>4, <1>5, <1>6 DEF Next, UploadStep, DownloadStep

-----------------------------------------------------------------------------
\* The inductive invariant holds in every reachable state (handler_files.go).
THEOREM Invariance == Spec => []IInv
<1>1. IInv /\ [Next]_vars => IInv'
  BY StepTypes, StepGhosts, StepUploads, StepDownloads DEF IInv
<1> QED
  BY InitHolds, <1>1, PTL DEF Spec

\* The types of the two stores and of the requests.
THEOREM TypeCorrect == Spec => []TypeOK
<1>1. IInv => TypeOK
  BY DEF IInv
<1> QED
  BY Invariance, <1>1, PTL

\* A row never names an object that is missing or cut short, whatever fails
\* and whenever the process dies (handleUploadFile: Put comes before AddFile).
THEOREM RowsNameWholeObjects == Spec => []CatalogueIsWhole
<1>1. IInv => CatalogueIsWhole
  BY DEF IInv, UploadOK, CatalogueIsWhole
<1> QED
  BY Invariance, <1>1, PTL

\* An answer 200 carries a whole file that the actor may see, unless the copy
\* of that very answer broke off (handleFile).
THEOREM DownloadsDeliverFiles == Spec => []DownloadsAreWhole
<1>1. IInv => DownloadsAreWhole
  BY DEF IInv, DownloadOK, DownloadsAreWhole
<1> QED
  BY Invariance, <1>1, PTL

\* A file whose upload was confirmed is not found by those only who may not
\* see it, or whose own read failed (FileKey, handleFile).
THEOREM ConfirmedFilesAreFound == Spec => []ConfirmedCanBeRead
<1>1. IInv => ConfirmedCanBeRead
  BY DEF IInv, DownloadOK, ConfirmedCanBeRead
<1> QED
  BY Invariance, <1>1, PTL

\* Nothing takes a row back: neither a later failure nor a restart.
THEOREM RowsArePermanent ==
  Spec => [][\A u \in Uploads : rows[u] # None => rows'[u] = rows[u]]_vars
<1>1. IInv /\ [Next]_vars => [\A u \in Uploads : rows[u] # None => rows'[u] = rows[u]]_vars
  BY RowsRemain
<1> QED
  BY Invariance, <1>1, PTL DEF Spec

HIDE ConstantsAssumption

-----------------------------------------------------------------------------
\* Generator.

USE GeneratorAssumption, NamesAssumption, NothingAssumption

-----------------------------------------------------------------------------
\* The last of a sequence and those before it.
LEMMA FrontAndLast ==
  ASSUME NEW S, NEW s \in Seq(S), s # <<>>
  PROVE  /\ Front(s) \in Seq(S) /\ Last(s) \in S
         /\ ToSet(s) = ToSet(Front(s)) \union {Last(s)}
<1> DEFINE n == Len(s)
<1>1. /\ n \in Nat \ {0} /\ DOMAIN s = 1 .. n
      /\ \A k \in 1 .. n : s[k] \in S
  OBVIOUS
<1>2. /\ Front(s) \in Seq(S) /\ Len(Front(s)) = n - 1
      /\ \A k \in 1 .. n - 1 : Front(s)[k] = s[k]
  BY <1>1 DEF Front
<1>3. DOMAIN Front(s) = 1 .. n - 1
  BY <1>2
<1>4. 1 .. n = (1 .. n - 1) \union {n}
  BY <1>1
<1> QED
  BY <1>1, <1>2, <1>3, <1>4 DEF Last, ToSet

\* What a sequence holds after one more element is appended.
LEMMA AppendToIt ==
  ASSUME NEW S, NEW s \in Seq(S), NEW e \in S
  PROVE  Append(s, e) \in Seq(S) /\ ToSet(Append(s, e)) = ToSet(s) \union {e}
<1>1. 1 .. Len(s) + 1 = (1 .. Len(s)) \union {Len(s) + 1}
  OBVIOUS
<1> QED
  BY <1>1 DEF ToSet

LEMMA EmptySequence == ToSet(<<>>) = {}
  BY DEF ToSet

\* The directory of a path is one of the two.
LEMMA PathDirs == \A f \in Paths : f.dir \in Dirs
  BY DEF Paths, Project, FileOf, resourceFileName, Dirs

\* The path of a table is one of the paths, and not one of the project's.
LEMMA TablePath ==
  ASSUME GeneratorTypeOK, NEW p \in Commands, More(p)
  PROVE  /\ Table(p) \in ToSet(call[p].names) /\ Table(p) \in Seq(Words)
         /\ FileOf(call[p], Table(p)) \in Paths \ Project
<1>1. call[p] \in Calls /\ call[p].names \in Seq(Seq(Words)) /\ run[p].at \in Nat \ {0}
  BY DEF GeneratorTypeOK, Local
<1>2. Table(p) \in ToSet(call[p].names) /\ Table(p) \in Seq(Words)
  BY <1>1 DEF More, Table, ToSet
<1> QED
  BY <1>1, <1>2 DEF Paths

-----------------------------------------------------------------------------
\* What a step of p leaves of another command, but for its directory.
SameBut(q) ==
  /\ run'[q].pc = run[q].pc /\ run'[q].outcome = run[q].outcome
  /\ run'[q].todo = run[q].todo /\ run'[q].at = run[q].at
  /\ run'[q].target = run[q].target /\ run'[q].handle = run[q].handle
  /\ run'[q].written = run[q].written /\ run'[q].reported = run[q].reported
  /\ run'[q].cwd => run[q].cwd

LEMMA Frame ==
  ASSUME GeneratorTypeOK, NEW p \in Commands, Step(p)
  PROVE  /\ call' = call
         /\ \A q \in Commands \ {p} :
              SameBut(q) /\ before'[q] \subseteq before[q] /\ during[q] \subseteq during'[q]
         /\ \/ run[p].pc = "idle"
            \/ before'[p] \subseteq before[p] /\ during' = during
<1> USE DEF GeneratorTypeOK, SameBut, Others, Becomes
<1>1. CASE runInit(p) \/ runDemo(p) \/ runGenerate(p) \/ runOpenAPI(p)
  BY <1>1 DEF runInit, runDemo, runGenerate, runOpenAPI, Begin
<1>2. CASE \E f \in Paths : NoConflict(p, f) \/ Conflict(p, f) \/ StatAbsent(p, f) \/ StatExists(p, f)
  BY <1>2 DEF NoConflict, Conflict, StatAbsent, StatExists
<1>3. CASE MakeRoot(p) \/ NextTable(p) \/ AllTables(p) \/ MakeParents(p) \/ DirectoryGone(p) \/ Fails(p)
           \/ RemoveFails(p) \/ Killed(p) 
  BY <1>3 DEF MakeRoot, NextTable, AllTables, MakeParents, DirectoryGone, Fails, RemoveFails, Killed
<1>4. CASE Open(p) \/ Write(p)
  BY <1>4 DEF Open, Write
<1>5. CASE RemoveWritten(p)
  BY <1>5 DEF RemoveWritten, Removed
<1>6. CASE RemoveRoot(p)
  BY <1>6 DEF RemoveRoot, Local
<1> QED
  BY <1>1, <1>2, <1>3, <1>4, <1>5, <1>6 DEF Step

-----------------------------------------------------------------------------
\* Where a command is, and what it holds there.
Makes(p) == call[p].cmd \in {"resource", "schema"}

Shape(p) ==
  /\ run[p].pc = "over" <=> run[p].outcome # "none"
  /\ run[p].pc \in {"check", "mkroot", "rollback"} => Creates(p)
  /\ run[p].pc = "table" => Makes(p)
  /\ run[p].pc = "stat" => Creates(p) \/ Makes(p)
  /\ run[p].pc \in {"mkdir", "open", "write"} =>
       run[p].target \in Paths /\ (Creates(p) => run[p].target \in run[p].todo)
  /\ run[p].pc \in {"stat", "mkdir", "open", "write"} =>
       /\ Makes(p) => More(p) /\ run[p].target = FileOf(call[p], Table(p))
       /\ ~Creates(p) /\ ~Makes(p) => run[p].target = Output
  /\ run[p].pc = "idle" => run[p].written = <<>> /\ run[p].reported = {} /\ run[p].at = 1
  /\ run[p].outcome = "created" => Creates(p) /\ run[p].todo = {}

Types == GeneratorTypeOK /\ \A p \in Commands : Shape(p)

\* A file that is opened is as files are.
LEMMA OpenType ==
  ASSUME Types, NEW p \in Commands, Open(p)
  PROVE  /\ disk' \in [Paths -> File \union {Nothing}]
         /\ run' \in [Commands -> Local]
         /\ \A f \in There' : f.dir \in dirs'
<1> DEFINE f == run[p].target
           made == IF disk[f] = Nothing THEN p ELSE disk[f].made
<1>1. f \in Paths /\ disk[f] \in File \union {Nothing} /\ run[p] \in Local
  BY DEF Types, GeneratorTypeOK, Open, Shape
<1>2. made \in Commands \union {User}
  BY <1>1 DEF File
<1>3. [made |-> made, by |-> p, of |-> <<>>, whole |-> FALSE] \in File
  BY <1>2 DEF File
<1>4. [run[p] EXCEPT !.pc = "write", !.handle = made] \in Local
  BY <1>1, <1>2 DEF Local
<1>5. /\ disk' = [disk EXCEPT ![f] = [made |-> made, by |-> p, of |-> <<>>, whole |-> FALSE]]
      /\ run' = [run EXCEPT ![p] = [run[p] EXCEPT !.pc = "write", !.handle = made]]
      /\ f.dir \in dirs /\ dirs' = dirs
  BY DEF Open, Becomes
<1> HIDE DEF made, f
<1> QED
  BY <1>1, <1>3, <1>4, <1>5 DEF Types, GeneratorTypeOK, There

LEMMA WriteType ==
  ASSUME Types, NEW p \in Commands, Write(p)
  PROVE  /\ disk' \in [Paths -> File \union {Nothing}]
         /\ There' = There
         /\ \A f \in There : disk'[f].made = disk[f].made
<1> DEFINE f == run[p].target
           of == IF More(p) THEN Table(p) ELSE <<>>
<1>1. f \in Paths /\ disk[f] \in File \union {Nothing}
  BY DEF Types, GeneratorTypeOK, Write, Shape
<1>2. of \in Seq(Words)
  BY TablePath DEF Types
<1>3. CASE disk' = disk
  BY <1>3 DEF Types, GeneratorTypeOK, There
<1>4. CASE /\ disk[f] # Nothing
           /\ disk' = [disk EXCEPT ![f].by = p, ![f].whole = TRUE, ![f].of = of]
  <2>1. disk' = [disk EXCEPT ![f] = [disk[f] EXCEPT !.by = p, !.whole = TRUE, !.of = of]]
    BY <1>1, <1>4 DEF Types, GeneratorTypeOK
  <2>2. [disk[f] EXCEPT !.by = p, !.whole = TRUE, !.of = of] \in File
    BY <1>1, <1>2, <1>4 DEF File
  <2>3. [disk[f] EXCEPT !.by = p, !.whole = TRUE, !.of = of].made = disk[f].made
    BY <1>1, <1>4 DEF File
  <2> DEFINE content == [disk[f] EXCEPT !.by = p, !.whole = TRUE, !.of = of]
  <2>4. disk' = [disk EXCEPT ![f] = content] /\ content \in File /\ content.made = disk[f].made
    BY <2>1, <2>2, <2>3
  <2> HIDE DEF f, of, content
  <2>5. /\ disk' \in [Paths -> File \union {Nothing}]
        /\ \A g \in Paths : disk'[g] = IF g = f THEN content ELSE disk[g]
    BY <1>1, <2>4 DEF Types, GeneratorTypeOK
  <2> QED
    BY <1>4, <2>4, <2>5 DEF There
<1> QED
  BY <1>3, <1>4 DEF Write

\* What a step leaves alone keeps its shape.
LEMMA OthersShape ==
  ASSUME Types, NEW p \in Commands, Step(p)
  PROVE  \A q \in Commands \ {p} : Shape(q)'
  BY Frame DEF Types, SameBut, Shape, Creates, Makes, More, Table

\* What a command makes of an error and of the success of writeFile.
LEMMA FailingIs ==
  ASSUME Types, NEW p \in Commands, run[p].pc \in {"table", "stat", "mkdir", "open", "write"},
         Becomes(p, Failing(p))
  PROVE  LET r == run'[p]
         IN /\ run' \in [Commands -> Local]
            /\ r.todo = run[p].todo /\ r.target = run[p].target /\ r.handle = run[p].handle
            /\ r.written = run[p].written /\ r.reported = run[p].reported /\ r.cwd = run[p].cwd
            /\ Creates(p) => r.pc = "rollback" /\ r.outcome = "none" /\ r.at = run[p].at
            /\ call[p].cmd = "schema" => r.pc = "table" /\ r.outcome = "none" /\ r.at = run[p].at + 1
            /\ ~Creates(p) /\ call[p].cmd # "schema" =>
                 r.pc = "over" /\ r.outcome = "failed" /\ r.at = run[p].at
<1>1. run[p] \in Local /\ run[p].outcome = "none" /\ run[p].at \in Nat
  BY DEF Types, GeneratorTypeOK, Shape, Local
<1>2. run' = [run EXCEPT ![p] = Failing(p)] /\ run \in [Commands -> Local]
  BY DEF Becomes, Types, GeneratorTypeOK
<1>3. CASE Creates(p)
  <2>1. Failing(p) = [run[p] EXCEPT !.pc = "rollback"]
    BY <1>3 DEF Failing, Creates
  <2> QED
    BY <1>1, <1>2, <1>3, <2>1 DEF Local, Creates
<1>4. CASE ~Creates(p) /\ call[p].cmd = "schema"
  <2> DEFINE n == run[p].at + 1
  <2>1. Failing(p) = [run[p] EXCEPT !.pc = "table", !.at = n]
    BY <1>4 DEF Failing
  <2>2. n \in Nat \ {0}
    BY <1>1
  <2> HIDE DEF n
  <2>3. /\ run' \in [Commands -> Local]
        /\ run'[p] = [run[p] EXCEPT !.pc = "table", !.at = n]
    BY <1>1, <1>2, <2>1, <2>2 DEF Local
  <2> QED
    BY <1>1, <1>4, <2>3 DEF Local, Creates, n
<1>5. CASE ~Creates(p) /\ call[p].cmd # "schema"
  <2>1. Failing(p) = [run[p] EXCEPT !.pc = "over", !.outcome = "failed"]
    BY <1>5 DEF Failing, Over
  <2> QED
    BY <1>1, <1>2, <1>5, <2>1 DEF Local, Creates
<1> QED
  BY <1>3, <1>4, <1>5

LEMMA SucceedingIs ==
  ASSUME Types, NEW p \in Commands, run[p].pc = "write", Becomes(p, Succeeding(p))
  PROVE  LET r == run'[p]
         IN /\ run' \in [Commands -> Local]
            /\ r.target = run[p].target /\ r.handle = run[p].handle /\ r.cwd = run[p].cwd
            /\ Creates(p) =>
                      /\ r.at = run[p].at /\ r.reported = run[p].reported
                      /\ r.todo = run[p].todo \ {r.target}
                      /\ \/ r.pc = "over" /\ r.outcome = "created" /\ r.todo = {} /\ r.written = run[p].written
                         \/ r.pc = "stat" /\ r.outcome = "none" /\ r.written = Append(run[p].written, r.target)
            /\ call[p].cmd = "schema" =>
                      /\ r.pc = "table" /\ r.outcome = "none" /\ r.at = run[p].at + 1
                      /\ r.reported = run[p].reported \union {run[p].at}
                      /\ r.todo = run[p].todo /\ r.written = run[p].written
            /\ ~Creates(p) /\ call[p].cmd # "schema" =>
                      /\ r.pc = "over" /\ r.outcome = "ok" /\ r.at = run[p].at
                      /\ r.reported = run[p].reported
                      /\ r.todo = run[p].todo /\ r.written = run[p].written
<1>1. run[p] \in Local /\ run[p].outcome = "none" /\ run[p].at \in Nat
  BY DEF Types, GeneratorTypeOK, Shape, Local
<1>2. run' = [run EXCEPT ![p] = Succeeding(p)] /\ run \in [Commands -> Local]
  BY DEF Becomes, Types, GeneratorTypeOK
<1>3. CASE Creates(p) /\ run[p].todo = {run[p].target}
  <2>1. Succeeding(p) = [run[p] EXCEPT !.todo = {}, !.pc = "over", !.outcome = "created"]
    BY <1>1, <1>3 DEF Succeeding, Over, Local, Creates
  <2> QED
    BY <1>1, <1>2, <1>3, <2>1 DEF Local, Creates
<1>4. CASE Creates(p) /\ run[p].todo # {run[p].target}
  <2> DEFINE w == Append(run[p].written, run[p].target)
             t == run[p].todo \ {run[p].target}
  <2>1. Succeeding(p) = [run[p] EXCEPT !.pc = "stat", !.todo = t, !.written = w]
    BY <1>4 DEF Succeeding, Creates
  <2>2. run[p].target \in run[p].todo
    BY <1>4 DEF Types, Shape
  <2>3. w \in Seq(Project) /\ t \in SUBSET Project
    BY <1>1, <2>2 DEF Local
  <2> HIDE DEF w, t
  <2>4. [run[p] EXCEPT !.pc = "stat", !.todo = t, !.written = w] \in Local
    BY <1>1, <2>3 DEF Local
  <2>5. /\ run' \in [Commands -> Local]
        /\ run'[p] = [run[p] EXCEPT !.pc = "stat", !.todo = t, !.written = w]
    BY <1>2, <2>1, <2>4
  <2> QED
    BY <1>1, <1>4, <2>5 DEF Local, w, t, Creates
<1>5. CASE ~Creates(p) /\ call[p].cmd = "schema"
  <2> DEFINE n == run[p].at + 1
             places == run[p].reported \union {run[p].at}
  <2>1. Succeeding(p) = [run[p] EXCEPT !.pc = "table", !.at = n, !.reported = places]
    BY <1>5 DEF Succeeding
  <2>2. n \in Nat \ {0} /\ places \in SUBSET Nat
    BY <1>1 DEF Local
  <2> HIDE DEF n, places
  <2>3. [run[p] EXCEPT !.pc = "table", !.at = n, !.reported = places] \in Local
    BY <1>1, <2>2 DEF Local
  <2>4. /\ run' \in [Commands -> Local]
        /\ run'[p] = [run[p] EXCEPT !.pc = "table", !.at = n, !.reported = places]
    BY <1>2, <2>1, <2>3
  <2> QED
    BY <1>1, <1>5, <2>4 DEF Local, Creates, n, places
<1>6. CASE ~Creates(p) /\ call[p].cmd # "schema"
  <2>1. Succeeding(p) = [run[p] EXCEPT !.pc = "over", !.outcome = "ok"]
    BY <1>6 DEF Succeeding, Over
  <2> QED
    BY <1>1, <1>2, <1>6, <2>1 DEF Local
<1> QED
  BY <1>3, <1>4, <1>5, <1>6

LEMMA FailingShape ==
  ASSUME Types, NEW p \in Commands, run[p].pc \in {"table", "stat", "mkdir", "open", "write"},
         Becomes(p, Failing(p)), call' = call
  PROVE  Shape(p)'
<1>1. call[p] \in Calls /\ Shape(p)
  BY DEF Types, GeneratorTypeOK
<1> QED
  BY <1>1, FailingIs DEF Shape, Creates, Makes

LEMMA SucceedingShape ==
  ASSUME Types, NEW p \in Commands, run[p].pc = "write", Becomes(p, Succeeding(p)), call' = call
  PROVE  Shape(p)'
<1>1. call[p] \in Calls /\ Shape(p)
  BY DEF Types, GeneratorTypeOK
<1> QED
  BY <1>1, SucceedingIs DEF Shape, Creates, Makes

LEMMA InitTypes == GeneratorInit => Types
<1> SUFFICES ASSUME GeneratorInit PROVE Types
  OBVIOUS
<1>1. disk \in [Paths -> File \union {Nothing}] /\ \A f \in There : f.dir \in dirs
  BY DEF GeneratorInit, File, There
<1>2. <<>> \in Seq(Project)
  OBVIOUS
<1>3. run \in [Commands -> Local]
  BY <1>2 DEF GeneratorInit, Local
<1>4. dirs \subseteq Dirs /\ faults \in 0 .. MaxFaults
  BY DEF GeneratorInit, Dirs
<1>6. GeneratorTypeOK
  BY <1>1, <1>3, <1>4 DEF GeneratorInit, GeneratorTypeOK
<1>5. \A p \in Commands : Shape(p)
  BY DEF GeneratorInit, Shape
<1> QED
  BY <1>5, <1>6 DEF Types

\* The types of all but disk, run and the parents of files, after any step.
LEMMA OtherTypes ==
  ASSUME Types, NEW p \in Commands, Step(p)
  PROVE  /\ call' \in [Commands -> Calls]
         /\ dirs' \subseteq Dirs /\ faults' \in 0 .. MaxFaults
         /\ before' \in [Commands -> SUBSET Paths]
         /\ during' \in [Commands -> SUBSET Commands]
<1> USE DEF Types, GeneratorTypeOK, Others
<1>1. CASE runInit(p) \/ runDemo(p) \/ runGenerate(p) \/ runOpenAPI(p)
  <2>1. PICK r : Begin(p, r)
    BY <1>1 DEF runInit, runDemo, runGenerate, runOpenAPI
  <2> QED
    BY <2>1 DEF Begin, There
<1>2. CASE \E f \in Paths : NoConflict(p, f) \/ Conflict(p, f) \/ StatAbsent(p, f) \/ StatExists(p, f)
  BY <1>2 DEF NoConflict, Conflict, StatAbsent, StatExists
<1>3. CASE MakeRoot(p) \/ NextTable(p)
  BY <1>3 DEF MakeRoot, NextTable, Dirs
<1>4. CASE MakeParents(p)
  BY <1>4, PathDirs DEF MakeParents, Parents, Shape, Dirs
<1>5. CASE AllTables(p) \/ Open(p) \/ DirectoryGone(p) \/ Write(p)
  BY <1>5 DEF AllTables, Open, DirectoryGone, Write
<1>6. CASE Fails(p) \/ RemoveFails(p) \/ Killed(p)
  BY <1>6 DEF Fails, RemoveFails, Killed
<1>7. CASE RemoveWritten(p)
  BY <1>7 DEF RemoveWritten, Removed
<1>8. CASE RemoveRoot(p)
  BY <1>8 DEF RemoveRoot
<1> QED
  BY <1>1, <1>2, <1>3, <1>4, <1>5, <1>6, <1>7, <1>8 DEF Step

\* How p begins, and what its local variables are then.
LEMMA BeginIs ==
  ASSUME Types, NEW p \in Commands, runInit(p) \/ runDemo(p) \/ runGenerate(p) \/ runOpenAPI(p)
  PROVE  LET r == run'[p]
         IN /\ run[p].pc = "idle" /\ UNCHANGED <<call, disk, dirs, faults>>
            /\ run' \in [Commands -> Local] /\ Shape(p)'
            /\ before' = [before EXCEPT ![p] = There]
            /\ during' = [q \in Commands |->
                           IF q = p THEN {o \in Commands : Running(o)}
                           ELSE IF Running(q) THEN during[q] \union {p} ELSE during[q]]
            /\ r.written = <<>> /\ r.reported = {} /\ r.at = 1
            /\ \/ r.pc = "check" /\ Creates(p) /\ r.todo = Project
               \/ r.pc = "over" /\ r.outcome = "ready"
               \/ r.pc = "table" /\ Makes(p)
               \/ r.pc = "open" /\ r.target = Output /\ ~Creates(p) /\ ~Makes(p)
<1>1. run[p] \in Local /\ Shape(p) /\ run \in [Commands -> Local] /\ Output \in Paths
  BY DEF Types, GeneratorTypeOK, Paths
<1>2. CASE runInit(p) \/ (runDemo(p) /\ "root" \notin dirs)
  <2>1. Begin(p, InitProject(p)) /\ Creates(p)
    BY <1>2 DEF runInit, runDemo, Creates
  <2>2. InitProject(p) \in Local
    BY <1>1 DEF InitProject, Local
  <2> QED
    BY <1>1, <2>1, <2>2 DEF Begin, Becomes, InitProject, Shape, Local, Creates, Makes
<1>3. CASE runDemo(p) /\ "root" \in dirs
  <2>1. Begin(p, Over(run[p], "ready"))
    BY <1>3 DEF runDemo
  <2>2. Over(run[p], "ready") \in Local
    BY <1>1 DEF Over, Local
  <2> QED
    BY <1>1, <2>1, <2>2 DEF Begin, Becomes, Over, Shape, Local, Creates, Makes
<1>4. CASE runGenerate(p)
  <2>1. Begin(p, [run[p] EXCEPT !.pc = "table"]) /\ Makes(p)
    BY <1>4 DEF runGenerate, Makes
  <2>2. [run[p] EXCEPT !.pc = "table"] \in Local
    BY <1>1 DEF Local
  <2> QED
    BY <1>1, <2>1, <2>2 DEF Begin, Becomes, Shape, Local, Creates, Makes
<1>5. CASE runOpenAPI(p)
  <2>1. Begin(p, [run[p] EXCEPT !.pc = "open", !.target = Output]) /\ call[p].cmd = "openapi"
    BY <1>5 DEF runOpenAPI
  <2>2. [run[p] EXCEPT !.pc = "open", !.target = Output] \in Local
    BY <1>1 DEF Local
  <2> QED
    BY <1>1, <2>1, <2>2 DEF Begin, Becomes, Shape, Local, Creates, Makes
<1> QED
  BY <1>2, <1>3, <1>4, <1>5 DEF runDemo

\* What the steps that leave the disk alone, but for failing, make of p.
LEMMA CheckIs ==
  ASSUME Types, NEW p \in Commands, NEW f \in Paths, NoConflict(p, f)
  PROVE  LET r == run'[p]
         IN /\ run' \in [Commands -> Local] /\ Shape(p)' /\ run[p].pc = "check"
            /\ f \in run[p].todo /\ disk[f] = Nothing
            /\ r.outcome = "none" /\ r.written = run[p].written
            /\ \/ r.pc = "check" /\ r.todo = run[p].todo \ {f}
               \/ r.pc = "mkroot" /\ run[p].todo = {f} /\ r.todo = Project
<1>1. run[p] \in Local /\ Shape(p) /\ run \in [Commands -> Local] /\ call' = call
  BY DEF Types, GeneratorTypeOK, NoConflict, Others
<1> DEFINE t == run[p].todo \ {f}
<1>2. CASE t = {}
  <2>1. [run[p] EXCEPT !.pc = "mkroot", !.todo = Project] \in Local
    BY <1>1 DEF Local
  <2> QED
    BY <1>1, <1>2, <2>1 DEF NoConflict, Becomes, Shape, Local, Creates, Makes
<1>3. CASE t # {}
  <2>1. [run[p] EXCEPT !.todo = t] \in Local
    BY <1>1 DEF Local
  <2> QED
    BY <1>1, <1>3, <2>1 DEF NoConflict, Becomes, Shape, Local, Creates, Makes
<1> QED
  BY <1>2, <1>3

LEMMA MoveIs ==
  ASSUME Types, NEW p \in Commands,
         MakeRoot(p) \/ NextTable(p) \/ MakeParents(p) \/ \E f \in Paths : StatAbsent(p, f)
  PROVE  LET r == run'[p]
         IN /\ run' \in [Commands -> Local] /\ Shape(p)'
            /\ disk' = disk /\ dirs \subseteq dirs'
            /\ r.outcome = "none" /\ r.todo = run[p].todo /\ r.at = run[p].at
            /\ r.handle = run[p].handle /\ r.written = run[p].written
            /\ r.reported = run[p].reported /\ r.cwd = run[p].cwd
            /\ \/ run[p].pc = "mkroot" /\ r.pc = "stat"
               \/ /\ run[p].pc = "table" /\ r.pc = "stat" /\ More(p)
                  /\ r.target = FileOf(call[p], Table(p))
               \/ run[p].pc = "stat" /\ r.pc = "mkdir" /\ r.target \in Targets(p) /\ Absent(p, r.target)
               \/ run[p].pc = "mkdir" /\ r.pc = "open" /\ r.target = run[p].target /\ ~Lost(p)
<1>1. run[p] \in Local /\ Shape(p) /\ run \in [Commands -> Local] /\ call' = call
  BY DEF Types, GeneratorTypeOK, MakeRoot, NextTable, MakeParents, StatAbsent, Others
<1>2. CASE MakeRoot(p)
  <2>1. [run[p] EXCEPT !.pc = "stat"] \in Local
    BY <1>1 DEF Local
  <2> QED
    BY <1>1, <1>2, <2>1 DEF MakeRoot, Becomes, Shape, Local, Creates, Makes
<1>3. CASE NextTable(p)
  <2> DEFINE g == FileOf(call[p], Table(p))
  <2>1. g \in Paths /\ More(p)
    BY <1>3, TablePath DEF Types, NextTable
  <2>2. /\ run' = [run EXCEPT ![p] = [run[p] EXCEPT !.pc = "stat", !.target = g]]
        /\ run[p].pc = "table" /\ disk' = disk /\ dirs \subseteq dirs'
    BY <1>3 DEF NextTable, Becomes
  <2>3. g = FileOf(call[p], Table(p))
    OBVIOUS
  <2> HIDE DEF g
  <2>4. [run[p] EXCEPT !.pc = "stat", !.target = g] \in Local
    BY <1>1, <2>1 DEF Local
  <2>5. run' \in [Commands -> Local] /\ run'[p] = [run[p] EXCEPT !.pc = "stat", !.target = g]
    BY <1>1, <2>2, <2>4
  <2>6. Makes(p) /\ run[p].outcome = "none"
    BY <1>1, <2>2 DEF Shape
  <2>7. More(p)' /\ FileOf(call[p], Table(p))' = g
    BY <1>1, <2>1, <2>3, <2>5 DEF More, Table, FileOf, Local
  <2> QED
    BY <1>1, <2>1, <2>2, <2>3, <2>5, <2>6, <2>7 DEF Shape, Local, Creates, Makes
<1>4. CASE MakeParents(p)
  <2>1. [run[p] EXCEPT !.pc = "open"] \in Local
    BY <1>1 DEF Local
  <2>2. run' \in [Commands -> Local] /\ run'[p] = [run[p] EXCEPT !.pc = "open"]
    BY <1>1, <1>4, <2>1 DEF MakeParents, Becomes
  <2>3. run[p].pc = "mkdir" /\ ~Lost(p) /\ disk' = disk /\ dirs \subseteq dirs'
    BY <1>4 DEF MakeParents
  <2>4. More(p)' = More(p) /\ Table(p)' = Table(p)
    BY <1>1, <2>2 DEF More, Table, Local
  <2> QED
    BY <1>1, <2>2, <2>3, <2>4 DEF Shape, Local, Creates, Makes, FileOf
<1>5. CASE \E f \in Paths : StatAbsent(p, f)
  <2>1. PICK f \in Paths : StatAbsent(p, f)
    BY <1>5
  <2>2. [run[p] EXCEPT !.pc = "mkdir", !.target = f] \in Local
    BY <1>1 DEF Local
  <2>3. run' \in [Commands -> Local] /\ run'[p] = [run[p] EXCEPT !.pc = "mkdir", !.target = f]
    BY <1>1, <2>1, <2>2 DEF StatAbsent, Becomes
  <2>4. /\ run[p].pc = "stat" /\ f \in Targets(p) /\ Absent(p, f) /\ disk' = disk /\ dirs' = dirs
        /\ run'[p].target = f
    BY <1>1, <2>1, <2>3 DEF StatAbsent, Local
  <2>5. More(p)' = More(p) /\ Table(p)' = Table(p)
    BY <1>1, <2>3 DEF More, Table, Local
  <2>6. Creates(p) => f \in run[p].todo
    BY <2>4 DEF Targets
  <2>7. Makes(p) => f = run[p].target
    BY <1>1, <2>4 DEF Targets, Makes, Creates
  <2> QED
    BY <1>1, <2>3, <2>4, <2>5, <2>6, <2>7 DEF Shape, Local, Creates, Makes, FileOf
<1> QED
  BY <1>2, <1>3, <1>4, <1>5

\* A step that ends p with an outcome.
Ends(p) ==
  \/ AllTables(p) \/ Killed(p) \/ RemoveRoot(p)
  \/ \E f \in Paths : Conflict(p, f)
  \/ Fails(p) /\ run[p].pc \in {"check", "mkroot"}

LEMMA EndsIs ==
  ASSUME Types, NEW p \in Commands, Ends(p)
  PROVE  LET r == run'[p]
         IN /\ run' \in [Commands -> Local] /\ Shape(p)' /\ disk' = disk
            /\ r.pc = "over" /\ r.written = run[p].written /\ r.reported = run[p].reported
            /\ r.at = run[p].at
            /\ \/ run[p].pc \in {"check", "mkroot"} /\ r.outcome = "failed"
               \/ run[p].pc = "rollback" /\ run[p].written = <<>> /\ r.outcome = "failed"
               \/ run[p].pc = "table" /\ ~More(p) /\ r.outcome = "ok"
               \/ r.outcome = "killed" /\ Running(p)
<1>1. run[p] \in Local /\ Shape(p) /\ run \in [Commands -> Local] /\ call' = call
  BY DEF Types, GeneratorTypeOK, Ends, AllTables, Killed, RemoveRoot, Conflict, Fails, Others
<1>2. \A o \in {"ok", "killed", "failed"} : Over(run[p], o) \in Local
  BY <1>1 DEF Over, Local
<1>3. CASE AllTables(p)
  BY <1>1, <1>2, <1>3 DEF AllTables, Becomes, Over, Shape, Local, Creates, Makes
<1>4. CASE Killed(p)
  BY <1>1, <1>2, <1>4 DEF Killed, Becomes, Over, Shape, Local, Creates, Makes
<1>5. CASE RemoveRoot(p)
  <2>1. /\ run' \in [Commands -> Local] /\ run'[p] = Over(run[p], "failed")
        /\ run[p].pc = "rollback" /\ run[p].written = <<>> /\ disk' = disk
    <3>1. \A q \in Commands, b \in BOOLEAN : [run[q] EXCEPT !.cwd = b] \in Local
      BY <1>1 DEF Local
    <3>2. \A q \in Commands :
            [run[q] EXCEPT !.cwd = @ /\ ~(Empty /\ Running(q))]
              = [run[q] EXCEPT !.cwd = run[q].cwd /\ ~(Empty /\ Running(q))]
      OBVIOUS
    <3>3. \A q \in Commands : [run[q] EXCEPT !.cwd = @ /\ ~(Empty /\ Running(q))] \in Local
      BY <3>1, <3>2
    <3> QED
      BY <1>1, <1>2, <1>5, <3>3 DEF RemoveRoot
  <2> QED
    BY <1>1, <2>1 DEF Over, Shape, Local, Creates, Makes
<1>6. CASE \E f \in Paths : Conflict(p, f)
  BY <1>1, <1>2, <1>6 DEF Conflict, Becomes, Over, Shape, Local, Creates, Makes
<1>7. CASE Fails(p) /\ run[p].pc \in {"check", "mkroot"}
  BY <1>1, <1>2, <1>7 DEF Fails, Becomes, Over, Shape, Local, Creates, Makes
<1> QED
  BY <1>3, <1>4, <1>5, <1>6, <1>7 DEF Ends

\* A step after which p does what it does about an error of writeFile.
Errs(p) ==
  \/ DirectoryGone(p)
  \/ \E f \in Paths : StatExists(p, f)
  \/ Fails(p) /\ run[p].pc \notin {"check", "mkroot"}

LEMMA ErrsIs ==
  ASSUME Types, NEW p \in Commands, Errs(p)
  PROVE  /\ Becomes(p, Failing(p)) /\ run' \in [Commands -> Local] /\ Shape(p)'
         /\ UNCHANGED <<call, disk, dirs, before, during>>
         /\ run[p].pc \in {"table", "stat", "mkdir", "open", "write"}
         /\ faults' \in {faults, faults + 1}
         /\ run[p].pc = "write" => faults' = faults + 1
<1>1. /\ Becomes(p, Failing(p)) /\ UNCHANGED <<call, disk, dirs, before, during>>
      /\ run[p].pc \in {"table", "stat", "mkdir", "open", "write"}
      /\ faults' \in {faults, faults + 1}
      /\ run[p].pc = "write" => faults' = faults + 1
  BY DEF Errs, DirectoryGone, StatExists, Fails, Others
<1> QED
  BY <1>1, FailingIs, FailingShape

\* The rollback takes the last of the written files off its list.
Takes(p) == RemoveWritten(p) \/ RemoveFails(p)

LEMMA TakesIs ==
  ASSUME Types, NEW p \in Commands, Takes(p)
  PROVE  LET r == run'[p]
         IN /\ run' \in [Commands -> Local] /\ Shape(p)' /\ run[p].pc = "rollback"
            /\ r.pc = "rollback" /\ r.outcome = "none" /\ r.todo = run[p].todo
            /\ Last(run[p].written) \in Project /\ r.written = Front(run[p].written)
            /\ ToSet(run[p].written) = ToSet(r.written) \union {Last(run[p].written)}
<1> DEFINE w == Front(run[p].written)
<1>1. run[p] \in Local /\ Shape(p) /\ run \in [Commands -> Local] /\ call' = call
  BY DEF Types, GeneratorTypeOK, Takes, RemoveWritten, RemoveFails, Others
<1>2. run[p].written \in Seq(Project) /\ run[p].written # <<>>
  BY <1>1 DEF Takes, RemoveWritten, RemoveFails, Local
<1>3. /\ w \in Seq(Project) /\ Last(run[p].written) \in Project
      /\ ToSet(run[p].written) = ToSet(w) \union {Last(run[p].written)}
  BY <1>2, FrontAndLast
<1>4. run' = [run EXCEPT ![p] = [run[p] EXCEPT !.written = w]] /\ run[p].pc = "rollback"
  BY DEF Takes, RemoveWritten, RemoveFails, Becomes
<1>5. w = Front(run[p].written)
  OBVIOUS
<1> HIDE DEF w
<1>6. [run[p] EXCEPT !.written = w] \in Local
  BY <1>1, <1>3 DEF Local
<1>7. run' \in [Commands -> Local] /\ run'[p] = [run[p] EXCEPT !.written = w]
  BY <1>1, <1>4, <1>6
<1>8. Shape(p)'
  BY <1>1, <1>4, <1>7 DEF Shape, Local, Creates, Makes
<1> QED
  BY <1>1, <1>3, <1>4, <1>5, <1>7, <1>8 DEF Shape, Local

LEMMA OpenIs ==
  ASSUME Types, NEW p \in Commands, Open(p)
  PROVE  LET r == run'[p]
             f == run[p].target
             made == IF disk[f] = Nothing THEN p ELSE disk[f].made
         IN /\ Shape(p)' /\ run[p].pc = "open" /\ f \in Paths /\ ~Lost(p)
            /\ disk' = [disk EXCEPT ![f] = [made |-> made, by |-> p, of |-> <<>>, whole |-> FALSE]]
            /\ UNCHANGED <<call, dirs, faults, before, during>>
            /\ r.pc = "write" /\ r.outcome = "none" /\ r.target = f /\ r.handle = made
            /\ r.todo = run[p].todo /\ r.at = run[p].at /\ r.written = run[p].written
            /\ r.reported = run[p].reported /\ r.cwd = run[p].cwd
<1> DEFINE f == run[p].target
           made == IF disk[f] = Nothing THEN p ELSE disk[f].made
<1>1. run[p] \in Local /\ Shape(p) /\ run \in [Commands -> Local]
  BY DEF Types, GeneratorTypeOK
<1>2. /\ run[p].pc = "open" /\ f \in Paths /\ ~Lost(p)
      /\ disk' = [disk EXCEPT ![f] = [made |-> made, by |-> p, of |-> <<>>, whole |-> FALSE]]
      /\ UNCHANGED <<call, dirs, faults, before, during>>
  BY <1>1 DEF Open, Others, Shape
<1>3. run'[p] = [run[p] EXCEPT !.pc = "write", !.handle = made]
  BY <1>1 DEF Open, Becomes
<1> HIDE DEF made
<1>4. More(p)' = More(p) /\ Table(p)' = Table(p)
  BY <1>1, <1>2, <1>3 DEF More, Table, Local
<1>5. Shape(p)'
  BY <1>1, <1>2, <1>3, <1>4 DEF Shape, Local, Creates, Makes, FileOf
<1> QED
  BY <1>1, <1>2, <1>3, <1>5 DEF Shape, Local, made

LEMMA WriteIs ==
  ASSUME Types, NEW p \in Commands, Write(p)
  PROVE  LET f == run[p].target
         IN /\ run' \in [Commands -> Local] /\ Shape(p)' /\ Becomes(p, Succeeding(p))
            /\ run[p].pc = "write" /\ f \in Paths
            /\ UNCHANGED <<call, dirs, faults, before, during>>
            /\ \A g \in Paths : g # f => disk'[g] = disk[g]
            /\ disk[f] = Nothing \/ disk[f].made # run[p].handle => disk' = disk
            /\ disk[f] # Nothing /\ disk[f].made = run[p].handle =>
                 /\ disk'[f] # Nothing /\ disk'[f].by = p /\ disk'[f].whole
                 /\ disk'[f].of = IF More(p) THEN Table(p) ELSE <<>>
<1> DEFINE f == run[p].target
           of == IF More(p) THEN Table(p) ELSE <<>>
<1>1. /\ run[p].pc = "write" /\ Becomes(p, Succeeding(p))
      /\ UNCHANGED <<call, dirs, faults, before, during>>
  BY DEF Write, Others
<1>2. run' \in [Commands -> Local] /\ Shape(p)' /\ f \in Paths /\ disk[f] \in File \union {Nothing}
  BY <1>1, SucceedingIs, SucceedingShape DEF Types, GeneratorTypeOK, Shape
<1>3. disk' = IF disk[f] # Nothing /\ disk[f].made = run[p].handle
              THEN [disk EXCEPT ![f].by = p, ![f].whole = TRUE, ![f].of = of]
              ELSE disk
  BY DEF Write
<1>4. disk[f] # Nothing => \A b, o : [disk[f] EXCEPT !.by = p, !.whole = TRUE, !.of = o].by = p
                              /\ [disk[f] EXCEPT !.by = p, !.whole = TRUE, !.of = o].whole
                              /\ [disk[f] EXCEPT !.by = p, !.whole = TRUE, !.of = o].of = o
  BY <1>2 DEF File
<1>5. disk'[f] # Nothing \/ disk[f] = Nothing
  BY <1>2, WriteType DEF There
<1> HIDE DEF of
<1>6. disk[f] # Nothing /\ disk[f].made = run[p].handle =>
        disk'[f].by = p /\ disk'[f].whole /\ disk'[f].of = of
  BY <1>2, <1>3, <1>4 DEF Types, GeneratorTypeOK
<1>7. \A g \in Paths : g # f => disk'[g] = disk[g]
  BY <1>2, <1>3 DEF Types, GeneratorTypeOK
<1> QED
  BY <1>1, <1>2, <1>3, <1>5, <1>6, <1>7 DEF of

Begins(p) == runInit(p) \/ runDemo(p) \/ runGenerate(p) \/ runOpenAPI(p)

Moves(p) ==
  MakeRoot(p) \/ NextTable(p) \/ MakeParents(p) \/ \E f \in Paths : StatAbsent(p, f)

\* The kinds of steps a command takes.
LEMMA StepKinds ==
  ASSUME Types, NEW p \in Commands, Step(p)
  PROVE  \/ Begins(p) \/ Moves(p) \/ Ends(p) \/ Errs(p) \/ Takes(p) \/ Open(p) \/ Write(p)
         \/ \E f \in Paths : NoConflict(p, f)
  BY DEF Step, Begins, Moves, Ends, Errs, Takes

\* What a rollback removes is gone; nothing else happens to the disk.
LEMMA TakesDisk ==
  ASSUME Types, NEW p \in Commands, Takes(p)
  PROVE  LET f == Last(run[p].written)
         IN \/ /\ disk' = [disk EXCEPT ![f] = Nothing] /\ faults' = faults /\ f \in Project
               /\ before' = [q \in Commands |-> before[q] \ {f}]
            \/ disk' = disk /\ before' = before /\ faults' = faults + 1
  BY TakesIs DEF Takes, RemoveWritten, RemoveFails, Removed

LEMMA GeneratorStepTypes ==
  ASSUME Types, NEW p \in Commands, Step(p)
  PROVE  Types'
<1>1. /\ call' \in [Commands -> Calls]
      /\ dirs' \subseteq Dirs /\ faults' \in 0 .. MaxFaults
      /\ before' \in [Commands -> SUBSET Paths]
      /\ during' \in [Commands -> SUBSET Commands]
  BY OtherTypes
<1>2. \A q \in Commands \ {p} : Shape(q)'
  BY OthersShape
<1> SUFFICES /\ disk' \in [Paths -> File \union {Nothing}]
             /\ \A f \in There' : f.dir \in dirs'
             /\ run' \in [Commands -> Local] /\ Shape(p)'
  BY <1>1, <1>2 DEF Types, GeneratorTypeOK
<1> USE DEF There
<1>3. CASE Begins(p)
  BY <1>3, BeginIs DEF Begins, Types, GeneratorTypeOK
<1>4. CASE Moves(p)
  BY <1>4, MoveIs DEF Moves, Types, GeneratorTypeOK
<1>5. CASE Ends(p)
  <2>1. dirs' = dirs \/ {f \in Paths : disk[f] # Nothing} = {}
    BY <1>5 DEF Ends, AllTables, Killed, RemoveRoot, Conflict, Fails, Empty
  <2> QED
    BY <1>5, <2>1, EndsIs DEF Types, GeneratorTypeOK
<1>6. CASE Errs(p)
  BY <1>6, ErrsIs DEF Types, GeneratorTypeOK
<1>7. CASE Takes(p)
  <2>1. dirs' = dirs
    BY <1>7 DEF Takes, RemoveWritten, RemoveFails
  <2> QED
    BY <1>7, <2>1, TakesIs, TakesDisk DEF Types, GeneratorTypeOK
<1>8. CASE Open(p)
  BY <1>8, OpenType, OpenIs
<1>9. CASE Write(p)
  BY <1>9, WriteType, WriteIs DEF Types, GeneratorTypeOK
<1>10. CASE \E f \in Paths : NoConflict(p, f)
  BY <1>10, CheckIs DEF NoConflict, Types, GeneratorTypeOK
<1> QED
  BY <1>3, <1>4, <1>5, <1>6, <1>7, <1>8, <1>9, <1>10, StepKinds

-----------------------------------------------------------------------------
\* Two that run at the same time know of each other.
Companions ==
  \A p, q \in Commands : Running(p) /\ Running(q) /\ p # q => q \in during[p]

\* What p is about to write was not there when it began, unless it was told to
\* overwrite it, or has lost its directory and will not get to it; nor was what
\* it will remove.
Kept(p) ==
  /\ \A f \in before[p] : disk[f] # Nothing
  /\ run[p].pc \in {"mkdir", "open", "write"} /\ run[p].target \in before[p] \ {Output} =>
       call[p].force \/ (run[p].pc = "mkdir" /\ Lost(p))
  /\ ToSet(run[p].written) \intersect before[p] \subseteq {Output}

\* The files that p made, and those of them its rollback would not find.
Made(p) == {f \in There : disk[f].made = p}
Missed(p) == Made(p) \ ToSet(run[p].written)

Cleanable(p) ==
  Creates(p) =>
    /\ run[p].pc \in {"idle", "check", "mkroot"} => Made(p) = {}
    /\ run[p].pc \in {"stat", "mkdir", "open"} => Missed(p) = {}
    /\ run[p].pc = "write" => Missed(p) \subseteq {run[p].target}
    /\ run[p].pc = "rollback" => IsFiniteSet(Missed(p)) /\ Cardinality(Missed(p)) <= faults
    /\ run[p].outcome = "failed" => IsFiniteSet(Made(p)) /\ Cardinality(Made(p)) <= faults

\* An init that will not be created any more, or was killed.
Bad(p) == run[p].pc = "rollback" \/ run[p].outcome \in {"failed", "killed"}

Spoiled(p) == \E q \in during[p] : Creates(q) /\ Bad(q)

\* A file that is not whole is being written, or was left by one that failed.
LeftBy(f, q) ==
  /\ Creates(q)
  /\ \/ run[q].pc = "write" /\ run[q].target = f /\ run[q].handle = disk[f].made
     \/ Bad(q)

Partial ==
  \A f \in Project \ {Output} : disk[f] # Nothing /\ ~disk[f].whole =>
    \E q \in Commands : q = disk[f].by /\ LeftBy(f, q)

\* An init that has passed its check, and has not failed.
Past(p) ==
  \/ Creates(p) /\ run[p].pc \in {"mkroot", "stat", "mkdir", "open", "write"}
  \/ run[p].outcome = "created"

\* What it has found absent.
Cleared(p) ==
  {f \in Project : Past(p) \/ (run[p].pc = "check" /\ f \notin run[p].todo)}

\* What it has opened so far.
Opened(p) ==
  IF run[p].pc = "write" THEN (Project \ run[p].todo) \union {run[p].target} ELSE Project \ run[p].todo

Creating(p) ==
  ~Spoiled(p) =>
    /\ Past(p) => \A f \in Opened(p) : disk[f] # Nothing
    /\ \A f \in Cleared(p) \ {Output} : disk[f] # Nothing => disk[f].by \in during[p] \union {p}
    /\ run[p].outcome = "created" =>
         \A q \in Commands \ (during[p] \union {p}) :
           Creates(q) => run[q].pc \in {"idle", "check", "over"}

\* from-schema among commands that write no resources.
Alone(p) == \A q \in during[p] : ~Makes(q)

Place(p, k) == FileOf(call[p], call[p].names[k])

\* The tables whose turn has come.
Come(p) == IF run[p].pc \in {"stat", "mkdir", "open", "write"} THEN run[p].at ELSE run[p].at - 1

Reporting(p) ==
  call[p].cmd = "schema" /\ Running(p) /\ Alone(p) =>
    /\ run[p].reported \subseteq 1 .. run[p].at - 1 /\ run[p].at <= Len(call[p].names) + 1
    /\ run[p].target # Output =>
         /\ run[p].pc \in {"mkdir", "open"} =>
              disk[run[p].target] = Nothing \/ call[p].force \/ Lost(p)
         /\ run[p].pc = "write" =>
              /\ disk[run[p].target] # Nothing /\ disk[run[p].target].made = run[p].handle
              /\ ~disk[run[p].target].whole
    /\ \A k \in run[p].reported :
         /\ Place(p, k) # Output
         /\ call[p].force => \A j \in k + 1 .. Come(p) : Place(p, j) # Place(p, k)
         => LET content == disk[Place(p, k)]
            IN content # Nothing /\ content.whole /\ content.by = p /\ content.of = call[p].names[k]

GeneratorIInv ==
  /\ Types /\ Companions /\ Partial
  /\ \A p \in Commands : Kept(p) /\ Cleanable(p) /\ Creating(p) /\ Reporting(p)

-----------------------------------------------------------------------------
\* Only a command that is under way takes steps, but for its first.
LEMMA UnderWay ==
  ASSUME Types, NEW p \in Commands, Step(p), ~Begins(p)
  PROVE  /\ Running(p) /\ during' = during
         /\ \A q \in Commands : before'[q] \subseteq before[q]
<1>1. Running(p)
  BY StepKinds, MoveIs, EndsIs, ErrsIs, TakesIs, OpenIs, WriteIs, CheckIs DEF Moves, Running
<1> QED
  BY <1>1, Frame DEF Running, Types

LEMMA BeginDuring ==
  ASSUME Types, NEW p \in Commands, Begins(p)
  PROVE  /\ during'[p] = {o \in Commands : Running(o)}
         /\ \A q \in Commands : Running(q) => q # p /\ during'[q] = during[q] \union {p}
         /\ \A q \in Commands : q # p /\ ~Running(q) => during'[q] = during[q]
  BY BeginIs DEF Begins, Running

LEMMA CompanionsStay ==
  ASSUME Types, Companions, NEW p \in Commands, Step(p)
  PROVE  Companions'
<1>1. \A q \in Commands \ {p} : Running(q)' = Running(q)
  BY Frame DEF SameBut, Running, Types
<1>2. CASE Begins(p)
  BY <1>1, <1>2, BeginDuring DEF Companions
<1>3. CASE ~Begins(p)
  BY <1>1, <1>3, UnderWay DEF Companions
<1> QED
  BY <1>2, <1>3

-----------------------------------------------------------------------------
\* What one step does to the disk: only p writes, and only its target; only
\* a rollback removes, and only files of the project.
LEMMA DiskStep ==
  ASSUME Types, NEW p \in Commands, Step(p), NEW f \in Paths
  PROVE  \/ disk'[f] = disk[f]
         \/ run[p].pc \in {"open", "write"} /\ run[p].target = f /\ disk'[f] # Nothing /\ disk'[f].by = p
         \/ /\ run[p].pc = "rollback" /\ f \in ToSet(run[p].written) /\ f \in Project
            /\ disk'[f] = Nothing /\ \A q \in Commands : f \notin before'[q]
<1> USE DEF Types, GeneratorTypeOK
<1>1. CASE Begins(p)
  BY <1>1, BeginIs DEF Begins
<1>2. CASE Moves(p) \/ Ends(p) \/ Errs(p)
  BY <1>2, MoveIs, EndsIs, ErrsIs DEF Moves
<1>3. CASE \E g \in Paths : NoConflict(p, g)
  BY <1>3 DEF NoConflict
<1>4. CASE Takes(p)
  <2> DEFINE g == Last(run[p].written)
  <2>1. g \in ToSet(run[p].written) /\ g \in Project /\ run[p].pc = "rollback"
    BY <1>4, TakesIs
  <2>2. \/ /\ disk' = [disk EXCEPT ![g] = Nothing]
           /\ before' = [q \in Commands |-> before[q] \ {g}]
        \/ disk' = disk
    BY <1>4, TakesDisk
  <2> HIDE DEF g
  <2> QED
    BY <2>1, <2>2
<1>5. CASE Open(p)
  <2> DEFINE content == [made |-> IF disk[f] = Nothing THEN p ELSE disk[f].made, by |-> p,
                      of |-> <<>>, whole |-> FALSE]
  <2>1. run[p].pc = "open" /\ run[p].target \in Paths
        /\ disk' = [disk EXCEPT ![run[p].target] =
             [made |-> IF disk[run[p].target] = Nothing THEN p ELSE disk[run[p].target].made,
              by |-> p, of |-> <<>>, whole |-> FALSE]]
    BY <1>5, OpenIs
  <2>2. CASE f # run[p].target
    BY <2>1, <2>2
  <2>3. CASE f = run[p].target
    <3>1. disk'[f] = content
      BY <2>1, <2>3
    <3>2. disk[f] # Nothing => disk[f] \in File
      OBVIOUS
    <3>3. content \in File
      BY <3>2 DEF File
    <3> QED
      BY <2>1, <2>3, <3>1, <3>3
  <2> QED
    BY <2>2, <2>3
<1>6. CASE Write(p)
  BY <1>6, WriteIs
<1> QED
  BY <1>1, <1>2, <1>3, <1>4, <1>5, <1>6, StepKinds

-----------------------------------------------------------------------------
\* KeepsWhatWasThere.
LEMMA BeforeIsThere ==
  ASSUME Types, NEW p \in Commands, Step(p), \A q \in Commands : Kept(q)
  PROVE  \A q \in Commands : \A f \in before'[q] : disk'[f] # Nothing
<1>1. CASE Begins(p)
  <2>1. disk' = disk /\ before' = [before EXCEPT ![p] = There]
    BY <1>1, BeginIs DEF Begins
  <2> QED
    BY <2>1 DEF Kept, There, Types, GeneratorTypeOK
<1>2. CASE ~Begins(p)
  <2> SUFFICES ASSUME NEW q \in Commands, NEW f \in before'[q] PROVE disk'[f] # Nothing
    OBVIOUS
  <2>1. f \in before[q] /\ f \in Paths /\ disk[f] # Nothing
    BY <1>2, UnderWay DEF Kept, Types, GeneratorTypeOK
  <2> QED
    BY <2>1, DiskStep
<1> QED
  BY <1>1, <1>2

LEMMA OthersKept ==
  ASSUME Types, NEW p \in Commands, Step(p), \A q \in Commands : Kept(q),
         NEW q \in Commands, q # p
  PROVE  Kept(q)'
<1>1. SameBut(q) /\ before'[q] \subseteq before[q] /\ call' = call
  BY Frame DEF Types
<1>2. \A f \in before'[q] : disk'[f] # Nothing
  BY BeforeIsThere
<1>3. Lost(q) => Lost(q)'
  BY <1>1 DEF Lost, Creates, SameBut
<1> QED
  BY <1>1, <1>2, <1>3 DEF Kept, SameBut

LEMMA KeptStays ==
  ASSUME Types, NEW p \in Commands, Step(p), \A q \in Commands : Kept(q)
  PROVE  Kept(p)'
<1>1. \A f \in before'[p] : disk'[f] # Nothing
  BY BeforeIsThere
<1>2. Kept(p) /\ Shape(p) /\ call' = call /\ run[p] \in Local /\ call[p] \in Calls
  BY Frame DEF Types, GeneratorTypeOK
<1>3. CASE Begins(p)
  BY <1>1, <1>3, BeginIs, EmptySequence DEF Begins, Kept
<1>4. CASE ~Begins(p)
  <2>1. before'[p] \subseteq before[p]
    BY <1>4, UnderWay
  <2>2. CASE Moves(p)
    <3>1. run'[p].written = run[p].written /\ Lost(p)' = Lost(p)
      BY <1>2, <2>2, MoveIs DEF Moves, Lost, Creates
    <3>2. run'[p].pc = "mkdir" => Absent(p, run'[p].target)
      BY <2>2, MoveIs DEF Moves
    <3>3. run'[p].pc = "open" => run[p].pc = "mkdir" /\ ~Lost(p) /\ run'[p].target = run[p].target
      BY <2>2, MoveIs DEF Moves
    <3>4. run'[p].pc # "write"
      BY <2>2, MoveIs DEF Moves
    <3> QED
      BY <1>1, <1>2, <2>1, <3>1, <3>2, <3>3, <3>4 DEF Kept, Absent
  <2>3. CASE Ends(p) \/ Errs(p)
    <3>1. run'[p].written = run[p].written /\ run'[p].pc \notin {"mkdir", "open", "write"}
      BY <1>2, <2>3, EndsIs, ErrsIs, FailingIs DEF Types, GeneratorTypeOK
    <3> QED
      BY <1>1, <1>2, <2>1, <3>1 DEF Kept
  <2>4. CASE Takes(p)
    BY <1>1, <1>2, <2>1, <2>4, TakesIs DEF Kept
  <2>5. CASE \E f \in Paths : NoConflict(p, f)
    BY <1>1, <1>2, <2>1, <2>5, CheckIs DEF Kept
  <2>6. CASE Open(p)
    BY <1>1, <1>2, <2>1, <2>6, OpenIs DEF Kept
  <2>7. CASE Write(p)
    <3>1. /\ run'[p].pc \notin {"mkdir", "open", "write"}
          /\ \/ run'[p].written = run[p].written
             \/ Creates(p) /\ run'[p].written = Append(run[p].written, run[p].target)
      BY <1>2, <2>7, WriteIs, SucceedingIs DEF Creates
    <3>2. CASE run'[p].written = run[p].written
      BY <1>1, <1>2, <2>1, <3>1, <3>2 DEF Kept
    <3>3. CASE Creates(p) /\ run'[p].written = Append(run[p].written, run[p].target)
      <4>1. run[p].pc = "write" /\ run[p].target \in Project /\ run[p].written \in Seq(Project)
        BY <1>2, <2>7, <3>3, WriteIs DEF Shape, Local
      <4>2. ToSet(run'[p].written) = ToSet(run[p].written) \union {run[p].target}
        BY <3>3, <4>1, AppendToIt
      <4>3. run[p].target \notin before[p] \ {Output}
        BY <1>2, <3>3, <4>1 DEF Kept, Creates
      <4> QED
        BY <1>1, <1>2, <2>1, <3>1, <4>2, <4>3 DEF Kept
    <3> QED
      BY <3>1, <3>2, <3>3
  <2> QED
    BY <1>4, <2>2, <2>3, <2>4, <2>5, <2>6, <2>7, StepKinds
<1> QED
  BY <1>3, <1>4


-----------------------------------------------------------------------------
\* FailureCleansUp.

\* A file is made by whoever opens a path that has none.
LEMMA MadeStep ==
  ASSUME Types, NEW p \in Commands, Step(p), NEW q \in Commands
  PROVE  /\ Made(q)' \subseteq Made(q) \union {run[p].target}
         /\ q # p \/ ~Open(p) => Made(q)' \subseteq Made(q)
<1> USE DEF Types, GeneratorTypeOK
<1>1. CASE Begins(p)
  <2>1. disk' = disk
    BY <1>1, BeginIs DEF Begins
  <2> QED
    BY <2>1 DEF Made, There
<1>2. CASE Moves(p) \/ Ends(p) \/ Errs(p) \/ \E g \in Paths : NoConflict(p, g)
  <2>1. disk' = disk
    BY <1>2, MoveIs, EndsIs, ErrsIs DEF Moves, NoConflict
  <2> QED
    BY <2>1 DEF Made, There
<1>3. CASE Takes(p)
  <2> DEFINE g == Last(run[p].written)
  <2>1. g \in Paths
    BY <1>3, TakesIs DEF Paths
  <2>2. disk' = [disk EXCEPT ![g] = Nothing] \/ disk' = disk
    BY <1>3, TakesDisk
  <2> HIDE DEF g
  <2> QED
    BY <2>1, <2>2 DEF Made, There
<1>4. CASE Open(p)
  <2> DEFINE f == run[p].target
             made == IF disk[f] = Nothing THEN p ELSE disk[f].made
             content == [made |-> made, by |-> p, of |-> <<>>, whole |-> FALSE]
  <2>1. f \in Paths /\ disk' = [disk EXCEPT ![f] = content] /\ run[p].pc = "open"
    BY <1>4, OpenIs
  <2>2. content.made = made
    OBVIOUS
  <2>3. made = IF disk[f] = Nothing THEN p ELSE disk[f].made
    OBVIOUS
  <2> HIDE DEF f, made, content
  <2>4. \A g \in Paths : disk'[g] = IF g = f THEN content ELSE disk[g]
    BY <2>1
  <2> QED
    BY <1>4, <2>1, <2>2, <2>3, <2>4 DEF Made, There, f
<1>5. CASE Write(p)
  BY <1>5, WriteType DEF Made
<1> QED
  BY <1>1, <1>2, <1>3, <1>4, <1>5, StepKinds

LEMMA FaultsGrow ==
  ASSUME Types, NEW p \in Commands, Step(p) PROVE faults <= faults' /\ faults \in Nat /\ faults' \in Nat
<1>1. faults \in Nat /\ faults' \in Nat
  BY OtherTypes DEF Types, GeneratorTypeOK
<1>2. faults' = faults \/ faults' = faults + 1
  BY StepKinds, ErrsIs, TakesDisk, OpenIs, WriteIs, BeginIs
  DEF Begins, Moves, MakeRoot, NextTable, MakeParents, StatAbsent, NoConflict,
      Ends, AllTables, Killed, RemoveRoot, Conflict, Fails
<1> QED
  BY <1>1, <1>2

\* Fewer files, no fewer faults.
LEMMA FewerFiles ==
  ASSUME NEW S, NEW T, T \subseteq S, IsFiniteSet(S), NEW m \in Nat, NEW n \in Nat, m <= n,
         Cardinality(S) <= m
  PROVE  IsFiniteSet(T) /\ Cardinality(T) <= n
<1>1. IsFiniteSet(T) /\ Cardinality(T) <= Cardinality(S)
  BY FS_Subset
<1>2. Cardinality(T) \in Nat /\ Cardinality(S) \in Nat
  BY <1>1, FS_CardinalityType
<1> QED
  BY <1>1, <1>2

\* One more file, one more fault.
LEMMA OneMoreFile ==
  ASSUME NEW S, NEW T, NEW e, T \subseteq S \union {e}, IsFiniteSet(S), NEW m \in Nat,
         Cardinality(S) <= m
  PROVE  IsFiniteSet(T) /\ Cardinality(T) <= m + 1
<1>0. Cardinality(S) \in Nat
  BY FS_CardinalityType
<1>1. IsFiniteSet(S \union {e}) /\ Cardinality(S \union {e}) <= Cardinality(S) + 1
  <2>1. /\ IsFiniteSet(S \union {e})
        /\ Cardinality(S \union {e}) = IF e \in S THEN Cardinality(S) ELSE Cardinality(S) + 1
    BY FS_AddElement
  <2> QED
    BY <1>0, <2>1
<1>2. IsFiniteSet(T) /\ Cardinality(T) <= Cardinality(S \union {e})
  BY <1>1, FS_Subset
<1>3. Cardinality(T) \in Nat /\ Cardinality(S) \in Nat /\ Cardinality(S \union {e}) \in Nat
  BY <1>1, <1>2, FS_CardinalityType
<1> QED
  BY <1>1, <1>2, <1>3

LEMMA OthersCleanable ==
  ASSUME Types, NEW p \in Commands, Step(p), NEW q \in Commands, q # p, Cleanable(q)
  PROVE  Cleanable(q)'
<1>1. SameBut(q) /\ call' = call
  BY Frame DEF Types
<1>2. Made(q)' \subseteq Made(q) /\ Missed(q)' \subseteq Missed(q)
  BY <1>1, MadeStep DEF Missed, SameBut
<1>3. faults <= faults' /\ faults \in Nat /\ faults' \in Nat
  BY FaultsGrow
<1> DEFINE M == Made(q)'
           N == Missed(q)'
<1>4. IsFiniteSet(Made(q)) /\ Cardinality(Made(q)) <= faults => IsFiniteSet(M) /\ Cardinality(M) <= faults'
  BY <1>2, <1>3, FewerFiles
<1>5. IsFiniteSet(Missed(q)) /\ Cardinality(Missed(q)) <= faults => IsFiniteSet(N) /\ Cardinality(N) <= faults'
  BY <1>2, <1>3, FewerFiles
<1>6. M = Made(q)' /\ N = Missed(q)'
  OBVIOUS
<1> HIDE DEF M, N
<1>7. Creates(q)' = Creates(q)
  BY <1>1 DEF Creates
<1> QED
  BY <1>1, <1>2, <1>4, <1>5, <1>6, <1>7 DEF Cleanable, SameBut

LEMMA CleanableStays ==
  ASSUME Types, NEW p \in Commands, Step(p), Cleanable(p)
  PROVE  Cleanable(p)'
<1>1. call' = call /\ Creates(p)' = Creates(p) /\ Shape(p) /\ call[p] \in Calls /\ run[p] \in Local
  BY Frame DEF Types, GeneratorTypeOK, Creates
<1>2. faults <= faults' /\ faults \in Nat /\ faults' \in Nat
  BY FaultsGrow
<1>3. IsFiniteSet({}) /\ Cardinality({}) <= faults /\ Cardinality({}) <= faults'
  <2>1. IsFiniteSet({}) /\ Cardinality({}) = 0
    BY FS_EmptySet
  <2> QED
    BY <1>2, <2>1
<1> SUFFICES ASSUME Creates(p) PROVE Cleanable(p)'
  BY <1>1 DEF Cleanable
<1> USE DEF Cleanable
<1>4. CASE Begins(p)
  <2>1. Made(p)' = {} /\ run'[p].pc \in {"check", "over"} /\ run'[p].outcome # "failed"
    <3>1. Made(p)' \subseteq Made(p) /\ run[p].pc = "idle" /\ Shape(p)'
      BY <1>1, <1>4, MadeStep, BeginIs DEF Begins, Open
    <3> QED
      BY <1>1, <1>4, <3>1, BeginIs DEF Begins, Creates, Makes, Shape
  <2> QED
    BY <2>1
<1>5. CASE Moves(p)
  <2>1. run[p].pc # "open"
    BY <1>5, MoveIs DEF Moves
  <2>2. Made(p)' \subseteq Made(p) /\ Missed(p)' \subseteq Missed(p)
    BY <1>5, <2>1, MadeStep, MoveIs DEF Missed, Moves, Open
  <2>3. run[p].pc # "table"
    BY <1>1 DEF Shape, Creates, Makes
  <2> QED
    BY <1>5, <2>2, <2>3, MoveIs DEF Moves, Missed
<1>6. CASE \E f \in Paths : NoConflict(p, f)
  <2>1. Made(p)' \subseteq Made(p)
    BY <1>6, MadeStep DEF NoConflict, Open
  <2> QED
    BY <1>6, <2>1, CheckIs
<1>7. CASE Ends(p)
  <2>1. disk' = disk /\ run'[p].written = run[p].written
    BY <1>7, EndsIs
  <2>2. Made(p)' = Made(p)
    BY <2>1 DEF Made, There
  <2>3. CASE run[p].pc \in {"check", "mkroot"}
    <3>1. Made(p)' = {}
      BY <2>2, <2>3
    <3>2. IsFiniteSet(Made(p)') /\ Cardinality(Made(p)') <= faults'
      BY <1>3, <3>1
    <3> QED
      BY <1>7, <2>3, <3>2, EndsIs
  <2>4. CASE run[p].pc = "rollback" /\ run[p].written = <<>>
    <3>1. Missed(p) = Made(p)
      BY <2>4, EmptySequence DEF Missed
    <3>2. IsFiniteSet(Made(p)) /\ Cardinality(Made(p)) <= faults
      BY <2>4, <3>1
    <3>3. IsFiniteSet(Made(p)) /\ Cardinality(Made(p)) <= faults'
      BY <1>2, <3>2, FewerFiles
    <3> QED
      BY <1>7, <2>2, <3>3, EndsIs
  <2>5. CASE run'[p].outcome \in {"ok", "killed"}
    BY <1>7, <2>5, EndsIs
  <2> QED
    BY <1>7, <2>3, <2>4, <2>5, EndsIs
<1>8. CASE Errs(p)
  <2>1. run'[p].pc = "rollback" /\ run'[p].outcome = "none" /\ run'[p].written = run[p].written
        /\ disk' = disk /\ run[p].pc \in {"stat", "mkdir", "open", "write"}
        /\ (run[p].pc = "write" => faults' = faults + 1)
    BY <1>1, <1>8, ErrsIs, FailingIs DEF Shape, Creates, Makes
  <2>2. Missed(p)' = Missed(p)
    BY <2>1 DEF Missed, Made, There
  <2>3. CASE run[p].pc = "write"
    <3>1. Missed(p) \subseteq {} \union {run[p].target}
      BY <2>3
    <3> DEFINE M == Missed(p)
    <3> HIDE DEF M
    <3>2. M \subseteq {} \union {run[p].target}
      BY <3>1 DEF M
    <3>3. IsFiniteSet(M) /\ Cardinality(M) <= faults + 1
      BY <1>2, <1>3, <3>2, OneMoreFile
    <3> QED
      BY <2>1, <2>2, <2>3, <3>3 DEF M
  <2>4. CASE run[p].pc # "write"
    <3>1. Missed(p)' = {}
      BY <2>1, <2>2, <2>4
    <3>2. IsFiniteSet(Missed(p)') /\ Cardinality(Missed(p)') <= faults'
      BY <1>3, <3>1
    <3> QED
      BY <2>1, <3>2
  <2> QED
    BY <2>3, <2>4
<1>9. CASE Takes(p)
  <2> DEFINE g == Last(run[p].written)
  <2>1. /\ run[p].pc = "rollback" /\ run'[p].pc = "rollback" /\ run'[p].outcome = "none"
        /\ ToSet(run[p].written) = ToSet(run'[p].written) \union {g} /\ g \in Project
    BY <1>9, TakesIs
  <2>2. IsFiniteSet(Missed(p)) /\ Cardinality(Missed(p)) <= faults
    BY <2>1
  <2>3. CASE disk' = [disk EXCEPT ![g] = Nothing]
    <3>1. g \in Paths
      BY <2>1 DEF Paths
    <3>2. Made(p)' \subseteq Made(p) \ {g}
      BY <2>3, <3>1 DEF Made, There, Types, GeneratorTypeOK
    <3>3. Missed(p)' \subseteq Missed(p)
      BY <2>1, <3>2 DEF Missed
    <3> DEFINE N == Missed(p)'
    <3>4. IsFiniteSet(N) /\ Cardinality(N) <= faults'
      BY <1>2, <2>2, <3>3, FewerFiles
    <3> QED
      BY <2>1, <3>4
  <2>4. CASE disk' = disk /\ faults' = faults + 1
    <3>1. Missed(p)' \subseteq Missed(p) \union {g}
      BY <2>1, <2>4 DEF Missed, Made, There
    <3> DEFINE M == Missed(p)
               N == Missed(p)'
    <3>2. N \subseteq M \union {g} /\ IsFiniteSet(M) /\ Cardinality(M) <= faults
      BY <2>2, <3>1
    <3> HIDE DEF M, N
    <3>3. IsFiniteSet(N) /\ Cardinality(N) <= faults + 1
      BY <1>2, <3>2, OneMoreFile
    <3> QED
      BY <2>1, <2>4, <3>3 DEF N
  <2> QED
    BY <1>9, <2>3, <2>4, TakesDisk
<1>10. CASE Open(p)
  <2>1. Missed(p)' \subseteq Missed(p) \union {run[p].target}
    BY <1>10, MadeStep, OpenIs DEF Missed
  <2> QED
    BY <1>10, <2>1, OpenIs
<1>11. CASE Write(p)
  <2>1. Made(p)' \subseteq Made(p) /\ run[p].pc = "write"
    BY <1>11, MadeStep, WriteIs DEF Open
  <2>2. CASE run'[p].outcome = "created" /\ run'[p].pc = "over"
    BY <2>2
  <2>3. CASE run'[p].pc = "stat" /\ run'[p].outcome = "none"
             /\ run'[p].written = Append(run[p].written, run[p].target)
    <3>1. run[p].target \in Project /\ run[p].written \in Seq(Project)
      BY <1>1, <2>1 DEF Shape, Local
    <3>2. ToSet(run'[p].written) = ToSet(run[p].written) \union {run[p].target}
      BY <2>3, <3>1, AppendToIt
    <3>3. Missed(p)' = {}
      BY <2>1, <3>2 DEF Missed
    <3> QED
      BY <2>3, <3>3
  <2> QED
    BY <1>11, <2>2, <2>3, WriteIs, SucceedingIs
<1> QED
  BY <1>4, <1>5, <1>6, <1>7, <1>8, <1>9, <1>10, <1>11, StepKinds

-----------------------------------------------------------------------------
\* CreatedIsComplete.

\* Only init and demo write files of the project, openapi's output aside.
LEMMA ProjectWriters ==
  ASSUME Types, NEW p \in Commands, run[p].pc \in {"mkdir", "open", "write"},
         run[p].target \in Project \ {Output}
  PROVE  Creates(p) /\ run[p].target \in run[p].todo
<1>1. Shape(p) /\ (More(p) => FileOf(call[p], Table(p)) \notin Project)
  BY TablePath DEF Types
<1> QED
  BY <1>1 DEF Shape

LEMMA BadStays ==
  ASSUME Types, NEW p \in Commands, Step(p), NEW q \in Commands, Bad(q)
  PROVE  Bad(q)'
<1>1. CASE q # p
  BY <1>1, Frame DEF Bad, SameBut, Types
<1>2. CASE q = p
  <2>1. Shape(p)
    BY DEF Types
  <2>2. run[p].pc = "rollback" /\ ~Begins(p)
    BY <1>2, <2>1, UnderWay, BeginIs DEF Bad, Running, Shape, Begins
  <2>3. Ends(p) \/ Takes(p)
    BY <2>2, StepKinds, MoveIs, ErrsIs, OpenIs, WriteIs, CheckIs DEF Moves
  <2> QED
    BY <1>2, <2>2, <2>3, EndsIs, TakesIs DEF Bad
<1> QED
  BY <1>1, <1>2

LEMMA SpoiledStays ==
  ASSUME Types, NEW p \in Commands, Step(p), NEW q \in Commands, Spoiled(q), ~(Begins(p) /\ q = p)
  PROVE  Spoiled(q)'
<1>1. PICK o \in during[q] : Creates(o) /\ Bad(o)
  BY DEF Spoiled
<1>2. o \in Commands /\ during[q] \subseteq during'[q] /\ call' = call
  BY Frame, UnderWay DEF Types, GeneratorTypeOK
<1>3. Bad(o)' /\ Creates(o)'
  BY <1>1, <1>2, BadStays DEF Creates
<1> QED
  BY <1>1, <1>2, <1>3 DEF Spoiled

LEMMA PartialStays ==
  ASSUME Types, NEW p \in Commands, Step(p), Partial
  PROVE  Partial'
<1> SUFFICES ASSUME NEW f \in Project \ {Output}, disk'[f] # Nothing, ~disk'[f].whole
             PROVE  \E q \in Commands : q = disk'[f].by /\ LeftBy(f, q)'
  BY DEF Partial
<1>1. f \in Paths /\ call' = call /\ \A q \in Commands : Creates(q)' = Creates(q)
  BY Frame DEF Paths, Types, Creates
<1>2. CASE disk'[f] = disk[f]
  <2>1. PICK q \in Commands : q = disk[f].by /\ LeftBy(f, q)
    BY <1>2 DEF Partial
  <2>2. CASE Bad(q)
    BY <1>1, <1>2, <2>1, <2>2, BadStays DEF LeftBy
  <2>3. CASE q # p /\ run[q].pc = "write" /\ run[q].target = f /\ run[q].handle = disk[f].made
    BY <1>1, <1>2, <2>1, <2>3, Frame DEF LeftBy, SameBut, Types
  <2>4. CASE q = p /\ run[q].pc = "write" /\ run[q].target = f /\ run[q].handle = disk[f].made
    <3>1. ~Write(p)
      BY <1>1, <1>2, <2>4, WriteIs
    <3>2. Ends(p) \/ Errs(p)
      BY <2>4, <3>1, StepKinds, BeginIs, MoveIs, TakesIs, OpenIs, CheckIs DEF Begins, Moves
    <3>3. Bad(p)'
      <4>1. CASE Ends(p)
        BY <2>4, <4>1, EndsIs DEF Bad
      <4>2. CASE Errs(p)
        BY <2>1, <2>4, <4>2, ErrsIs, FailingIs DEF Bad, LeftBy
      <4> QED
        BY <3>2, <4>1, <4>2
    <3> QED
      BY <1>1, <1>2, <2>1, <2>4, <3>3 DEF LeftBy
  <2> QED
    BY <2>1, <2>2, <2>3, <2>4 DEF LeftBy
<1>3. CASE disk'[f] # disk[f]
  <2>1. run[p].pc \in {"open", "write"} /\ run[p].target = f /\ disk'[f].by = p
    BY <1>1, <1>3, DiskStep
  <2>2. Creates(p)
    BY <2>1, ProjectWriters
  <2>3. CASE Open(p)
    <3> DEFINE made == IF disk[run[p].target] = Nothing THEN p ELSE disk[run[p].target].made
    <3>4. /\ run'[p].pc = "write" /\ run'[p].target = run[p].target /\ run'[p].handle = made
          /\ disk' = [disk EXCEPT ![run[p].target] =
               [made |-> made, by |-> p, of |-> <<>>, whole |-> FALSE]]
      BY <2>3, OpenIs
    <3> HIDE DEF made
    <3>1. /\ run'[p].pc = "write" /\ run'[p].target = run[p].target
          /\ disk' = [disk EXCEPT ![run[p].target] =
               [made |-> run'[p].handle, by |-> p, of |-> <<>>, whole |-> FALSE]]
      BY <3>4
    <3>2. disk'[f] = [made |-> run'[p].handle, by |-> p, of |-> <<>>, whole |-> FALSE]
      BY <1>1, <2>1, <3>1 DEF Types, GeneratorTypeOK
    <3>3. disk'[f].made = run'[p].handle
      BY <3>2
    <3> QED
      BY <1>1, <2>1, <2>2, <3>1, <3>3 DEF LeftBy
  <2>4. CASE Write(p)
    BY <1>3, <2>1, <2>4, WriteIs
  <2>5. Open(p) \/ Write(p)
    BY <1>1, <1>3, StepKinds, BeginIs, MoveIs, EndsIs, ErrsIs, TakesIs, CheckIs, <2>1
    DEF Begins, Moves, NoConflict
  <2> QED
    BY <2>3, <2>4, <2>5
<1> QED
  BY <1>2, <1>3

\* What an init that goes well knows of another that has passed its check.
LEMMA RivalsKnown ==
  ASSUME Types, Companions, NEW p \in Commands, NEW q \in Commands, p # q, Creating(q), ~Spoiled(q),
         Past(q) \/ run[q].pc = "check",
         Creates(p), run[p].pc \notin {"idle", "check", "over"}
  PROVE  p \in during[q] /\ ~Bad(p)
<1>1. Running(p)
  BY DEF Running
<1>2. p \in during[q]
  <2>1. CASE Running(q)
    BY <1>1, <2>1 DEF Companions
  <2>2. CASE ~Running(q)
    <3>1. run[q].outcome = "created"
      BY <2>2 DEF Running, Past
    <3> QED
      BY <3>1 DEF Creating
  <2> QED
    BY <2>1, <2>2
<1> QED
  BY <1>2 DEF Spoiled

\* No file disappears while an init goes well.
LEMMA NothingRemoved ==
  ASSUME Types, Companions, NEW p \in Commands, NEW q \in Commands, p # q, Creating(q), ~Spoiled(q),
         Past(q) \/ run[q].pc = "check",
         Step(p), NEW f \in Paths, disk[f] # Nothing
  PROVE  disk'[f] # Nothing
<1>1. run[p].pc = "rollback" => FALSE
  <2> SUFFICES ASSUME run[p].pc = "rollback" PROVE FALSE
    OBVIOUS
  <2>1. Creates(p) /\ Bad(p)
    BY DEF Types, Shape, Bad
  <2> QED
    BY <2>1, RivalsKnown
<1> QED
  BY <1>1, DiskStep

\* Who writes a file of the project while an init goes well is known to it.
LEMMA WritersKnown ==
  ASSUME Types, Companions, NEW p \in Commands, NEW q \in Commands, p # q, Creating(q), ~Spoiled(q),
         Past(q) \/ run[q].pc = "check",
         Step(p), NEW f \in Project \ {Output}, disk'[f] # disk[f], disk'[f] # Nothing
  PROVE  disk'[f].by = p /\ p \in during[q]
<1>1. f \in Paths
  BY DEF Paths
<1>2. run[p].pc \in {"open", "write"} /\ run[p].target = f /\ disk'[f].by = p
  BY <1>1, DiskStep
<1>3. Creates(p)
  BY <1>2, ProjectWriters
<1> QED
  BY <1>2, <1>3, RivalsKnown

LEMMA OthersCreating ==
  ASSUME Types, Companions, NEW p \in Commands, Step(p), NEW q \in Commands, q # p, Creating(q)
  PROVE  Creating(q)'
<1>1. SameBut(q) /\ call' = call /\ during[q] \subseteq during'[q]
  BY Frame DEF Types
<1>2. /\ Past(q)' = Past(q) /\ Cleared(q)' = Cleared(q) /\ Opened(q)' = Opened(q)
      /\ \A o \in Commands : Creates(o)' = Creates(o)
  BY <1>1 DEF SameBut, Past, Cleared, Opened, Creates
<1> SUFFICES ASSUME ~Spoiled(q)' PROVE Creating(q)'
  BY DEF Creating
<1>3. ~Spoiled(q)
  BY SpoiledStays
<1>4. run[q] \in Local /\ Project \subseteq Paths
  BY DEF Types, GeneratorTypeOK, Paths
<1>5. Past(q)' => \A f \in Opened(q)' : disk'[f] # Nothing
  <2> SUFFICES ASSUME Past(q), NEW f \in Opened(q), f \in Paths PROVE disk'[f] # Nothing
    <3>1. Past(q) => Opened(q) \subseteq Paths
      BY <1>4 DEF Types, Shape, Opened
    <3> QED
      BY <1>2, <3>1
  <2>1. disk[f] # Nothing
    BY <1>3 DEF Creating
  <2> QED
    BY <1>3, <2>1, NothingRemoved
<1>6. \A f \in Cleared(q)' \ {Output} : disk'[f] # Nothing => disk'[f].by \in during'[q] \union {q}
  <2> SUFFICES ASSUME NEW f \in Cleared(q) \ {Output}, disk'[f] # Nothing
               PROVE  disk'[f].by \in during'[q] \union {q}
    BY <1>2
  <2>1. f \in Project /\ (Past(q) \/ run[q].pc = "check")
    BY <1>4 DEF Cleared
  <2>2. CASE disk'[f] = disk[f]
    BY <1>1, <1>3, <2>2 DEF Creating
  <2>3. CASE disk'[f] # disk[f]
    BY <1>1, <1>3, <2>1, <2>3, WritersKnown
  <2> QED
    BY <2>2, <2>3
<1>7. run'[q].outcome = "created" =>
        \A o \in Commands \ (during'[q] \union {q}) :
          Creates(o)' => run'[o].pc \in {"idle", "check", "over"}
  <2> SUFFICES ASSUME run[q].outcome = "created", NEW o \in Commands \ (during'[q] \union {q}), Creates(o)
               PROVE  run'[o].pc \in {"idle", "check", "over"}
    BY <1>1, <1>2 DEF SameBut
  <2>1. run[o].pc \in {"idle", "check", "over"}
    BY <1>1, <1>3 DEF Creating
  <2>2. CASE o # p
    BY <2>1, <2>2, Frame DEF SameBut, Types
  <2>3. CASE o = p
    <3>1. CASE Begins(p)
      BY <2>3, <3>1, BeginIs DEF Begins, Creates, Makes
    <3>2. CASE Ends(p)
      BY <2>3, <3>2, EndsIs
    <3>3. ~\E f \in Paths : NoConflict(p, f)
      <4> SUFFICES ASSUME NEW f \in Paths, NoConflict(p, f) PROVE FALSE
        OBVIOUS
      <4>1. f \in Project /\ disk[f] = Nothing
        BY CheckIs DEF Types, GeneratorTypeOK, Local
      <4>2. Past(q) /\ f \in Opened(q)
        BY <4>1 DEF Past, Opened, Types, Shape
      <4> QED
        BY <1>3, <4>1, <4>2 DEF Creating
    <3> QED
      BY <2>1, <2>3, <3>1, <3>2, <3>3, StepKinds, UnderWay, MoveIs, ErrsIs, TakesIs, OpenIs, WriteIs
      DEF Running, Moves
  <2> QED
    BY <2>2, <2>3
<1> QED
  BY <1>5, <1>6, <1>7 DEF Creating

\* What the step of an init makes of what it has found absent and has opened.
LEMMA OwnProgress ==
  ASSUME Types, NEW p \in Commands, Step(p), ~Begins(p), Past(p)' \/ run'[p].pc = "check"
  PROVE  /\ \A f \in Cleared(p)' : f \in Cleared(p) \/ (disk[f] = Nothing /\ NoConflict(p, f))
         /\ Past(p)' => \A f \in Opened(p)' :
                          (Past(p) /\ f \in Opened(p)) \/ (Open(p) /\ f = run[p].target)
         /\ run[p].pc # "rollback" /\ run[p].outcome = "none"
<1>1. /\ call' = call /\ Shape(p) /\ Shape(p)' /\ run[p] \in Local /\ call[p] \in Calls /\ Running(p)
      /\ Creates(p)' = Creates(p)
  BY Frame, GeneratorStepTypes, UnderWay DEF Types, GeneratorTypeOK, Creates
<1>2. Creates(p) /\ run[p].outcome = "none" /\ run[p].pc \notin {"idle", "over", "table"}
  BY <1>1 DEF Past, Shape, Running, Creates, Makes
<1>3. CASE Moves(p)
  <2>1. Past(p) /\ run'[p].pc # "write" /\ run[p].pc # "write" /\ run'[p].todo = run[p].todo
    BY <1>2, <1>3, MoveIs DEF Moves, Past
  <2>2. run[p].pc # "check" /\ run'[p].pc # "check"
    BY <1>3, MoveIs DEF Moves
  <2> QED
    BY <1>2, <2>1, <2>2 DEF Cleared, Opened, Past
<1>4. CASE Ends(p) \/ Errs(p) \/ Takes(p)
  <2>1. /\ run'[p].pc \in {"over", "rollback"}
        /\ run'[p].outcome # "created"
    BY <1>1, <1>2, <1>4, EndsIs, ErrsIs, FailingIs, TakesIs
  <2> QED
    BY <2>1 DEF Past
<1>5. CASE \E f \in Paths : NoConflict(p, f)
  <2>1. PICK f \in Paths : NoConflict(p, f)
    BY <1>5
  <2>2. /\ run[p].pc = "check" /\ f \in run[p].todo /\ disk[f] = Nothing
        /\ \/ run'[p].pc = "check" /\ run'[p].todo = run[p].todo \ {f}
           \/ run'[p].pc = "mkroot" /\ run[p].todo = {f} /\ run'[p].todo = Project
        /\ run'[p].outcome = "none"
    BY <2>1, CheckIs
  <2>3. Cleared(p) = Project \ run[p].todo
    BY <1>2, <2>2 DEF Cleared, Past
  <2>4. CASE run'[p].pc = "check" /\ run'[p].todo = run[p].todo \ {f}
    <3>1. Cleared(p)' = Project \ run'[p].todo /\ ~Past(p)'
      BY <2>2, <2>4 DEF Cleared, Past
    <3> QED
      BY <1>2, <2>1, <2>2, <2>3, <2>4, <3>1
  <2>5. CASE run'[p].pc = "mkroot" /\ run[p].todo = {f} /\ run'[p].todo = Project
    <3>1. Cleared(p)' = Project /\ Opened(p)' = {}
      BY <1>1, <1>2, <2>2, <2>5 DEF Cleared, Past, Opened
    <3> QED
      BY <1>2, <2>1, <2>2, <2>3, <2>5, <3>1
  <2> QED
    BY <2>2, <2>4, <2>5
<1>6. CASE Open(p)
  <2>1. run[p].pc = "open" /\ run'[p].pc = "write" /\ run'[p].todo = run[p].todo
        /\ run'[p].target = run[p].target
    BY <1>6, OpenIs
  <2> QED
    BY <1>2, <1>6, <2>1 DEF Cleared, Opened, Past
<1>7. CASE Write(p)
  <2>1. run[p].pc = "write" /\ run'[p].pc \in {"stat", "over"} /\ run'[p].todo = run[p].todo \ {run[p].target}
    BY <1>2, <1>7, WriteIs, SucceedingIs
  <2> QED
    BY <1>2, <2>1 DEF Cleared, Opened, Past
<1> QED
  BY <1>3, <1>4, <1>5, <1>6, <1>7, StepKinds

LEMMA CreatingStays ==
  ASSUME Types, Companions, NEW p \in Commands, Step(p), Creating(p)
  PROVE  Creating(p)'
<1> SUFFICES ASSUME ~Spoiled(p)' PROVE Creating(p)'
  BY DEF Creating
<1>1. /\ Shape(p) /\ Shape(p)' /\ Project \subseteq Paths /\ run' \in [Commands -> Local]
  BY GeneratorStepTypes DEF Types, GeneratorTypeOK, Paths
<1>2. CASE Begins(p)
  <2>1. ~Past(p)' /\ Cleared(p)' = {}
    <3>1. /\ Creates(p)' = Creates(p) /\ run'[p].outcome # "created"
          /\ run'[p].pc \in {"check", "over", "table"} \/ ~Creates(p)
          /\ run'[p].pc = "check" => run'[p].todo = Project
      BY <1>1, <1>2, BeginIs DEF Begins, Shape, Creates
    <3> QED
      BY <3>1 DEF Past, Cleared
  <2>2. run'[p].outcome # "created"
    BY <2>1 DEF Past
  <2> QED
    BY <2>1, <2>2 DEF Creating
<1>3. CASE ~Begins(p)
  <2>1. ~Spoiled(p) /\ during' = during /\ Running(p)
    BY <1>3, SpoiledStays, UnderWay
  <2>2. Past(p)' => \A f \in Opened(p)' : disk'[f] # Nothing
    <3> SUFFICES ASSUME Past(p)', NEW f \in Opened(p)' PROVE disk'[f] # Nothing
      OBVIOUS
    <3>1. (Past(p) /\ f \in Opened(p)) \/ (Open(p) /\ f = run[p].target)
      BY <1>3, OwnProgress
    <3>2. f \in Paths
      <4>1. run'[p].pc = "write" => run'[p].target \in Paths
        BY <1>1 DEF Shape
      <4> QED
        BY <1>1, <4>1 DEF Opened
    <3>3. CASE Past(p) /\ f \in Opened(p)
      <4>1. disk[f] # Nothing
        BY <2>1, <3>3 DEF Creating
      <4> QED
        BY <1>3, <3>2, <4>1, OwnProgress, DiskStep
    <3>4. CASE Open(p) /\ f = run[p].target
      <4>1. f \in There'
        <5> DEFINE content == [made |-> IF disk[f] = Nothing THEN p ELSE disk[f].made, by |-> p,
                            of |-> <<>>, whole |-> FALSE]
        <5>1. disk' = [disk EXCEPT ![f] = content]
          BY <3>4, OpenIs
        <5>2. disk'[f] = content
          BY <3>2, <5>1 DEF Types, GeneratorTypeOK
        <5>3. disk'[f].by = p
          BY <5>2
        <5>4. content \in File
          <6>1. disk[f] # Nothing => disk[f] \in File
            BY <3>2 DEF Types, GeneratorTypeOK
          <6> QED
            BY <6>1 DEF File
        <5> QED
          BY <3>2, <5>2, <5>4 DEF There
      <4> QED
        BY <4>1 DEF There
    <3> QED
      BY <3>1, <3>3, <3>4
  <2>3. \A f \in Cleared(p)' \ {Output} : disk'[f] # Nothing => disk'[f].by \in during'[p] \union {p}
    <3> SUFFICES ASSUME NEW f \in Cleared(p)', f # Output, disk'[f] # Nothing
                 PROVE  disk'[f].by \in during'[p] \union {p}
      OBVIOUS
    <3>1. Past(p)' \/ run'[p].pc = "check"
      BY DEF Cleared
    <3>2. f \in Paths
      BY <1>1 DEF Cleared
    <3>3. f \in Cleared(p) \/ (disk[f] = Nothing /\ NoConflict(p, f))
      BY <1>3, <3>1, OwnProgress
    <3>4. CASE disk'[f] = disk[f]
      BY <2>1, <3>3, <3>4 DEF Creating
    <3>5. CASE disk'[f] # disk[f]
      BY <3>2, <3>5, DiskStep
    <3> QED
      BY <3>4, <3>5
  <2>4. \A o \in Commands \ (during'[p] \union {p}) : run'[o].pc \in {"idle", "over"}
    <3> SUFFICES ASSUME NEW o \in Commands, o \notin during[p], o # p
                 PROVE  run[o].pc \in {"idle", "over"} /\ run'[o].pc = run[o].pc
      BY <2>1
    <3>1. ~Running(o)
      BY <2>1 DEF Companions
    <3> QED
      BY <3>1, Frame DEF Running, SameBut, Types
  <2> QED
    BY <2>2, <2>3, <2>4 DEF Creating
<1> QED
  BY <1>2, <1>3

-----------------------------------------------------------------------------
\* ReportIsTrue.

\* The places of tables are in the directory of resources, none of the project's.
LEMMA PlacesApart ==
  ASSUME Types, NEW q \in Commands, Reporting(q), call[q].cmd = "schema", Running(q), Alone(q),
         NEW k \in run[q].reported
  PROVE  /\ k \in Nat /\ k < run[q].at /\ k \in DOMAIN call[q].names
         /\ Place(q, k) \in Paths \ Project /\ call[q].names[k] \in Seq(Words)
<1>1. call[q] \in Calls /\ call[q].names \in Seq(Seq(Words)) /\ run[q].at \in Nat \ {0}
  BY DEF Types, GeneratorTypeOK, Local
<1>2. k \in 1 .. run[q].at - 1 /\ run[q].at <= Len(call[q].names) + 1
  BY DEF Reporting
<1>3. k \in DOMAIN call[q].names
  BY <1>1, <1>2
<1>4. call[q].names[k] \in ToSet(call[q].names) /\ call[q].names[k] \in Seq(Words)
  BY <1>1, <1>3 DEF ToSet
<1> QED
  BY <1>1, <1>2, <1>3, <1>4 DEF Place, Paths

LEMMA OthersReporting ==
  ASSUME Types, Companions, NEW p \in Commands, Step(p), NEW q \in Commands, q # p, Reporting(q)
  PROVE  Reporting(q)'
<1>1. SameBut(q) /\ call' = call /\ during[q] \subseteq during'[q]
  BY Frame DEF Types
<1> SUFFICES ASSUME call[q].cmd = "schema", Running(q)', Alone(q)' PROVE Reporting(q)'
  BY <1>1 DEF Reporting
<1>2. Running(q) /\ Alone(q)
  BY <1>1 DEF Running, Alone, Makes, SameBut
<1>3. \A f \in Paths \ (Project \union {Output}) : disk'[f] = disk[f]
  <2>1. CASE Begins(p)
    BY <2>1, BeginIs DEF Begins
  <2>2. CASE ~Begins(p)
    <3>1. Running(p) /\ p \in during[q]
      BY <1>2, <2>2, UnderWay DEF Companions
    <3>2. ~Makes(p)
      BY <1>2, <3>1 DEF Alone
    <3>3. run[p].pc \in {"open", "write"} => run[p].target \in Project \union {Output}
      <4>1. Shape(p) /\ run[p] \in Local
        BY DEF Types, GeneratorTypeOK
      <4> QED
        BY <3>2, <4>1 DEF Shape, Local
    <3> QED
      BY <3>3, DiskStep
  <2> QED
    BY <2>1, <2>2
<1>4. /\ Come(q)' = Come(q) /\ \A k : Place(q, k)' = Place(q, k)
      /\ Lost(q) => Lost(q)'
  BY <1>1 DEF SameBut, Come, Place, FileOf, Lost, Creates
<1>5. run[q].pc \in {"mkdir", "open", "write"} => run[q].target \in Paths \ Project
  <2>1. Makes(q) /\ Shape(q)
    BY DEF Makes, Types
  <2> QED
    BY <2>1, TablePath DEF Shape, Types
<1>6. \A k \in run[q].reported : Place(q, k) \in Paths \ Project
  BY <1>2, PlacesApart
<1>7. /\ run[q].reported \subseteq 1 .. run[q].at - 1 /\ run[q].at <= Len(call[q].names) + 1
      /\ run[q].target # Output =>
           /\ run[q].pc \in {"mkdir", "open"} =>
                disk[run[q].target] = Nothing \/ call[q].force \/ Lost(q)
           /\ run[q].pc = "write" =>
                /\ disk[run[q].target] # Nothing /\ disk[run[q].target].made = run[q].handle
                /\ ~disk[run[q].target].whole
      /\ \A k \in run[q].reported :
           /\ Place(q, k) # Output
           /\ call[q].force => \A j \in k + 1 .. Come(q) : Place(q, j) # Place(q, k)
           => LET content == disk[Place(q, k)]
              IN content # Nothing /\ content.whole /\ content.by = q /\ content.of = call[q].names[k]
  BY <1>2 DEF Reporting
<1>8. run'[q].target # Output =>
        /\ run'[q].pc \in {"mkdir", "open"} =>
             disk'[run'[q].target] = Nothing \/ call'[q].force \/ Lost(q)'
        /\ run'[q].pc = "write" =>
             /\ disk'[run'[q].target] # Nothing /\ disk'[run'[q].target].made = run'[q].handle
             /\ ~disk'[run'[q].target].whole
  BY <1>1, <1>3, <1>4, <1>5, <1>7 DEF SameBut
<1>9. \A k \in run'[q].reported :
           /\ Place(q, k)' # Output
           /\ call'[q].force => \A j \in k + 1 .. Come(q)' : Place(q, j)' # Place(q, k)'
           => LET content == disk'[Place(q, k)']
              IN content # Nothing /\ content.whole /\ content.by = q /\ content.of = call'[q].names[k]
  BY <1>1, <1>3, <1>4, <1>6, <1>7 DEF SameBut
<1> QED
  BY <1>1, <1>7, <1>8, <1>9 DEF Reporting, SameBut

\* What a table reported is, whatever comes later, unless something wrote its file.
Reported(p, k, come) ==
  /\ Place(p, k) # Output
  /\ call[p].force => \A j \in k + 1 .. come : Place(p, j) # Place(p, k)
  => LET content == disk[Place(p, k)]
     IN content # Nothing /\ content.whole /\ content.by = p /\ content.of = call[p].names[k]

LEMMA ReportingStays ==
  ASSUME Types, NEW p \in Commands, Step(p), Reporting(p)
  PROVE  Reporting(p)'
<1>2. call' = call /\ call[p] \in Calls /\ call[p].names \in Seq(Seq(Words))
  BY Frame DEF Types, GeneratorTypeOK
<1> SUFFICES ASSUME call[p].cmd = "schema", Running(p)', Alone(p)' PROVE Reporting(p)'
  BY <1>2 DEF Reporting
<1>3. Makes(p) /\ ~Creates(p) /\ Shape(p) /\ run[p].at \in Nat \ {0} /\ run[p] \in Local
  BY DEF Makes, Creates, Types, GeneratorTypeOK, Local
<1>4. CASE Begins(p)
  <2>1. run'[p].pc = "table" /\ run'[p].reported = {} /\ run'[p].at = 1
    BY <1>3, <1>4, BeginIs DEF Begins, Running
  <2> QED
    BY <1>2, <2>1 DEF Reporting
<1>5. CASE ~Begins(p)
  <2>1. Running(p) /\ Alone(p) /\ \A k : Place(p, k)' = Place(p, k)
    BY <1>2, <1>5, UnderWay DEF Alone, Makes, Place, FileOf
  <2>2. /\ run[p].reported \subseteq 1 .. run[p].at - 1 /\ run[p].at <= Len(call[p].names) + 1
        /\ run[p].target # Output =>
             /\ run[p].pc \in {"mkdir", "open"} =>
                  disk[run[p].target] = Nothing \/ call[p].force \/ Lost(p)
             /\ run[p].pc = "write" =>
                  /\ disk[run[p].target] # Nothing /\ disk[run[p].target].made = run[p].handle
                  /\ ~disk[run[p].target].whole
        /\ \A k \in run[p].reported : Reported(p, k, Come(p))
    BY <2>1 DEF Reporting, Reported
  <2>3. /\ run[p].pc \notin {"check", "mkroot", "rollback"}
        /\ run[p].pc \in {"stat", "mkdir", "open", "write"} => More(p) /\ run[p].target = Place(p, run[p].at)
    BY <1>3 DEF Shape, Place, Table
  <2>4. \A k \in run[p].reported : k \in Nat /\ k < run[p].at
    BY <1>3, <2>2
  <2>5. CASE Moves(p)
    <3>1. /\ disk' = disk /\ run'[p].at = run[p].at /\ run'[p].reported = run[p].reported
          /\ run'[p].cwd = run[p].cwd
          /\ \/ run[p].pc = "table" /\ run'[p].pc = "stat"
             \/ run[p].pc = "stat" /\ run'[p].pc = "mkdir" /\ run'[p].target \in Targets(p) /\ Absent(p, run'[p].target)
             \/ run[p].pc = "mkdir" /\ run'[p].pc = "open" /\ run'[p].target = run[p].target
      BY <2>3, <2>5, MoveIs DEF Moves
    <3>2. Lost(p)' = Lost(p)
      BY <1>2, <3>1 DEF Lost, Creates
    <3>3. Come(p)' = run[p].at /\ Come(p) \in {run[p].at, run[p].at - 1}
      BY <3>1 DEF Come
    <3>4. \A k \in run[p].reported : Reported(p, k, run[p].at)
      BY <1>3, <2>2, <2>4, <3>3 DEF Reported
    <3>5. \A k \in run'[p].reported : Reported(p, k, Come(p))'
      BY <1>2, <2>1, <3>1, <3>3, <3>4 DEF Reported
    <3>6. run'[p].pc \in {"mkdir", "open"} /\ run'[p].target # Output =>
            disk'[run'[p].target] = Nothing \/ call'[p].force \/ Lost(p)'
      BY <1>2, <2>2, <3>1, <3>2 DEF Absent
    <3> QED
      BY <1>2, <2>2, <3>1, <3>5, <3>6 DEF Reporting, Reported
  <2>6. CASE Errs(p)
    <3>1. /\ disk' = disk /\ run'[p].at = run[p].at + 1 /\ run'[p].reported = run[p].reported
          /\ run'[p].pc = "table"
      BY <2>6, ErrsIs, FailingIs
    <3>2. More(p)
      <4>1. run[p].pc = "table" => More(p)
        BY <2>6 DEF Errs, DirectoryGone, StatExists, Fails
      <4> QED
        BY <2>3, <2>6, <4>1, ErrsIs
    <3>3. Come(p)' = run[p].at /\ Come(p) \in {run[p].at, run[p].at - 1}
      BY <1>3, <3>1 DEF Come
    <3>4. \A k \in run[p].reported : Reported(p, k, run[p].at)
      BY <1>3, <2>2, <2>4, <3>3 DEF Reported
    <3>5. \A k \in run'[p].reported : Reported(p, k, Come(p))'
      BY <1>2, <2>1, <3>1, <3>3, <3>4 DEF Reported
    <3>6. run'[p].reported \subseteq 1 .. run'[p].at - 1 /\ run'[p].at <= Len(call'[p].names) + 1
      BY <1>2, <1>3, <2>2, <3>1, <3>2 DEF More
    <3> QED
      BY <3>1, <3>5, <3>6 DEF Reporting, Reported
  <2>7. CASE Open(p)
    <3> DEFINE g == run[p].target
               made == IF disk[g] = Nothing THEN p ELSE disk[g].made
               content == [made |-> made, by |-> p, of |-> <<>>, whole |-> FALSE]
    <3>1. /\ disk' = [disk EXCEPT ![g] = content] /\ run'[p].pc = "write" /\ run'[p].handle = made
          /\ run'[p].at = run[p].at /\ run'[p].reported = run[p].reported /\ run'[p].target = g
          /\ run[p].pc = "open" /\ ~Lost(p) /\ g \in Paths
      BY <2>7, OpenIs
    <3>2. disk[g] # Nothing => disk[g] \in File
      BY <3>1 DEF Types, GeneratorTypeOK
    <3>3. content \in File /\ content.made = made /\ ~content.whole
      BY <3>2 DEF File
    <3> HIDE DEF made, content
    <3>4. Come(p) = run[p].at /\ Come(p)' = run[p].at
      BY <3>1 DEF Come
    <3>5. g = Place(p, run[p].at)
      BY <2>3, <3>1
    <3> HIDE DEF g
    <3>6. \A h \in Paths : disk'[h] = IF h = g THEN content ELSE disk[h]
      BY <3>1 DEF Types, GeneratorTypeOK
    <3>7. \A k \in run'[p].reported : Reported(p, k, Come(p))'
      <4> SUFFICES ASSUME NEW k \in run[p].reported, Place(p, k) # Output,
                          call[p].force => \A j \in k + 1 .. run[p].at : Place(p, j) # Place(p, k)
                   PROVE  /\ disk'[Place(p, k)] = disk[Place(p, k)]
                          /\ LET w == disk[Place(p, k)]
                             IN w # Nothing /\ w.whole /\ w.by = p /\ w.of = call[p].names[k]
        BY <1>2, <2>1, <3>1, <3>4 DEF Reported
      <4>1. LET w == disk[Place(p, k)]
            IN w # Nothing /\ w.whole /\ w.by = p /\ w.of = call[p].names[k]
        BY <2>2, <3>4 DEF Reported
      <4>2. Place(p, k) \in Paths /\ k \in Nat /\ k < run[p].at
        BY <2>1, PlacesApart
      <4>3. Place(p, k) # g
        <5>1. CASE call[p].force
          <6>1. run[p].at \in k + 1 .. run[p].at
            BY <1>3, <4>2
          <6> QED
            BY <3>5, <5>1, <6>1
        <5>2. CASE ~call[p].force
          BY <2>2, <3>1, <4>1, <5>2 DEF g
        <5> QED
          BY <5>1, <5>2
      <4> QED
        BY <3>6, <4>1, <4>2, <4>3
    <3>8. disk'[g] # Nothing /\ disk'[g].made = made /\ ~disk'[g].whole
      BY <3>1, <3>3, <3>6
    <3> QED
      BY <1>2, <2>2, <3>1, <3>7, <3>8 DEF Reporting, Reported
  <2>8. CASE Write(p)
    <3> DEFINE g == run[p].target
    <3>1. /\ run[p].pc = "write" /\ g \in Paths /\ run'[p].pc = "table" /\ run'[p].at = run[p].at + 1
          /\ run'[p].reported = run[p].reported \union {run[p].at}
          /\ \A h \in Paths : h # g => disk'[h] = disk[h]
          /\ disk[g] # Nothing /\ disk[g].made = run[p].handle =>
               disk'[g] # Nothing /\ disk'[g].by = p /\ disk'[g].whole
               /\ disk'[g].of = IF More(p) THEN Table(p) ELSE <<>>
      BY <2>8, WriteIs, SucceedingIs
    <3>2. Come(p) = run[p].at /\ Come(p)' = run[p].at /\ More(p) /\ g = Place(p, run[p].at)
      BY <1>3, <2>3, <3>1 DEF Come
    <3>3. run'[p].reported \subseteq 1 .. run'[p].at - 1 /\ run'[p].at <= Len(call'[p].names) + 1
      BY <1>2, <1>3, <2>2, <3>1, <3>2 DEF More
    <3>4. \A k \in run'[p].reported : Reported(p, k, Come(p))'
      <4> SUFFICES ASSUME NEW k \in run'[p].reported, Place(p, k) # Output,
                          call[p].force => \A j \in k + 1 .. run[p].at : Place(p, j) # Place(p, k)
                   PROVE  LET w == disk'[Place(p, k)]
                          IN w # Nothing /\ w.whole /\ w.by = p /\ w.of = call[p].names[k]
        BY <1>2, <2>1, <3>2 DEF Reported
      <4>1. CASE k = run[p].at
        BY <2>2, <3>1, <3>2, <4>1 DEF Table
      <4>2. CASE k \in run[p].reported
        <5>1. LET w == disk[Place(p, k)]
              IN w # Nothing /\ w.whole /\ w.by = p /\ w.of = call[p].names[k]
          BY <2>2, <3>2, <4>2 DEF Reported
        <5>2. Place(p, k) \in Paths /\ k \in Nat /\ k < run[p].at
          BY <2>1, <4>2, PlacesApart
        <5>3. Place(p, k) # g
          <6>1. CASE call[p].force
            <7>1. run[p].at \in k + 1 .. run[p].at
              BY <1>3, <5>2
            <7> QED
              BY <3>2, <6>1, <7>1
          <6>2. CASE ~call[p].force
            BY <2>2, <3>1, <5>1, <6>2
          <6> QED
            BY <6>1, <6>2
        <5> QED
          BY <3>1, <5>1, <5>2, <5>3
      <4> QED
        BY <3>1, <4>1, <4>2
    <3> QED
      BY <3>1, <3>3, <3>4 DEF Reporting, Reported
  <2>9. ~Ends(p) /\ ~Takes(p) /\ ~\E f \in Paths : NoConflict(p, f)
    BY <2>3, EndsIs, TakesIs, CheckIs DEF Running
  <2> QED
    BY <1>5, <2>5, <2>6, <2>7, <2>8, <2>9, StepKinds
<1> QED
  BY <1>4, <1>5

-----------------------------------------------------------------------------
\* The whole.
LEMMA InitIInv == GeneratorInit => GeneratorIInv
<1> SUFFICES ASSUME GeneratorInit PROVE GeneratorIInv
  OBVIOUS
<1>1. Types
  BY InitTypes
<1>2. \A p \in Commands : /\ run[p].pc = "idle" /\ run[p].outcome = "none" /\ run[p].written = <<>>
                          /\ run[p].todo = {} /\ run[p].reported = {} /\ before[p] = {}
  BY DEF GeneratorInit
<1>3. \A f \in Paths : disk[f] # Nothing => disk[f].made = User /\ disk[f].whole
  BY DEF GeneratorInit
<1>4. Companions /\ \A p \in Commands : Reporting(p)
  BY <1>2 DEF Companions, Reporting, Running
<1>5. Partial
  BY <1>3 DEF Partial, Paths
<1>6. \A p \in Commands : Kept(p)
  BY <1>2, EmptySequence DEF Kept
<1>7. \A p \in Commands : Cleanable(p)
  <2>1. \A p \in Commands : Made(p) = {}
    BY <1>3 DEF Made, There
  <2> QED
    BY <1>2, <2>1 DEF Cleanable
<1>8. \A p \in Commands : Creating(p)
  BY <1>2 DEF Creating, Past, Cleared
<1> QED
  BY <1>1, <1>4, <1>5, <1>6, <1>7, <1>8 DEF GeneratorIInv

LEMMA StepIInv == GeneratorIInv /\ [GeneratorNext]_generatorVars => GeneratorIInv'
<1> SUFFICES ASSUME GeneratorIInv, [GeneratorNext]_generatorVars PROVE GeneratorIInv'
  OBVIOUS
<1>1. CASE UNCHANGED generatorVars
  <2> USE <1>1 DEF generatorVars
  <2>1. /\ \A q \in Commands : Creates(q)' = Creates(q) /\ Makes(q)' = Makes(q) /\ Running(q)' = Running(q)
        /\ \A q \in Commands : More(q)' = More(q) /\ Table(q)' = Table(q) /\ Lost(q)' = Lost(q)
        /\ \A q \in Commands : Bad(q)' = Bad(q) /\ Made(q)' = Made(q) /\ Missed(q)' = Missed(q)
        /\ There' = There
    BY DEF Creates, Makes, Running, More, Table, Lost, Bad, Made, Missed, There
  <2>2. Types'
    BY <2>1 DEF GeneratorIInv, Types, GeneratorTypeOK, Shape, FileOf
  <2>3. Companions' /\ Partial'
    BY <2>1 DEF GeneratorIInv, Companions, Partial, LeftBy
  <2>4. \A q \in Commands : Kept(q)' /\ Cleanable(q)'
    BY <2>1 DEF GeneratorIInv, Kept, Cleanable
  <2>5. \A q \in Commands : Creating(q)'
    <3>1. \A q \in Commands : Spoiled(q)' = Spoiled(q) /\ Past(q)' = Past(q)
      BY <2>1 DEF GeneratorIInv, Types, GeneratorTypeOK, Spoiled, Past
    <3>2. \A q \in Commands : Opened(q)' = Opened(q) /\ Cleared(q)' = Cleared(q)
      BY <3>1 DEF Opened, Cleared
    <3> QED
      BY <2>1, <3>1, <3>2 DEF GeneratorIInv, Creating
  <2>6. \A q \in Commands : Reporting(q)'
    <3>1. /\ \A q \in Commands : Alone(q)' = Alone(q) /\ Come(q)' = Come(q)
          /\ \A q \in Commands, k \in Nat : Place(q, k)' = Place(q, k)
      BY <2>1 DEF GeneratorIInv, Types, GeneratorTypeOK, Alone, Come, Place, FileOf
    <3> QED
      BY <2>1, <3>1 DEF GeneratorIInv, Reporting, Place, FileOf
  <2> QED
    BY <2>2, <2>3, <2>4, <2>5, <2>6 DEF GeneratorIInv
<1>2. ASSUME NEW p \in Commands, Step(p) PROVE GeneratorIInv'
  <2>1. Types /\ Companions /\ Partial /\ \A q \in Commands : Kept(q) /\ Cleanable(q) /\ Creating(q) /\ Reporting(q)
    BY DEF GeneratorIInv
  <2>2. Types' /\ Companions' /\ Partial'
    BY <1>2, <2>1, GeneratorStepTypes, CompanionsStay, PartialStays
  <2>3. \A q \in Commands : Kept(q)'
    BY <1>2, <2>1, OthersKept, KeptStays
  <2>4. \A q \in Commands : Cleanable(q)'
    BY <1>2, <2>1, OthersCleanable, CleanableStays
  <2>5. \A q \in Commands : Creating(q)'
    BY <1>2, <2>1, OthersCreating, CreatingStays
  <2>6. \A q \in Commands : Reporting(q)'
    BY <1>2, <2>1, OthersReporting, ReportingStays
  <2> QED
    BY <2>2, <2>3, <2>4, <2>5, <2>6 DEF GeneratorIInv
<1> QED
  BY <1>1, <1>2 DEF GeneratorNext

THEOREM GeneratorInvariance == GeneratorSpec => []GeneratorIInv
  BY InitIInv, StepIInv, PTL DEF GeneratorSpec

\* Every variable has its type; the directory of a file that is there exists.
THEOREM GeneratorTypeCorrect == GeneratorSpec => []GeneratorTypeOK
<1>1. GeneratorIInv => GeneratorTypeOK
  BY DEF GeneratorIInv, Types
<1> QED
  BY GeneratorInvariance, <1>1, PTL

\* A project that was reported created has all of its files, and whole.
THEOREM CreatedHolds == GeneratorSpec => []CreatedIsComplete
<1>1. GeneratorIInv => CreatedIsComplete
  <2> SUFFICES ASSUME GeneratorIInv, NEW p \in Commands, run[p].outcome = "created",
                      \A q \in during[p] : Creates(q) => run[q].outcome = "created",
                      NEW f \in Project
               PROVE  disk[f] # Nothing /\ (f # Output => disk[f].whole)
    BY DEF CreatedIsComplete
  <2>1. Types /\ Partial /\ Creating(p) /\ during[p] \subseteq Commands
    BY DEF GeneratorIInv, Types, GeneratorTypeOK
  <2>2. \A q \in Commands : run[q].outcome = "created" => run[q].pc = "over" /\ ~Bad(q)
    BY <2>1 DEF Types, Shape, Bad
  <2>3. ~Spoiled(p)
    BY <2>1, <2>2 DEF Spoiled
  <2>4. Past(p) /\ f \in Opened(p) /\ f \in Cleared(p)
    BY <2>1, <2>2 DEF Types, Shape, Past, Opened, Cleared
  <2>5. disk[f] # Nothing /\ (f # Output => disk[f].by \in during[p] \union {p})
    BY <2>1, <2>3, <2>4 DEF Creating
  <2>6. ASSUME f # Output, ~disk[f].whole PROVE FALSE
    <3>1. PICK q \in Commands : q = disk[f].by /\ LeftBy(f, q)
      BY <2>1, <2>5, <2>6 DEF Partial
    <3>2. run[q].outcome = "created"
      BY <2>5, <2>6, <3>1 DEF LeftBy
    <3> QED
      BY <2>2, <3>1, <3>2 DEF LeftBy
  <2> QED
    BY <2>5, <2>6
<1> QED
  BY GeneratorInvariance, <1>1, PTL

\* What a failed init leaves is bounded by the calls that failed on the way.
THEOREM FailureHolds == GeneratorSpec => []FailureCleansUp
<1>1. GeneratorIInv => FailureCleansUp
  BY DEF GeneratorIInv, Cleanable, Made, FailureCleansUp
<1> QED
  BY GeneratorInvariance, <1>1, PTL

\* Only who writes, or rolls back, changes both the disk and his own state.
LEMMA WhoChanges ==
  ASSUME Types, NEW p \in Commands, Step(p), NEW q \in Commands, run'[q] # run[q], disk' # disk
  PROVE  q = p /\ ~Begins(p)
<1>1. Open(p) \/ Write(p) \/ Takes(p)
  BY StepKinds, BeginIs, MoveIs, EndsIs, ErrsIs DEF Begins, Moves, NoConflict
<1>2. PICK r : Becomes(p, r)
  BY <1>1 DEF Open, Write, Takes, RemoveWritten, RemoveFails
<1> QED
  BY <1>1, <1>2, BeginIs, OpenIs, WriteIs, TakesIs DEF Becomes, Begins, Types, GeneratorTypeOK

\* No file that was there when a command began is touched by it, unless --force allows it.
THEOREM KeptHolds == GeneratorSpec => KeepsWhatWasThere
<1> DEFINE Act == \A p \in Commands : \A f \in before[p] \ {Output} :
                    run[p] # run'[p] /\ disk[f] # disk'[f] =>
                      call[p].force /\ \E name \in ToSet(call[p].names) : f = FileOf(call[p], name)
<1>1. ASSUME GeneratorIInv, [GeneratorNext]_generatorVars PROVE [Act]_generatorVars
  <2> SUFFICES ASSUME NEW o \in Commands, Step(o), NEW p \in Commands, NEW f \in before[p] \ {Output},
                      run[p] # run'[p], disk[f] # disk'[f]
               PROVE  call[p].force /\ \E name \in ToSet(call[p].names) : f = FileOf(call[p], name)
    BY <1>1 DEF GeneratorNext
  <2>1. Types /\ Kept(p) /\ Shape(p) /\ f \in Paths /\ call[p] \in Calls
    BY <1>1 DEF GeneratorIInv, Types, GeneratorTypeOK
  <2>2. p = o
    BY <2>1, WhoChanges
  <2>3. run[p].pc \in {"open", "write"} /\ run[p].target = f
    BY <2>1, <2>2, DiskStep DEF Kept
  <2>4. call[p].force
    BY <2>1, <2>3 DEF Kept
  <2>5. Makes(p) /\ ~Creates(p)
    BY <2>1, <2>4 DEF Makes, Creates
  <2>6. More(p) /\ f = FileOf(call[p], Table(p))
    BY <2>1, <2>3, <2>5 DEF Shape
  <2>7. Table(p) \in ToSet(call[p].names)
    BY <2>1, <2>6, TablePath DEF Types
  <2> QED
    BY <2>4, <2>6, <2>7
<1> QED
  BY GeneratorInvariance, <1>1, PTL DEF GeneratorSpec, KeepsWhatWasThere

\* from-schema is done when the turn of the last table has come.
LEMMA LastTable ==
  ASSUME Types, NEW o \in Commands, Step(o), NEW p \in Commands, call[p].cmd = "schema",
         run[p].outcome = "none", run'[p].outcome = "ok", Reporting(p), Alone(p)
  PROVE  Running(p) /\ Come(p) = Len(call[p].names)
<1>1. p # o => SameBut(p)
  BY Frame DEF Types
<1>2. p = o
  BY <1>1 DEF SameBut
<1>3. Step(p) /\ ~Creates(p) /\ Makes(p) /\ Shape(p)
  BY <1>2 DEF Creates, Makes, Types
<1>4. ~Begins(p) /\ ~Moves(p) /\ ~Takes(p) /\ ~Open(p) /\ ~\E f \in Paths : NoConflict(p, f)
  <2>1. ~Begins(p)
    BY BeginIs DEF Begins, Shape
  <2> QED
    BY <2>1, MoveIs, TakesIs, OpenIs, CheckIs DEF Moves
<1>5. ~Errs(p) /\ ~Write(p)
  BY ErrsIs, FailingIs, WriteIs, SucceedingIs
<1>6. Ends(p)
  BY <1>3, <1>4, <1>5, StepKinds
<1>7. run[p].pc = "table" /\ ~More(p) /\ Running(p)
  BY <1>3, <1>6, EndsIs DEF Running, Shape, Creates
<1>8. run[p].at \in Nat /\ Len(call[p].names) \in Nat
  BY DEF Types, GeneratorTypeOK, Local
<1>9. run[p].at <= Len(call[p].names) + 1 /\ Come(p) = run[p].at - 1
  BY <1>7 DEF Reporting, Come
<1> QED
  BY <1>7, <1>8, <1>9 DEF More

\* What from-schema reports generated is there, whole and the table's own.
THEOREM ReportHolds == GeneratorSpec => ReportIsTrue
<1> DEFINE Act ==
      \A p \in Commands :
       call[p].cmd = "schema" /\ run[p].outcome = "none" /\ run'[p].outcome = "ok"
       /\ (\A q \in during[p] : call[q].cmd \notin {"schema", "resource"}) =>
         LET names == call[p].names
         IN \A k \in DOMAIN names :
              k \in run[p].reported /\ FileOf(call[p], names[k]) # Output
              /\ (call[p].force => \A j \in k + 1 .. Len(names) :
                    FileOf(call[p], names[j]) # FileOf(call[p], names[k])) =>
                LET content == disk[FileOf(call[p], names[k])]
                IN content # Nothing /\ content.whole /\ content.by = p /\ content.of = names[k]
<1>1. ASSUME GeneratorIInv, [GeneratorNext]_generatorVars PROVE [Act]_generatorVars
  <2> SUFFICES ASSUME NEW o \in Commands, Step(o), NEW p \in Commands,
                      call[p].cmd = "schema", run[p].outcome = "none", run'[p].outcome = "ok",
                      \A q \in during[p] : call[q].cmd \notin {"schema", "resource"},
                      NEW k \in DOMAIN call[p].names,
                      k \in run[p].reported, Place(p, k) # Output,
                      call[p].force => \A j \in k + 1 .. Len(call[p].names) : Place(p, j) # Place(p, k)
               PROVE  LET content == disk[Place(p, k)]
                      IN content # Nothing /\ content.whole /\ content.by = p /\ content.of = call[p].names[k]
    BY <1>1 DEF GeneratorNext, Place
  <2>1. Types /\ Reporting(p)
    BY <1>1 DEF GeneratorIInv
  <2>2. Alone(p)
    BY <2>1 DEF Alone, Makes, Types, GeneratorTypeOK
  <2>3. Running(p) /\ Come(p) = Len(call[p].names)
    BY <2>1, <2>2, LastTable
  <2> QED
    BY <2>1, <2>2, <2>3 DEF Reporting
<1> QED
  BY GeneratorInvariance, <1>1, PTL DEF GeneratorSpec, ReportIsTrue
=============================================================================
