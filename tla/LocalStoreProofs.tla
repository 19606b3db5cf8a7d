------------------------- MODULE LocalStoreProofs -------------------------
(***************************************************************************)
(* The store's state stays well typed whatever its handlers do, for every  *)
(* configuration and bound: no log entry, save or removal names less than  *)
(* a whole FileInfo.                                                       *)
(***************************************************************************)
EXTENDS LocalStore, TLAPS

USE FlagAssumption, BoundAssumption, LogAssumption, NoneAssumption

Log == [kind : {"files", "removes"}, info : Info]

(* What an upload has decided on by its place. *)
JobInv(job) ==
    job.pc # "idle" =>
        /\ job.file \in File /\ job.name \in Path /\ job.path \in Path
        /\ RenameFile => job.rename \in Path
        /\ job.pc \in {"finish", "log"} => job.md5 \in File

RemoveInv(job) == job.pc # "idle" => job.info \in Info

(* The inductive invariant: what is being handled is there to be handled. *)
StoreInv ==
    /\ TypeOK
    /\ \A u \in Uploader : JobInv(upload[u])
    /\ \A d \in Deleter : RemoveInv(remove[d])
    /\ counted => fileLog # <<>>

-----------------------------------------------------------------------------
(* A FileInfo of an upload: its parts are. *)
LEMMA InfoParts ==
    /\ \A info \in Info : info.md5 \in File /\ info.path \in Path
                          /\ info.md5 \in Key /\ info.path \in Key
    /\ \A f \in File, p \in Path : [md5 |-> f, path |-> p] \in Info
    /\ \A p \in Path : p[2] \in Name \cup Unique
    /\ \A i \in 0..MaxNumber, n \in Name \cup Unique : <<i, n>> \in Path
  BY DEF Info, Key, Path

(* The queue of the log: what is first, what is left, what is added. *)
LEMMA LogParts ==
    /\ \A q \in Seq(Log) : q # <<>> =>
          Head(q) \in Log /\ Head(q).info \in Info /\ Tail(q) \in Seq(Log)
    /\ \A q \in Seq(Log), info \in Info, kind \in {"files", "removes"} :
          Append(q, Entry(kind, info)) \in Seq(Log) /\ Append(q, Entry(kind, info)) # <<>>
    /\ \A q \in Seq(Log), e \in Log : q # <<>> => Head(Append(q, e)) = Head(q)
  <1>1. ASSUME NEW q \in Seq(Log), q # <<>>
        PROVE  Head(q) \in Log /\ Head(q).info \in Info /\ Tail(q) \in Seq(Log)
    <2>1. Head(q) \in Log /\ Tail(q) \in Seq(Log)
      BY <1>1
    <2> QED
      BY <2>1 DEF Log
  <1>2. ASSUME NEW q \in Seq(Log), NEW info \in Info, NEW kind \in {"files", "removes"}
        PROVE  Append(q, Entry(kind, info)) \in Seq(Log) /\ Append(q, Entry(kind, info)) # <<>>
    <2>1. Entry(kind, info) \in Log
      BY DEF Entry, Log
    <2> QED
      BY <2>1
  <1>3. ASSUME NEW q \in Seq(Log), NEW e \in Log, q # <<>>
        PROVE  Head(Append(q, e)) = Head(q)
    BY <1>3
  <1> QED
    BY <1>1, <1>2, <1>3

(* An upload moves on, all others stay. *)
LEMMA UploadMoves ==
    ASSUME StoreInv, NEW u \in Uploader, NEW job \in UploadState, JobInv(job),
           upload' = [upload EXCEPT ![u] = job]
    PROVE  upload' \in [Uploader -> UploadState] /\ \A v \in Uploader : JobInv(upload'[v])
  BY DEF StoreInv, TypeOK

(* So for a removal. *)
LEMMA RemoveMoves ==
    ASSUME StoreInv, NEW d \in Deleter, NEW job \in RemoveState, RemoveInv(job),
           remove' = [remove EXCEPT ![d] = job]
    PROVE  remove' \in [Deleter -> RemoveState] /\ \A e \in Deleter : RemoveInv(remove'[e])
  BY DEF StoreInv, TypeOK

(* Nobody is idle in the middle of something. *)
LEMMA IdleType ==
    /\ NoUpload \in UploadState /\ JobInv(NoUpload) /\ NoUpload.pc = "idle"
    /\ NoRemove \in RemoveState /\ RemoveInv(NoRemove) /\ NoRemove.pc = "idle"
  BY DEF NoUpload, UploadState, JobInv, NoRemove, RemoveState, RemoveInv

(* Initially all is empty. *)
LEMMA InitStoreInv == Init => StoreInv
  <1> SUFFICES ASSUME Init PROVE StoreInv
    OBVIOUS
  <1>1. /\ disk \in [Path -> File \cup {None}] /\ ldb \in [Key -> Info \cup {None}]
        /\ logFiles \subseteq File /\ fileLog \in Seq(Log)
    BY DEF Init
  <1>2. count \in Int
    BY DEF Init
  <1>3. counted \in BOOLEAN /\ ~ counted
    BY DEF Init
  <1>4. /\ posting \subseteq Info /\ sent \subseteq Info /\ uploads \in 0..MaxUploads
        /\ drawn \subseteq Unique \ Sums /\ answered \subseteq File
    BY DEF Init
  <1>5. /\ upload \in [Uploader -> UploadState] /\ \A u \in Uploader : JobInv(upload[u])
        /\ remove \in [Deleter -> RemoveState] /\ \A d \in Deleter : RemoveInv(remove[d])
    BY IdleType DEF Init
  <1> QED
    BY <1>1, <1>2, <1>3, <1>4, <1>5 DEF StoreInv, TypeOK, Log

-----------------------------------------------------------------------------
(* An upload chooses its name: the first free i_<name> is one. *)
LEMMA UploadStartType ==
    ASSUME StoreInv, NEW u \in Uploader, NEW f \in File, NEW n \in Name, UploadStart(u, f, n)
    PROVE  StoreInv'
  <1>1. PICK r \in Name \cup Unique \cup {None} :
           UploadChoose(u, f, n, r) /\ (RenameFile => r \in Unique)
           /\ drawn' \subseteq drawn \cup (Unique \ Sums)
    BY DEF UploadStart
  <1> DEFINE w == <<0, IF r = None THEN n ELSE r>>
             c == IF Exists(w) THEN <<FirstFree(n), n>> ELSE w
             m == IF Exists(w) THEN c ELSE <<0, n>>
  <1>2. w \in Path /\ <<0, n>> \in Path /\ (r # None => <<0, r>> \in Path)
    BY InfoParts
  <1>3. Exists(w) => FirstFree(n) \in 1..MaxNumber
    <2>1. Exists(w) => \E i \in 1..MaxNumber : IsFirstFree(i, n)
      BY <1>1 DEF UploadChoose
    <2> QED
      BY <2>1 DEF FirstFree
  <1>4. c \in Path /\ m \in Path
    <2>1. Exists(w) => <<FirstFree(n), n>> \in Path
      <3> SUFFICES ASSUME Exists(w) PROVE <<FirstFree(n), n>> \in Path
        OBVIOUS
      <3>1. FirstFree(n) \in 0..MaxNumber
        BY <1>3
      <3> QED
        BY <3>1, InfoParts
    <2> QED
      BY <1>2, <2>1
  <1>5. upload' = [upload EXCEPT ![u] =
           [pc |-> "write", file |-> f, name |-> m, path |-> c,
            rename |-> IF r = None THEN None ELSE <<0, r>>, md5 |-> None]]
    BY <1>1 DEF UploadChoose
  <1> HIDE DEF w, c, m
  <1>6. PICK job \in UploadState : JobInv(job) /\ upload' = [upload EXCEPT ![u] = job]
    <2> DEFINE j == [pc |-> "write", file |-> f, name |-> m, path |-> c,
                     rename |-> IF r = None THEN None ELSE <<0, r>>, md5 |-> None]
    <2>1. j \in UploadState
      BY <1>2, <1>4 DEF UploadState
    <2>2. JobInv(j)
      BY <1>1, <1>2, <1>4 DEF JobInv
    <2> QED
      BY <1>5, <2>1, <2>2
  <1>7. upload' \in [Uploader -> UploadState] /\ \A v \in Uploader : JobInv(upload'[v])
    BY <1>6, UploadMoves
  <1>8. uploads' \in 0..MaxUploads
    BY <1>1 DEF UploadChoose, StoreInv, TypeOK
  <1> QED
    BY <1>1, <1>7, <1>8 DEF UploadChoose, store, stat, StoreInv, TypeOK

(* It writes its file ... *)
LEMMA UploadWriteType ==
    ASSUME StoreInv, NEW u \in Uploader, UploadWrite(u)
    PROVE  StoreInv'
  <1>1. upload[u] \in UploadState /\ JobInv(upload[u]) /\ upload[u].pc = "write"
    BY DEF UploadWrite, StoreInv, TypeOK
  <1>2. PICK job \in UploadState : job = [upload[u] EXCEPT !.pc = "sum"]
    BY <1>1 DEF UploadState
  <1>3. JobInv(job)
    BY <1>1, <1>2 DEF JobInv, UploadState
  <1>4. upload' \in [Uploader -> UploadState] /\ \A v \in Uploader : JobInv(upload'[v])
    BY <1>2, <1>3, UploadMoves DEF UploadWrite
  <1>5. disk' \in [Path -> File \cup {None}]
    BY <1>1 DEF JobInv, UploadWrite, StoreInv, TypeOK
  <1> QED
    BY <1>4, <1>5 DEF UploadWrite, stat, StoreInv, TypeOK

(* ... has its md5 ... *)
LEMMA UploadSumType ==
    ASSUME StoreInv, NEW u \in Uploader, UploadSum(u)
    PROVE  StoreInv'
  <1>1. upload[u] \in UploadState /\ JobInv(upload[u]) /\ upload[u].pc = "sum"
    BY DEF UploadSum, StoreInv, TypeOK
  <1>2. PICK f \in File : f = IF disk[upload[u].path] = None THEN upload[u].file
                                                             ELSE disk[upload[u].path]
    BY <1>1 DEF JobInv, StoreInv, TypeOK
  <1>3. PICK job \in UploadState : job = [upload[u] EXCEPT !.pc = "finish", !.md5 = f]
    BY <1>1 DEF UploadState
  <1>4. JobInv(job)
    BY <1>1, <1>3 DEF JobInv, UploadState
  <1>5. upload' = [upload EXCEPT ![u] = job] \/ upload' = [upload EXCEPT ![u] = NoUpload]
    BY <1>2, <1>3 DEF UploadSum
  <1>6. upload' \in [Uploader -> UploadState] /\ \A v \in Uploader : JobInv(upload'[v])
    BY <1>4, <1>5, IdleType, UploadMoves
  <1> QED
    BY <1>6 DEF UploadSum, store, stat, StoreInv, TypeOK

(* ... removes it if ldb has the content ... *)
LEMMA UploadFinishType ==
    ASSUME StoreInv, NEW u \in Uploader, UploadFinish(u)
    PROVE  StoreInv'
  <1>1. upload[u] \in UploadState /\ JobInv(upload[u]) /\ upload[u].pc = "finish"
        /\ upload[u].md5 \in File
    BY DEF UploadFinish, JobInv, StoreInv, TypeOK
  <1>2. PICK job \in UploadState : job = [upload[u] EXCEPT !.pc = "log"]
    BY <1>1 DEF UploadState
  <1>3. JobInv(job)
    BY <1>1, <1>2 DEF JobInv, UploadState
  <1>4. upload' = [upload EXCEPT ![u] = job] \/ upload' = [upload EXCEPT ![u] = NoUpload]
    BY <1>2 DEF UploadFinish
  <1>5. upload' \in [Uploader -> UploadState] /\ \A v \in Uploader : JobInv(upload'[v])
    BY <1>3, <1>4, IdleType, UploadMoves
  <1>6. disk' \in [Path -> File \cup {None}]
    <2>1. Duplicate(upload[u]) \in Path
      BY <1>1 DEF Duplicate, JobInv
    <2> QED
      BY <2>1 DEF UploadFinish, StoreInv, TypeOK
  <1>7. answered' \subseteq File
    BY <1>1 DEF UploadFinish, Answer, StoreInv, TypeOK
  <1> QED
    BY <1>5, <1>6, <1>7 DEF UploadFinish, stat, StoreInv, TypeOK

(* A FileInfo is queued for the log. *)
LEMMA LogGrows ==
    ASSUME StoreInv, NEW info \in Info, NEW kind \in {"files", "removes"},
           SaveFileMd5Log(kind, info)
    PROVE  fileLog' \in Seq(Log) /\ fileLog' # <<>>
           /\ (fileLog # <<>> => Head(fileLog') = Head(fileLog))
  <1>1. fileLog \in Seq(Log)
    BY DEF StoreInv, TypeOK, Log
  <1>2. fileLog' = Append(fileLog, Entry(kind, info))
    BY DEF SaveFileMd5Log
  <1>3. Entry(kind, info) \in Log
    BY DEF Entry, Log
  <1> QED
    BY <1>1, <1>2, <1>3, LogParts

(* ... or logs it. *)
LEMMA UploadLogType ==
    ASSUME StoreInv, NEW u \in Uploader, UploadLog(u)
    PROVE  StoreInv'
  <1>1. JobInv(upload[u]) /\ upload[u] \in UploadState /\ upload[u].pc = "log"
        /\ upload[u].md5 \in File
    BY DEF UploadLog, JobInv, StoreInv, TypeOK
  <1>2. PICK info \in Info : info = [md5 |-> upload[u].md5, path |-> Recorded(upload[u])]
    <2>1. Recorded(upload[u]) \in Path
      BY <1>1 DEF Recorded, JobInv, UploadState
    <2> QED
      BY <1>1, <2>1, InfoParts
  <1>3. fileLog' \in Seq(Log) /\ fileLog' # <<>>
    BY <1>2, LogGrows DEF UploadLog
  <1>4. upload' \in [Uploader -> UploadState] /\ \A v \in Uploader : JobInv(upload'[v])
    BY IdleType, UploadMoves DEF UploadLog
  <1>5. posting' \subseteq Info /\ answered' \subseteq File
    BY <1>1, <1>2 DEF UploadLog, Answer, StoreInv, TypeOK
  <1> QED
    BY <1>3, <1>4, <1>5 DEF UploadLog, store, stat, StoreInv, TypeOK, Log


-----------------------------------------------------------------------------
(* RemoveFile finds a FileInfo ... *)
LEMMA RemoveLookupType ==
    ASSUME StoreInv, NEW d \in Deleter, NEW k \in Key, RemoveLookup(d, k)
    PROVE  StoreInv'
  <1>1. ldb[k] \in Info
    BY DEF RemoveLookup, StoreInv, TypeOK
  <1>2. PICK job \in RemoveState : job = [pc |-> "log", info |-> ldb[k]]
    BY <1>1 DEF RemoveState
  <1>3. RemoveInv(job)
    BY <1>1, <1>2 DEF RemoveInv
  <1>4. remove' \in [Deleter -> RemoveState] /\ \A e \in Deleter : RemoveInv(remove'[e])
    BY <1>2, <1>3, RemoveMoves DEF RemoveLookup
  <1> QED
    BY <1>4 DEF RemoveLookup, store, stat, StoreInv, TypeOK

(* ... logs it, if its file exists ... *)
LEMMA RemoveLogType ==
    ASSUME StoreInv, NEW d \in Deleter, RemoveLog(d)
    PROVE  StoreInv'
  <1>1. remove[d] \in RemoveState /\ remove[d].info \in Info
    BY DEF RemoveLog, RemoveInv, StoreInv, TypeOK
  <1>2. PICK job \in RemoveState : job = [remove[d] EXCEPT !.pc = "unlink"]
    BY <1>1 DEF RemoveState
  <1>3. RemoveInv(job)
    BY <1>1, <1>2 DEF RemoveInv, RemoveState
  <1>4. remove' = [remove EXCEPT ![d] = job] \/ remove' = [remove EXCEPT ![d] = NoRemove]
    BY <1>2 DEF RemoveLog
  <1>5. remove' \in [Deleter -> RemoveState] /\ \A e \in Deleter : RemoveInv(remove'[e])
    BY <1>3, <1>4, IdleType, RemoveMoves
  <1>6. fileLog' \in Seq(Log) /\ (counted => fileLog' # <<>>)
    <2>1. CASE SaveFileMd5Log("removes", remove[d].info)
      <3>1. PICK info \in Info : info = remove[d].info
        BY <1>1
      <3> QED
        BY <2>1, <3>1, LogGrows
    <2>2. CASE fileLog' = fileLog
      BY <2>2 DEF StoreInv, TypeOK, Log
    <2> QED
      BY <2>1, <2>2 DEF RemoveLog
  <1> QED
    BY <1>5, <1>6 DEF RemoveLog, store, stat, StoreInv, TypeOK, Log

(* ... and unlinks it. *)
LEMMA RemoveUnlinkType ==
    ASSUME StoreInv, NEW d \in Deleter, RemoveUnlink(d)
    PROVE  StoreInv'
  <1>1. remove[d].info \in Info
    BY DEF RemoveUnlink, RemoveInv, StoreInv
  <1>2. disk' \in [Path -> File \cup {None}]
    BY <1>1, InfoParts DEF RemoveUnlink, StoreInv, TypeOK
  <1>3. remove' \in [Deleter -> RemoveState] /\ \A e \in Deleter : RemoveInv(remove'[e])
    BY IdleType, RemoveMoves DEF RemoveUnlink
  <1> QED
    BY <1>2, <1>3 DEF RemoveUnlink, stat, StoreInv, TypeOK

(* The consumer counts an entry ... *)
LEMMA CountLogType ==
    ASSUME StoreInv, CountLog
    PROVE  StoreInv'
  <1>1. count' \in Int
    BY DEF CountLog, CountedNew, CountedGone, StoreInv, TypeOK
  <1> QED
    BY <1>1 DEF CountLog, StoreInv, TypeOK

(* ... and saves it. *)
LEMMA SaveLogType ==
    ASSUME StoreInv, SaveLog
    PROVE  StoreInv'
  <1>1. fileLog \in Seq(Log) /\ fileLog # <<>>
    BY DEF SaveLog, StoreInv, TypeOK, Log
  <1>2. PICK info \in Info : info = Head(fileLog).info
    BY <1>1, LogParts
  <1>3. fileLog' \in Seq(Log)
    BY <1>1, LogParts DEF SaveLog
  <1>4. info.md5 \in File /\ info.md5 \in Key /\ info.path \in Key
    BY InfoParts
  <1>5. ldb' \in [Key -> Info \cup {None}]
    <2>1. ldb \in [Key -> Info \cup {None}]
      BY DEF StoreInv, TypeOK
    <2>2. Saved(info) \in [Key -> Info \cup {None}] /\ Forgotten(info) \in [Key -> Info \cup {None}]
      BY <1>4, <2>1 DEF Saved, Forgotten
    <2>3. ldb' = Saved(info) \/ ldb' = Forgotten(info)
      BY <1>2 DEF SaveLog
    <2> QED
      BY <2>2, <2>3
  <1>6. logFiles' \subseteq File
    BY <1>2, <1>4 DEF SaveLog, StoreInv, TypeOK
  <1> QED
    BY <1>3, <1>5, <1>6 DEF SaveLog, StoreInv, TypeOK, Log

(* What the requests of peers change. *)
LEMMA PeerStepType ==
    ASSUME StoreInv,
           \/ \E f \in File : CheckFileExist(f)
           \/ \E info \in Info : PostSend(info) \/ PostSave(info)
    PROVE  StoreInv'
  <1>1. ASSUME NEW f \in File, CheckFileExist(f) PROVE StoreInv'
    <2>1. ldb' \in [Key -> Info \cup {None}]
      BY <1>1 DEF CheckFileExist, Key, StoreInv, TypeOK
    <2> QED
      BY <1>1, <2>1 DEF CheckFileExist, stat, StoreInv, TypeOK
  <1>2. ASSUME NEW info \in Info, PostSend(info) PROVE StoreInv'
    BY <1>2 DEF PostSend, store, stat, StoreInv, TypeOK
  <1>3. ASSUME NEW info \in Info, PostSave(info) PROVE StoreInv'
    <2>1. ldb' \in [Key -> Info \cup {None}] /\ logFiles' \subseteq File /\ sent' \subseteq Info
      BY <1>3, InfoParts DEF PostSave, StoreInv, TypeOK
    <2> QED
      BY <1>3, <2>1 DEF PostSave, stat, StoreInv, TypeOK
  <1> QED
    BY <1>1, <1>2, <1>3

(* The steps of a worker ... *)
LEMMA UploadStepType ==
    ASSUME StoreInv, NEW u \in Uploader, UploadStep(u)
    PROVE  StoreInv'
  BY UploadWriteType, UploadSumType, UploadFinishType, UploadLogType DEF UploadStep

(* ... and of all else. *)
LEMMA OtherStepType ==
    ASSUME StoreInv, OtherStep
    PROVE  StoreInv'
  BY RemoveLookupType, RemoveLogType, RemoveUnlinkType, CountLogType, SaveLogType,
     PeerStepType DEF OtherStep

(* Where the store does not change. *)
LEMMA StoreStays == StoreInv /\ UNCHANGED vars => StoreInv'
  BY DEF vars, store, stat, StoreInv, TypeOK

(* Every step keeps the types. *)
LEMMA NextStoreInv == StoreInv /\ [Next]_vars => StoreInv'
  BY UploadStartType, UploadStepType, OtherStepType, StoreStays DEF Next

(* TypeOK is an invariant of the store alone. *)
THEOREM TypeCorrect == Spec => []TypeOK
  <1>1. StoreInv => TypeOK
    BY DEF StoreInv
  <1> QED
    BY <1>1, InitStoreInv, NextStoreInv, PTL DEF Spec
=============================================================================
