----------------------------- MODULE LocalStore -----------------------------
(***************************************************************************)
(* One node's store: upload with its deduplication, RemoveFile, the log    *)
(* consumer with the day's statistics, and what requests of peers change.  *)
(*                                                                         *)
(* The handlers run concurrently and use the disk and ldb directly, but    *)
(* what they log reaches ldb, logDB and the counters only when the one     *)
(* consumer of queueFileLog gets to it.                                    *)
(*                                                                         *)
(* The model is that of whole files with enable_distinct_file on, all      *)
(* uploaded into one directory within one day.                             *)
(***************************************************************************)
EXTENDS Integers, Sequences, FiniteSets

CONSTANTS
    File,            \* contents; a content stands for its md5
    Name,            \* file names that clients send
    Unique,          \* names that no client sends
    Sums,            \* those of them that are md5s of contents; rename_file
                     \* draws from the others, never one twice
    Uploader,        \* concurrent uploads
    Deleter,         \* concurrent RemoveFile requests
    RenameFile,      \* rename_file of the configuration
    CustomNames,     \* clients send the filename parameter
    HasPeers,        \* the node posts to peers, which save its FileInfos
    Checks,          \* peers send check_file_exist
    LogSize,         \* CONST_QUEUE_SIZE, of queueFileLog
    MaxUploads,      \* bound: uploads
    MaxNumber,       \* bound: numbered names i_<name> for a name
    None             \* no file, no entry, no name

ASSUME FlagAssumption == {RenameFile, CustomNames, HasPeers, Checks} \subseteq BOOLEAN
ASSUME BoundAssumption == MaxUploads \in Nat /\ MaxNumber \in Nat
ASSUME SumsAssumption == Sums \subseteq Unique
ASSUME LogAssumption == LogSize \in Nat \ {0}
ASSUME NoneAssumption == None \notin File \cup Name \cup Unique

(* <<0, n>> is the name n, <<i, n>> the name (i-1)_n. *)
Path == (0..MaxNumber) \X (Name \cup Unique)
Info == [md5 : File, path : Path]
Key  == File \cup Path

(* The md5 of a content is not that of a path, and None is neither a path   *)
(* nor a FileInfo.                                                          *)
ASSUME KeyAssumption == File \cap Path = {} /\ None \notin Path \cup Info

VARIABLES
    disk,        \* disk[p]: the content of the file p
    ldb,         \* ldb[k]: the FileInfo saved under an md5 or the hash of a path
    logFiles,    \* the md5s with a key <day>_files.md5_<md5> in logDB
    count,       \* <day>_fileCount of statMap
    counted,     \* has the first entry of queueFileLog been counted?
    fileLog,     \* queueFileLog
    upload,      \* upload[u]: an activation of upload
    remove,      \* remove[d]: an activation of RemoveFile
    posting,     \* FileInfos whose goroutine has not yet looked at the disk
    sent,        \* FileInfos posted, whose goroutine has yet to save them
    uploads,     \* uploads so far
    drawn,       \* names that rename_file has drawn
    answered     \* history: contents answered with a URL while no delete of
                 \* them was under way, and no delete since

stat  == <<count, counted>>
store == <<disk, ldb, logFiles, stat>>
vars  == <<store, fileLog, upload, remove, posting, sent, uploads, drawn, answered>>

NoUpload == [pc |-> "idle", file |-> None, name |-> None, rename |-> None,
             path |-> None, md5 |-> None]
NoRemove == [pc |-> "idle", info |-> None]

Init ==
    /\ disk = [p \in Path |-> None]
    /\ ldb = [k \in Key |-> None]
    /\ logFiles = {}
    /\ count = 0 /\ counted = FALSE
    /\ fileLog = <<>>
    /\ upload = [u \in Uploader |-> NoUpload]
    /\ remove = [d \in Deleter |-> NoRemove]
    /\ posting = {} /\ sent = {}
    /\ uploads = 0 /\ drawn = {} /\ answered = {}

Exists(p) == disk[p] # None

(* appendToFileMd5LogQueue: the loop that waits for room ends, and there is *)
(* a place in the channel.                                                  *)
WaitForMore == Len(fileLog) > LogSize
LogRoom == /\ Len(fileLog) + Len(fileLog) \div 10 <= LogSize
           /\ Len(fileLog) < LogSize

Entry(kind, info) == [kind |-> kind, info |-> info]
SaveFileMd5Log(kind, info) == LogRoom /\ fileLog' = Append(fileLog, Entry(kind, info))

-----------------------------------------------------------------------------
(* The first part of processUploadFile: the file goes to its ReName or      *)
(* Name, or, when that exists, to the first free i_<name>, which becomes    *)
(* its Name but not its ReName.                                             *)
IsFirstFree(i, n) == /\ ~ Exists(<<i, n>>)
                     /\ \A j \in 1..(i - 1) : Exists(<<j, n>>)
FirstFree(n) == CHOOSE i \in 1..MaxNumber : IsFirstFree(i, n)

UploadChoose(u, f, n, r) ==
    LET wanted == <<0, IF r = None THEN n ELSE r>>
        chosen == IF Exists(wanted) THEN <<FirstFree(n), n>> ELSE wanted
        named  == IF Exists(wanted) THEN chosen ELSE <<0, n>>
    IN
    /\ uploads < MaxUploads
    /\ upload[u].pc = "idle"
    /\ Exists(wanted) => \E i \in 1..MaxNumber : IsFirstFree(i, n)
    /\ uploads' = uploads + 1
    /\ upload' = [upload EXCEPT ![u] =
          [pc |-> "write", file |-> f, name |-> named, path |-> chosen,
           rename |-> IF r = None THEN None ELSE <<0, r>>, md5 |-> None]]
    /\ UNCHANGED <<store, fileLog, remove, posting, sent, answered>>

(* The client's filename parameter, or a new name when rename_file is on.   *)
UploadStart(u, f, n) ==
    \/ /\ RenameFile
       /\ \E r \in Unique \ (Sums \cup drawn) :
             UploadChoose(u, f, n, r) /\ drawn' = drawn \cup {r}
    \/ /\ ~ RenameFile
       /\ \E r \in {None} \cup (IF CustomNames THEN Name ELSE {}) :
             UploadChoose(u, f, n, r)
       /\ UNCHANGED drawn

(* os.Create and the copy of the body. *)
UploadWrite(u) ==
    /\ upload[u].pc = "write"
    /\ disk' = [disk EXCEPT ![upload[u].path] = upload[u].file]
    /\ upload' = [upload EXCEPT ![u].pc = "sum"]
    /\ UNCHANGED <<ldb, logFiles, stat, fileLog, remove, posting, sent,
                   uploads, drawn, answered>>

(* The size check and the md5 of what the file holds by now: another        *)
(* upload may have written the same name meanwhile, with another or with    *)
(* the same size.                                                           *)
UploadSum(u) ==
    LET found == disk[upload[u].path] IN
    /\ upload[u].pc = "sum"
    /\ \/ upload' = [upload EXCEPT ![u].pc = "finish",
                        ![u].md5 = IF found = None THEN upload[u].file ELSE found]
       \/ /\ found \notin {None, upload[u].file}
          /\ upload' = [upload EXCEPT ![u] = NoUpload]
    /\ UNCHANGED <<store, fileLog, remove, posting, sent, uploads, drawn, answered>>

(* The path that the FileInfo records. *)
RenameOnly(job) == job.rename
Recorded(job) == IF job.rename = None THEN job.name ELSE job.rename

(* The file that upload removes when the content is known already.          *)
KnownCopy(job) == ldb[job.md5].path
SentName(job) == <<0, job.name[2]>>
Duplicate(job) == IF RenameFile THEN job.rename ELSE job.name

(* Is a delete of the content under way, its log entry included?            *)
Deleting(f) ==
    \/ \E d \in Deleter : remove[d].pc # "idle" /\ remove[d].info.md5 = f
    \/ \E i \in 1..Len(fileLog) : fileLog[i].kind = "removes" /\ fileLog[i].info.md5 = f
Answer(f) == answered' = IF Deleting(f) THEN answered ELSE answered \cup {f}

(* The rest of upload: a content that ldb has is answered with the URL of   *)
(* the first copy and the new one removed ...                               *)
UploadFinish(u) ==
    LET job == upload[u] IN
    /\ job.pc = "finish"
    /\ \/ /\ ldb[job.md5] # None
          /\ disk' = [disk EXCEPT ![Duplicate(job)] = None]
          /\ Answer(job.md5)
          /\ upload' = [upload EXCEPT ![u] = NoUpload]
       \/ /\ ldb[job.md5] = None
          /\ upload' = [upload EXCEPT ![u].pc = "log"]
          /\ UNCHANGED <<disk, answered>>
    /\ UNCHANGED <<ldb, logFiles, stat, fileLog, posting, remove, sent, uploads, drawn>>

(* ... another is logged, as soon as there is room, and posted.             *)
UploadLog(u) ==
    LET job  == upload[u]
        info == [md5 |-> job.md5, path |-> Recorded(job)]
    IN
    /\ job.pc = "log"
    /\ SaveFileMd5Log("files", info)
    /\ posting' = IF HasPeers THEN posting \cup {info} ELSE posting
    /\ Answer(job.md5)
    /\ upload' = [upload EXCEPT ![u] = NoUpload]
    /\ UNCHANGED <<store, remove, sent, uploads, drawn>>

-----------------------------------------------------------------------------
(* RemoveFile, by md5 or by path: look the FileInfo up ...                  *)
RemoveLookup(d, k) ==
    /\ remove[d].pc = "idle"
    /\ ldb[k] # None
    /\ remove' = [remove EXCEPT ![d] = [pc |-> "log", info |-> ldb[k]]]
    /\ answered' = answered \ {ldb[k].md5}
    /\ UNCHANGED <<store, fileLog, upload, posting, sent, uploads, drawn>>

(* ... log removes.md5 if the file exists ...                               *)
RemoveLog(d) ==
    LET info == remove[d].info IN
    /\ remove[d].pc = "log"
    /\ \/ /\ Exists(info.path)
          /\ SaveFileMd5Log("removes", info)
          /\ remove' = [remove EXCEPT ![d].pc = "unlink"]
       \/ /\ ~ Exists(info.path)
          /\ remove' = [remove EXCEPT ![d] = NoRemove]
          /\ UNCHANGED fileLog
    /\ UNCHANGED <<store, upload, posting, sent, uploads, drawn, answered>>

(* ... and remove it; the reply is sent here, the log entry still waits.    *)
RemoveUnlink(d) ==
    /\ remove[d].pc = "unlink"
    /\ disk' = [disk EXCEPT ![remove[d].info.path] = None]
    /\ remove' = [remove EXCEPT ![d] = NoRemove]
    /\ UNCHANGED <<ldb, logFiles, stat, fileLog, upload, posting, sent,
                   uploads, drawn, answered>>

-----------------------------------------------------------------------------
AlwaysNew(f) == 1
CountedNew(f) == IF ldb[f] = None THEN 1 ELSE 0

AlwaysGone(f) == 1
CountedGone(f) == IF ldb[f] = None THEN 0 ELSE 1

PathKeyOnly(info) == [ldb EXCEPT ![info.path] = None]
Forgotten(info) == [ldb EXCEPT ![info.md5] = None, ![info.path] = None]

PathSaved(info) == [ldb EXCEPT ![info.path] = info]
Saved(info) == [ldb EXCEPT ![info.md5] = info, ![info.path] = info]

(* consumerLog: saveFileMd5Log of a files.md5 or removes.md5 entry counts   *)
(* it, if ldb has not, or has, the md5 by now ...                           *)
CountLog ==
    LET entry == Head(fileLog) IN
    /\ fileLog # <<>> /\ ~ counted
    /\ counted' = TRUE
    /\ count' = IF entry.kind = "files" THEN count + CountedNew(entry.info.md5)
                                       ELSE count - CountedGone(entry.info.md5)
    /\ UNCHANGED <<disk, ldb, logFiles, fileLog, upload, remove, posting, sent,
                   uploads, drawn, answered>>

(* ... and writes logDB and ldb.                                            *)
SaveLog ==
    LET info == Head(fileLog).info IN
    /\ counted
    /\ counted' = FALSE
    /\ fileLog' = Tail(fileLog)
    /\ \/ /\ Head(fileLog).kind = "files"
          /\ logFiles' = logFiles \cup {info.md5}
          /\ ldb' = Saved(info)
       \/ /\ Head(fileLog).kind = "removes"
          /\ logFiles' = logFiles \ {info.md5}
          /\ ldb' = Forgotten(info)
    /\ UNCHANGED <<disk, count, upload, remove, posting, sent, uploads, drawn,
                   answered>>

(* CheckFileExist of a peer: an entry whose file is gone is dropped.        *)
CheckFileExist(f) ==
    /\ Checks
    /\ ldb[f] # None /\ ~ Exists(ldb[f].path)
    /\ ldb' = [ldb EXCEPT ![f] = None]
    /\ UNCHANGED <<disk, logFiles, stat, fileLog, upload, remove, posting, sent,
                   uploads, drawn, answered>>

(* postFileToPeer: the file is looked for, then a peer is asked ...         *)
PostSend(info) ==
    /\ info \in posting
    /\ posting' = posting \ {info}
    /\ sent' = IF Exists(info.path) THEN sent \cup {info} ELSE sent
    /\ UNCHANGED <<store, fileLog, upload, remove, uploads, drawn, answered>>

(* ... and when it answers the FileInfo is saved in ldb (and, with every    *)
(* save in ldb, under files.md5 in logDB); or the post fails.               *)
PostSave(info) ==
    /\ info \in sent
    /\ sent' = sent \ {info}
    /\ \/ /\ ldb' = [ldb EXCEPT ![info.md5] = info]
          /\ logFiles' = logFiles \cup {info.md5}
       \/ UNCHANGED <<ldb, logFiles>>
    /\ UNCHANGED <<disk, stat, fileLog, upload, remove, posting, uploads, drawn,
                   answered>>

-----------------------------------------------------------------------------
UploadStep(u) == \/ UploadWrite(u)
                 \/ UploadSum(u)
                 \/ UploadFinish(u)
                 \/ UploadLog(u)

(* The node's other work: deletes, the log, and what peers ask and answer.  *)
OtherStep ==
    \/ \E d \in Deleter : \/ \E k \in Key : RemoveLookup(d, k)
                          \/ RemoveLog(d)
                          \/ RemoveUnlink(d)
    \/ CountLog \/ SaveLog
    \/ \E f \in File : CheckFileExist(f)
    \/ \E info \in Info : PostSend(info) \/ PostSave(info)

Next ==
    \/ \E u \in Uploader : \/ \E f \in File, n \in Name : UploadStart(u, f, n)
                           \/ UploadStep(u)
    \/ OtherStep

Spec == Init /\ [][Next]_vars

-----------------------------------------------------------------------------
UploadState == [pc : {"idle", "write", "sum", "finish", "log"}, file : File \cup {None},
                name : Path \cup {None}, rename : Path \cup {None},
                path : Path \cup {None}, md5 : File \cup {None}]
RemoveState == [pc : {"idle", "log", "unlink"}, info : Info \cup {None}]

TypeOK ==
    /\ disk \in [Path -> File \cup {None}]
    /\ ldb \in [Key -> Info \cup {None}]
    /\ logFiles \subseteq File
    /\ count \in Int /\ counted \in BOOLEAN
    /\ fileLog \in Seq([kind : {"files", "removes"}, info : Info])
    /\ upload \in [Uploader -> UploadState]
    /\ remove \in [Deleter -> RemoveState]
    /\ posting \subseteq Info /\ sent \subseteq Info
    /\ uploads \in 0..MaxUploads
    /\ drawn \subseteq Unique \ Sums
    /\ answered \subseteq File

Quiet == /\ fileLog = <<>> /\ posting = {} /\ sent = {}
         /\ \A u \in Uploader : upload[u].pc = "idle"
         /\ \A d \in Deleter : remove[d].pc = "idle"

(* The file count of the day, which autoRepair compares, is never below the *)
(* number of files.md5 entries of the day, which repairStatByDate would     *)
(* count, however often a file is uploaded, deleted twice, and checked, but *)
(* while the log consumer is between the two.                               *)
CountNeverBelowLog == ~ counted => count >= Cardinality(logFiles)
=============================================================================
