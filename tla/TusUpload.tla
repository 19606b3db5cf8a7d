----------------------------- MODULE TusUpload -----------------------------
(***************************************************************************)
(* Resumable uploads (tusd) beside the node's store: tusd collects an      *)
(* upload in a .bin file of its own, and one goroutine takes the completed *)
(* ones and moves each to the directory of ordinary uploads, or drops it   *)
(* when ldb leads to a copy.                                               *)
(*                                                                         *)
(* The model is that of clients that send neither scene nor path.  Names   *)
(* have no extensions.                                                     *)
(***************************************************************************)
EXTENDS LocalStore

CONSTANTS
    TusId,       \* ids of tusd, one per upload
    TusName,     \* what clients send as filename: a name, or None for nothing
    SumName      \* SumName[f]: the md5 of f as a file name

ASSUME TusNameAssumption == TusName \subseteq Name \cup {None}
(* Contents are told apart by their md5. *)
ASSUME SumNameAssumption == /\ SumName \in [File -> Sums]
                            /\ \A f, g \in File : SumName[f] = SumName[g] => f = g

VARIABLES
    bins,        \* bins[i]: the .bin file of the completed upload i
    ids,         \* ids[i]: the FileInfo in ldb under the id
    notify,      \* the goroutine of handler.CompleteUploads
    left         \* the uploads that it gave up: their .bin files stay

tus == <<bins, ids, notify, left>>

NoBin    == [file |-> None, name |-> None]
NoNotify == [pc |-> "idle", id |-> None, info |-> None]

TusInit == /\ Init
           /\ bins = [i \in TusId |-> NoBin]
           /\ ids = [i \in TusId |-> None]
           /\ notify = NoNotify
           /\ left = {}

(* The last PATCH of an upload is answered, and its info is on its way to   *)
(* the channel CompleteUploads.                                             *)
Complete(i, f, n) ==
    /\ uploads < MaxUploads
    /\ bins[i] = NoBin /\ ids[i] = None /\ notify.id # i
    /\ uploads' = uploads + 1
    /\ bins' = [bins EXCEPT ![i] = [file |-> f, name |-> n]]
    /\ Answer(f)
    /\ UNCHANGED <<store, fileLog, upload, remove, posting, sent, drawn, ids, notify,
                   left>>

(* The goroutine takes an upload, in any order, sums it up and looks for a  *)
(* copy.  The new place is the directory of the minute and the client's     *)
(* name, or the md5 (always with rename_file), whether a file of that name  *)
(* is there or not.                                                         *)
NewName(i) == IF RenameFile \/ bins[i].name = None THEN SumName[bins[i].file]
                                                  ELSE bins[i].name
Moved(i) == [md5 |-> bins[i].file, path |-> <<0, NewName(i)>>]
Copy(i) == ldb[bins[i].file]
IsCopied(i) == Copy(i) # None /\ Exists(Copy(i).path)

Notified(i) ==
    /\ notify.pc = "idle"
    /\ bins[i] # NoBin /\ i \notin left
    /\ notify' =
          IF IsCopied(i)
          THEN [pc |-> "drop", id |-> i, info |-> Copy(i)]
          ELSE [pc |-> "move", id |-> i, info |-> Moved(i)]
    /\ UNCHANGED <<vars, bins, ids, left>>

(* Or the file cannot be summed up, and nobody takes the upload again.      *)
SumFails(i) ==
    /\ notify.pc = "idle"
    /\ bins[i] # NoBin /\ i \notin left
    /\ left' = left \cup {i}
    /\ UNCHANGED <<vars, bins, ids, notify>>

(* A save in ldb is doubled under files.md5 in logDB.                       *)
SaveId == /\ ids' = [ids EXCEPT ![notify.id] = notify.info]
          /\ logFiles' = logFiles \cup {notify.info.md5}

(* The id gets the FileInfo of the copy, and the .bin file goes.            *)
Drop ==
    /\ notify.pc = "drop"
    /\ SaveId
    /\ bins' = [bins EXCEPT ![notify.id] = NoBin]
    /\ notify' = NoNotify
    /\ UNCHANGED <<disk, ldb, stat, fileLog, upload, remove, posting, sent,
                   uploads, drawn, answered, left>>

(* os.Rename to the new place ...                                           *)
Move ==
    /\ notify.pc = "move"
    /\ disk' = [disk EXCEPT ![notify.info.path] = bins[notify.id].file]
    /\ bins' = [bins EXCEPT ![notify.id] = NoBin]
    /\ notify' = [notify EXCEPT !.pc = "id"]
    /\ UNCHANGED <<ldb, logFiles, stat, fileLog, upload, remove, posting, sent,
                   uploads, drawn, answered, ids, left>>

(* ... or not, and the upload is given up ...                               *)
MoveFails ==
    /\ notify.pc = "move"
    /\ left' = left \cup {notify.id}
    /\ notify' = NoNotify
    /\ UNCHANGED <<vars, bins, ids>>

(* ... the id ...                                                           *)
NameMoved ==
    /\ notify.pc = "id"
    /\ SaveId
    /\ notify' = [notify EXCEPT !.pc = "log"]
    /\ UNCHANGED <<disk, ldb, stat, fileLog, upload, remove, posting, sent,
                   uploads, drawn, answered, bins, left>>

(* ... the log entry, as soon as there is room, and the post.               *)
LogMoved ==
    /\ notify.pc = "log"
    /\ SaveFileMd5Log("files", notify.info)
    /\ posting' = IF HasPeers THEN posting \cup {notify.info} ELSE posting
    /\ notify' = NoNotify
    /\ UNCHANGED <<store, upload, remove, sent, uploads, drawn, answered, bins, ids, left>>

NotifyStep == \/ \E i \in TusId : Notified(i) \/ SumFails(i)
              \/ Drop
              \/ Move \/ MoveFails \/ NameMoved \/ LogMoved

TusStep == \/ \E i \in TusId, f \in File, n \in TusName : Complete(i, f, n)
           \/ NotifyStep

-----------------------------------------------------------------------------
TusTypeOK ==
    /\ bins \in [TusId -> [file : File \cup {None}, name : Name \cup {None}]]
    /\ ids \in [TusId -> Info \cup {None}]
    /\ notify \in [pc : {"idle", "drop", "move", "id", "log"}, id : TusId \cup {None},
                   info : Info \cup {None}]
    /\ left \subseteq TusId

(* What a client was told is uploaded, one way or the other, is on the disk *)
(* until somebody deletes it: README.md:92, "receives the uploaded data and *)
(* stores it locally".                                                      *)
UploadedIsStored ==
    \A f \in answered : \/ \E p \in Path : disk[p] = f
                        \/ \E i \in TusId : bins[i].file = f

(* The id of a resumable upload, under which its client reads it, leads to  *)
(* a file with some content that was uploaded, its own or the copy it was   *)
(* dropped for, which the uploads that follow leave alone.                  *)
IdLeadsToContent ==
    \A i \in TusId : ids[i] # None => disk[ids[i].path] = ids[i].md5

(* An answered content is indexed in the end, unless somebody deletes it,   *)
(* or the goroutine of resumable uploads gave it up.                        *)
AnsweredGetsIndexed ==
    \A f \in File : (f \in answered) ~>
        \/ ldb[f] # None
        \/ f \notin answered
        \/ \E i \in left : bins[i].file = f
=============================================================================
