----------------------------- MODULE SmallFile -----------------------------
(***************************************************************************)
(* enable_merge_small_file: a node appends small uploads to one of its     *)
(* haystack files and names each by haystack, offset and length; the other *)
(* nodes keep copies of the haystack, into which they write each small     *)
(* file they fetch at its offset, in any order.  A reader is given the     *)
(* bytes of a range if the haystack is long enough and the range begins    *)
(* with "1", the byte written before every small file.                     *)
(*                                                                         *)
(* A haystack is modelled byte by byte, a content being Length[f] bytes f. *)
(* One write call is one step: io.Copy makes one call per byte here, the   *)
(* replica's WriteFileByOffSet one in all.                                 *)
(***************************************************************************)
EXTENDS Naturals, Sequences, FiniteSets

CONSTANTS
    Node,            \* the nodes of the group
    Hay,             \* haystack files: a peer_id and a number of 100..300
    Owner,           \* Owner[h]: the node with the peer_id of h
    File,            \* contents; a content stands for its md5
    Length,          \* Length[f]: the bytes of f
    Uploader,        \* concurrent uploads
    Getter,          \* sync workers of each node
    MaxUploads,      \* bound: uploads of small files
    MaxFaults,       \* bound: failed writes and requests
    MaxCrashes,      \* bound: crashes
    None

ASSUME OwnerAssumption == Owner \in [Hay -> Node]
ASSUME LengthAssumption == Length \in [File -> Nat]
ASSUME BoundAssumption == {MaxUploads, MaxFaults, MaxCrashes} \subseteq Nat
ASSUME ByteAssumption == {"1", "0"} \cap File = {}
ASSUME NoneAssumption == None \notin Uploader \cup File

(* The bytes: of a content, the byte "1", and those of a hole.              *)
Byte == File \cup {"1", "0"}

(* A FileInfo; ReName tells hay, off and size.                              *)
Info == [file : File, hay : Hay, off : Nat, size : Nat]

Content(f) == [i \in 1..Length[f] |-> f]

VARIABLES
    hay,         \* hay[n][h]: the haystack file h on the disk of n
    lock,        \* lock[h]: the upload that holds the key of h at its owner
    up,          \* up[u]: an activation of saveSmallFile
    answered,    \* FileInfos whose URL a client has been given
    fileLog,     \* fileLog[n]: files.md5 entries that wait in queueFileLog
    index,       \* index[n]: FileInfos that n finds by their path in ldb
    offered,     \* offered[n]: FileInfos that n is to download
    get,         \* get[n][d]: a download whose data has arrived
    uploads, faults, crashes

vars == <<hay, lock, up, answered, fileLog, index, offered, get, uploads, faults, crashes>>

known == <<fileLog, index, offered, get>>
env   == <<faults, crashes>>

NoUpload == [pc |-> "idle", file |-> None, hay |-> None, off |-> 0, left |-> 0]
NoGet    == [info |-> None, data |-> <<>>]

Init ==
    /\ hay = [n \in Node |-> [h \in Hay |-> <<>>]]
    /\ lock = [h \in Hay |-> None]
    /\ up = [u \in Uploader |-> NoUpload]
    /\ answered = {}
    /\ fileLog = [n \in Node |-> {}]
    /\ index = [n \in Node |-> {}]
    /\ offered = [n \in Node |-> {}]
    /\ get = [n \in Node |-> [d \in Getter |-> NoGet]]
    /\ uploads = 0 /\ faults = 0 /\ crashes = 0

Fault == faults < MaxFaults /\ faults' = faults + 1

(* ldb has the md5 f at n. *)
Knows(n, f) == \E info \in index[n] : info.file = f

-----------------------------------------------------------------------------
(* saveSmallFile, of a content that ldb did not have: draw a haystack, lock *)
(* its key ...                                                              *)
NotLocked(h) == TRUE
Unlocked(h) == lock[h] = None

Start(u, f, h) ==
    /\ uploads < MaxUploads
    /\ up[u].pc = "idle"
    /\ ~ Knows(Owner[h], f)
    /\ uploads' = uploads + 1
    /\ up' = [up EXCEPT ![u] =
          [pc |-> "lock", file |-> f, hay |-> h, off |-> 0, left |-> Length[f]]]
    /\ UNCHANGED <<hay, lock, answered, known, env>>

LockKey(u) ==
    LET job == up[u] IN
    /\ job.pc = "lock" /\ Unlocked(job.hay)
    /\ lock' = [lock EXCEPT ![job.hay] = u]
    /\ up' = [up EXCEPT ![u].pc = "flag"]
    /\ UNCHANGED <<hay, answered, known, uploads, env>>

(* Under the lock the end of the file is where the descriptor stands.       *)
Written(u, byte) ==
    LET h == up[u].hay IN
    hay' = [hay EXCEPT ![Owner[h]][h] = Append(@, byte)]

(* ... write "1" at its end ...                                             *)
WriteFlag(u) ==
    /\ up[u].pc = "flag"
    /\ Written(u, "1")
    /\ up' = [up EXCEPT ![u].pc = "seek"]
    /\ UNCHANGED <<lock, answered, known, uploads, env>>

(* ... seek the end again: the offset is that of the "1" ...                *)
EndOf(h) == Len(hay[Owner[h]][h])
OffSet(h) == EndOf(h) - 1

SeekEnd(u) ==
    /\ up[u].pc = "seek"
    /\ up' = [up EXCEPT ![u].pc = "copy", ![u].off = OffSet(up[u].hay)]
    /\ UNCHANGED <<hay, lock, answered, known, uploads, env>>

MoreOrNone(job) == job.left >= 0
More(job) == job.left > 0

(* ... copy the content ...                                                 *)
CopyByte(u) ==
    /\ up[u].pc = "copy" /\ More(up[u])
    /\ Written(u, up[u].file)
    /\ up' = [up EXCEPT ![u].left = @ - 1]
    /\ UNCHANGED <<lock, answered, known, uploads, env>>

Released(h) == lock' = [lock EXCEPT ![h] = None]

(* ... or fail to: the upload ends without an answer, what was written      *)
(* stays ...                                                                *)
CopyFails(u) ==
    /\ up[u].pc \in {"flag", "copy"}
    /\ Fault
    /\ Released(up[u].hay)
    /\ up' = [up EXCEPT ![u] = NoUpload]
    /\ UNCHANGED <<hay, answered, known, uploads, crashes>>

(* ... and unlock; upload then logs files.md5, offers the file to the peers *)
(* and answers.  Whether an offer arrives is Replication's matter.          *)
Finish(u) ==
    LET job  == up[u]
        n    == Owner[job.hay]
        info == [file |-> job.file, hay |-> job.hay, off |-> job.off,
                 size |-> Length[job.file] + 1]
    IN
    /\ job.pc = "copy" /\ job.left = 0
    /\ Released(job.hay)
    /\ answered' = answered \cup {info}
    /\ fileLog' = [fileLog EXCEPT ![n] = @ \cup {info}]
    /\ \E to \in SUBSET (Node \ {n}) :
          offered' = [m \in Node |-> IF m \in to THEN offered[m] \cup {info}
                                                 ELSE offered[m]]
    /\ up' = [up EXCEPT ![u] = NoUpload]
    /\ UNCHANGED <<hay, index, get, uploads, env>>

(* consumerLog: saved in ldb under the md5 and under the path.              *)
Consume(n, info) ==
    /\ info \in fileLog[n]
    /\ fileLog' = [fileLog EXCEPT ![n] = @ \ {info}]
    /\ index' = [index EXCEPT ![n] = @ \cup {info}]
    /\ UNCHANGED <<hay, lock, up, answered, offered, get, uploads, env>>

-----------------------------------------------------------------------------
(* getSmallFileByURI and downloadSmallFileByURI at n: what a reader of the  *)
(* name of info is given, or nothing.                                       *)
LongEnough(s, info) == Len(s) >= info.off + info.size

Found(n, info) == LET s == hay[n][info.hay] IN
    /\ LongEnough(s, info)
    /\ info.size > 0
    /\ s[info.off + 1] = "1"

Read(n, info) ==
    SubSeq(hay[n][info.hay], info.off + 2, info.off + info.size)

(* downloadFromPeer of a small file: dropped when ldb has its md5; else     *)
(* asked of a node, whose answer may be an error page of another length.    *)
Ask(n, d, info, src) ==
    /\ info \in offered[n] /\ get[n][d].info = None
    /\ offered' = [offered EXCEPT ![n] = @ \ {info}]
    /\ \/ /\ Knows(n, info.file)
          /\ UNCHANGED <<get, faults>>
       \/ /\ ~ Knows(n, info.file) /\ Found(src, info)
          /\ get' = [get EXCEPT ![n][d] = [info |-> info, data |-> Read(src, info)]]
          /\ UNCHANGED faults
       \/ /\ ~ Knows(n, info.file) /\ Fault
          /\ get' = [get EXCEPT ![n][d] = [info |-> info, data |-> <<>>]]
    /\ UNCHANGED <<hay, lock, up, answered, fileLog, index, uploads, crashes>>

(* WriteFileByOffSet: a hole is left before the offset if need be.          *)
WrittenAt(s, off, data) ==
    [i \in 1..(IF Len(s) > off + Len(data) THEN Len(s) ELSE off + Len(data)) |->
        IF i \in (off + 1)..(off + Len(data)) THEN data[i - off]
        ELSE IF i <= Len(s) THEN s[i] ELSE "0"]

AnyLength(data, info) == TRUE
RightLength(data, info) == Len(data) = info.size

Unflagged(data) == <<"0">> \o data
Flagged(data) == <<"1">> \o data

(* ... the answer gets its "1" back and, if its length is that of the       *)
(* FileInfo, is written at the offset, then logged.                         *)
Store(n, d) ==
    LET info == get[n][d].info
        data == Flagged(get[n][d].data)
    IN
    /\ info # None
    /\ get' = [get EXCEPT ![n][d] = NoGet]
    /\ \/ /\ RightLength(data, info)
          /\ hay' = [hay EXCEPT ![n][info.hay] = WrittenAt(@, info.off, data)]
          /\ fileLog' = [fileLog EXCEPT ![n] = @ \cup {info}]
       \/ /\ ~ RightLength(data, info)
          /\ UNCHANGED <<hay, fileLog>>
    /\ UNCHANGED <<lock, up, answered, index, offered, uploads, env>>

(* downloadNotFound: a reader that gets nothing makes n look the path up at *)
(* its peers, and download the file from one that knows it.                 *)
Missed(n, info) ==
    /\ info \in answered /\ ~ Found(n, info)
    /\ \E p \in Node \ {n} : info \in index[p]
    /\ info \notin offered[n]
    /\ offered' = [offered EXCEPT ![n] = @ \cup {info}]
    /\ UNCHANGED <<hay, lock, up, answered, fileLog, index, get, uploads, env>>

(* The process of n dies; queue.md5 keeps what it was to download.          *)
Crash(n) ==
    /\ crashes < MaxCrashes
    /\ crashes' = crashes + 1
    /\ up' = [u \in Uploader |->
                 IF up[u].pc # "idle" /\ Owner[up[u].hay] = n THEN NoUpload ELSE up[u]]
    /\ lock' = [h \in Hay |-> IF Owner[h] = n THEN None ELSE lock[h]]
    /\ fileLog' = [fileLog EXCEPT ![n] = {}]
    /\ get' = [get EXCEPT ![n] = [d \in Getter |-> NoGet]]
    /\ UNCHANGED <<hay, answered, index, offered, uploads, faults>>

Next ==
    \/ \E u \in Uploader : \/ \E f \in File, h \in Hay : Start(u, f, h)
                           \/ LockKey(u)
                           \/ WriteFlag(u)
                           \/ SeekEnd(u)
                           \/ CopyByte(u)
                           \/ CopyFails(u)
                           \/ Finish(u)
    \/ \E n \in Node : \/ \E info \in answered : Consume(n, info) \/ Missed(n, info)
                       \/ \E d \in Getter : Store(n, d)
                       \/ \E d \in Getter, info \in answered, src \in Node :
                             Ask(n, d, info, src)
                       \/ Crash(n)

Spec == Init /\ [][Next]_vars

-----------------------------------------------------------------------------
UploadState == [pc : {"idle", "lock", "flag", "seek", "copy"}, file : File \cup {None},
                hay : Hay \cup {None}, off : Nat, left : Nat]
GetState == [info : Info \cup {None}, data : Seq(Byte)]

TypeOK ==
    /\ hay \in [Node -> [Hay -> Seq(Byte)]]
    /\ lock \in [Hay -> Uploader \cup {None}]
    /\ up \in [Uploader -> UploadState]
    /\ answered \subseteq Info
    /\ fileLog \in [Node -> SUBSET answered]
    /\ index \in [Node -> SUBSET answered]
    /\ offered \in [Node -> SUBSET answered]
    /\ get \in [Node -> [Getter -> GetState]]
    /\ uploads \in 0..MaxUploads /\ faults \in 0..MaxFaults /\ crashes \in 0..MaxCrashes

(* Whoever asks any node for the name that an upload was answered with gets *)
(* that content or nothing, never bytes of a neighbour, of a hole or of an  *)
(* upload that failed half-way.                                             *)
ReadIsContent ==
    \A n \in Node, info \in answered :
        Found(n, info) => Read(n, info) = Content(info.file)

(* check_file_exist answers for a small file without a look at the          *)
(* haystack, and downloadFromPeer takes ldb's word for it: what a node      *)
(* knows, it can give to a reader.                                          *)
KnownIsFound ==
    \A n \in Node : \A info \in index[n] : Found(n, info)

(* The node of the upload can give what it answered, whatever is appended   *)
(* later, fails or crashes.                                                 *)
AnsweredIsFound ==
    \A info \in answered : Found(Owner[info.hay], info)
=============================================================================
