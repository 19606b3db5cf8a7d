---------------------------- MODULE Replication ----------------------------
(***************************************************************************)
(* How the nodes of one group replicate an uploaded file.                  *)
(*                                                                         *)
(* Every node keeps on disk the files and two LevelDB databases, data.db   *)
(* (ldb, by md5) and log.db (logDB, the day's files.md5, queue.md5 and     *)
(* errors.md5 entries), and in memory three channels: queueToPeers,        *)
(* queueFromPeers and queueFileLog.  An upload writes the file, queues the *)
(* files.md5 log entry and starts a goroutine running postFileToPeer;      *)
(* syncWorker goroutines run postFileToPeer for queueToPeers and           *)
(* downloadFromPeer for queueFromPeers; one goroutine empties              *)
(* queueFileLog into the databases.  A peer answers syncfile_info before   *)
(* it has downloaded anything.  A client's request for a file that a node  *)
(* does not have makes it ask its peers for the path and download the file *)
(* in a goroutine of the request.                                          *)
(*                                                                         *)
(* The model is that of whole files (OffSet = -1) with enable_distinct_file*)
(* on, within one day, of nodes that are not read-only.                    *)
(***************************************************************************)
EXTENDS Naturals, Sequences, FiniteSets

CONSTANTS
    Node,            \* the nodes of the group
    Peers,           \* Peers[n]: the peers list of node n's configuration
    File,            \* the file contents, one per md5
    Uploads,         \* the <<node, content>> pairs that clients may upload
    PostWorker,      \* a node's goroutines that serve queueToPeers
    GetWorker,       \* a node's goroutines that serve queueFromPeers
    Reader,          \* a node's requests for files that it does not have
    RetryCount,      \* retry_count of the configuration
    MaxFaults,       \* bound: requests or replies lost by the network
    MaxCrashes,      \* bound: crashes of a process
    NoInfo           \* "not found" of a LevelDB lookup

(* A FileInfo, as far as replication looks at it: Peers, Retry, and whether *)
(* Md5 is the sum of the content or of the path.                            *)
Info == [peers : Seq(Node), retry : 0..(RetryCount + 1), md5 : {"content", "path"}]

ASSUME FileAssumption == File # {}
ASSUME PeersAssumption == Peers \in [Node -> SUBSET Node]
ASSUME RetryAssumption == RetryCount \in Nat \ {0}
ASSUME BoundAssumption == MaxFaults \in Nat /\ MaxCrashes \in Nat
ASSUME UploadAssumption == Uploads \subseteq Node \X File
ASSUME NoInfoAssumption == NoInfo \notin Info
ASSUME WorkerAssumption == File \cap PostWorker = {} /\ GetWorker \cap Reader = {}

(* The goroutine an upload of f starts is named f. *)
Poster == File \cup PostWorker
Getter == GetWorker \cup Reader

VARIABLES
    alive,       \* alive[n]: the process of n runs
    disk,        \* disk[n]: contents under the store directory
    index,       \* index[n][f]: the ldb value at key md5
    byPath,      \* byPath[n][f]: the ldb value at the hash of f's path
    queueMd5,    \* queueMd5[n][f]: the logDB value at key <day>_queue.md5_<md5>
    errorsMd5,   \* errorsMd5[n]: the md5s with a key <day>_errors.md5_<md5>
    fileLog,     \* fileLog[n]: queueFileLog
    toPeers,     \* toPeers[n]: queueToPeers
    fromPeers,   \* fromPeers[n]: queueFromPeers
    toLoad,      \* toLoad[n]: what loadQueueSendToPeer has still to queue
    post,        \* post[n][t]: the activation of postFileToPeer in goroutine t
    get,         \* get[n][d]: the activation of downloadFromPeer in goroutine d
    faults,      \* lost requests and replies so far
    crashes      \* the nodes that have crashed so far, in that order

stable == <<disk, index, byPath, queueMd5, errorsMd5>>
chans  == <<fileLog, toPeers, fromPeers>>
env    == <<faults, crashes>>
vars   == <<alive, stable, chans, toLoad, post, get, env>>

Contains(p, s) == \E i \in 1..Len(s) : s[i] = p

AddPeerFirst(info, p) == [info EXCEPT !.peers = <<p>> \o @]
AddPeer(info, p) == [info EXCEPT !.peers = Append(@, p)]

SameCounter(info) == info
Retried(info) == [info EXCEPT !.retry = @ + 1]

(* May postFileToPeer queue the FileInfo again?                             *)
MayAlwaysRepost(info) == TRUE
MayRepost(info) == info.retry <= RetryCount

Fresh(n) == [peers |-> <<n>>, retry |-> 0, md5 |-> "content"]
OfPath(n) == [peers |-> <<n>>, retry |-> 0, md5 |-> "path"]

(* The first of the peers that is not n itself, as consumerDownLoad picks. *)
IsSource(src, n, peers) ==
    \E i \in 1..Len(peers) : /\ peers[i] = src
                             /\ src # n
                             /\ \A j \in 1..(i - 1) : peers[j] = n

-----------------------------------------------------------------------------
(* Entries of the channels.  The entry of an upload shares its FileInfo     *)
(* with the goroutine the upload starts: it holds the pointer, not a copy.  *)
Log(kind, f, info) == [kind |-> kind, file |-> f, info |-> info]
Job(f, info)       == [file |-> f, info |-> info]

LogEntry == [kind : {"upload", "files", "queue", "errors"},
             file : File, info : Info]
JobEntry == [file : File, info : Info]

AnyFile == CHOOSE f \in File : TRUE

NewPost(n, f, info, todo) ==
    [pc |-> IF todo = {} THEN "off" ELSE "peer", file |-> f, info |-> info,
     todo |-> todo, to |-> n, result |-> "ok"]
NewGet(n) == [pc |-> "off", file |-> AnyFile, info |-> Fresh(n), src |-> n]

OffPosts(n) == [t \in Poster |->
                   NewPost(n, IF t \in File THEN t ELSE AnyFile, Fresh(n), {})]
OffGets(n)  == [d \in Getter |-> NewGet(n)]

PostState == [pc : {"off", "peer", "send", "reply"}, file : File, info : Info,
              todo : SUBSET Node, to : Node, result : {"ok", "error", "refused"}]
GetState  == [pc : {"off", "found", "lock", "get"}, file : File, info : Info, src : Node]

Init ==
    /\ alive = [n \in Node |-> TRUE]
    /\ disk = [n \in Node |-> {}]
    /\ index = [n \in Node |-> [f \in File |-> NoInfo]]
    /\ byPath = [n \in Node |-> [f \in File |-> NoInfo]]
    /\ queueMd5 = [n \in Node |-> [f \in File |-> NoInfo]]
    /\ errorsMd5 = [n \in Node |-> {}]
    /\ fileLog = [n \in Node |-> <<>>]
    /\ toPeers = [n \in Node |-> <<>>]
    /\ fromPeers = [n \in Node |-> <<>>]
    /\ toLoad = [n \in Node |-> [f \in File |-> NoInfo]]
    /\ post = [n \in Node |-> OffPosts(n)]
    /\ get = [n \in Node |-> OffGets(n)]
    /\ faults = 0
    /\ crashes = <<>>

(* The network loses a request or a reply. *)
Fault == faults < MaxFaults /\ faults' = faults + 1

LogAppend(n, entry) == fileLog' = [fileLog EXCEPT ![n] = Append(@, entry)]
SaveInfo(n, f, info) == index' = [index EXCEPT ![n][f] = info]

-----------------------------------------------------------------------------
(* upload, of a content whose md5 ldb does not have (for one it has, the    *)
(* file just written is removed again and nothing else changes).  Bound: a  *)
(* node handles one upload of a content at a time.                          *)
Upload(n, f) ==
    /\ <<n, f>> \in Uploads
    /\ alive[n]
    /\ post[n][f].pc = "off"
    /\ \A i \in 1..Len(fileLog[n]) :
          fileLog[n][i].kind = "upload" => fileLog[n][i].file # f
    /\ index[n][f] = NoInfo
    /\ disk' = [disk EXCEPT ![n] = @ \cup {f}]
    /\ LogAppend(n, Log("upload", f, Fresh(n)))
    /\ post' = [post EXCEPT ![n][f] = NewPost(n, f, Fresh(n), Peers[n])]
    /\ UNCHANGED <<alive, index, byPath, queueMd5, errorsMd5, toPeers, fromPeers,
                   toLoad, get, env>>

(* consumerPostToPeer: a sync worker takes a FileInfo. *)
PostTake(n, t) ==
    /\ t \in PostWorker
    /\ alive[n]
    /\ post[n][t].pc = "off"
    /\ toPeers[n] # <<>>
    /\ toPeers' = [toPeers EXCEPT ![n] = Tail(@)]
    /\ LET job == Head(toPeers[n])
       IN  post' = [post EXCEPT ![n][t] = NewPost(n, job.file, job.info, Peers[n])]
    /\ UNCHANGED <<alive, stable, fileLog, fromPeers, toLoad, get, env>>

(* The loop of postFileToPeer goes on to its next peer: the end of the loop *)
(* when there is none.                                                       *)
Advance(n, job, p, info) ==
    NewPost(n, job.file, info, job.todo \ {p})

Sending(job, p)      == [job EXCEPT !.pc = "send", !.to = p]
Replied(job, result) == [job EXCEPT !.pc = "reply", !.result = result]

(* The peer p is listed already, or the file is gone: continue. *)
PostSkip(n, t, p) ==
    LET job == post[n][t] IN
    /\ alive[n] /\ job.pc = "peer" /\ p \in job.todo
    /\ Contains(p, job.info.peers) \/ job.file \notin disk[n]
    /\ post' = [post EXCEPT ![n][t] = Advance(n, job, p, job.info)]
    /\ UNCHANGED <<alive, stable, chans, toLoad, get, env>>

(* check_file_exist at p: found in its ldb and on its disk. *)
Answers(p, f) == alive[p] /\ index[p][f] # NoInfo /\ f \in disk[p]

(* The peer has the content: list it and save the FileInfo. *)
PostFound(n, t, p) ==
    LET job == post[n][t] IN
    /\ alive[n] /\ job.pc = "peer" /\ p \in job.todo
    /\ ~ Contains(p, job.info.peers) /\ job.file \in disk[n]
    /\ Answers(p, job.file)
    /\ SaveInfo(n, job.file, AddPeer(job.info, p))
    /\ post' = [post EXCEPT ![n][t] = Advance(n, job, p, AddPeer(job.info, p))]
    /\ UNCHANGED <<alive, disk, byPath, queueMd5, errorsMd5, chans, toLoad, get, env>>

(* The peer does not have it, or does not answer; a peer whose ldb has the  *)
(* md5 but whose disk lost the file drops the entry while it answers.       *)
PostAbsent(n, t, p) ==
    LET job == post[n][t] IN
    /\ alive[n] /\ job.pc = "peer" /\ p \in job.todo
    /\ ~ Contains(p, job.info.peers) /\ job.file \in disk[n]
    /\ \/ /\ ~ Answers(p, job.file)
          /\ UNCHANGED faults
          /\ IF alive[p] /\ job.file \notin disk[p]
             THEN SaveInfo(p, job.file, NoInfo)
             ELSE UNCHANGED index
       \/ Answers(p, job.file) /\ Fault /\ UNCHANGED index
    /\ post' = [post EXCEPT ![n][t] = Sending(job, p)]
    /\ UNCHANGED <<alive, disk, byPath, queueMd5, errorsMd5, chans, toLoad, get, crashes>>

(* POST syncfile_info reaches the peer: SyncFileInfo there logs queue.md5   *)
(* and queues the download before it replies.                               *)
PostDelivered(n, t) ==
    LET job == post[n][t] IN
    /\ alive[n] /\ job.pc = "send"
    /\ alive[job.to]
    /\ LogAppend(job.to, Log("queue", job.file, job.info))
    /\ fromPeers' = [fromPeers EXCEPT ![job.to] = Append(@, Job(job.file, job.info))]
    /\ \/ /\ post' = [post EXCEPT ![n][t] = Replied(job, "ok")]
          /\ UNCHANGED faults
       \/ /\ post' = [post EXCEPT ![n][t] = Replied(job, "error")]
          /\ Fault
    /\ UNCHANGED <<alive, stable, toPeers, toLoad, get, crashes>>

(* The request fails, or what answers is not the peer's handler.  A peer    *)
(* that is down fails every request.                                        *)
PostLost(n, t) ==
    LET job == post[n][t] IN
    /\ alive[n] /\ job.pc = "send"
    /\ \/ /\ post' = [post EXCEPT ![n][t] = Replied(job, "error")]
          /\ Fault \/ (~ alive[job.to] /\ UNCHANGED faults)
       \/ /\ post' = [post EXCEPT ![n][t] = Replied(job, "refused")]
          /\ Fault
    /\ UNCHANGED <<alive, stable, chans, toLoad, get, crashes>>

(* Does the answer begin with http:// ?                                     *)
AnyAnswer(result) == result # "error"
Accepted(result) == result = "ok"

(* An http:// answer: list the peer and save the FileInfo. *)
PostOk(n, t) ==
    LET job == post[n][t] IN
    /\ alive[n] /\ job.pc = "reply" /\ Accepted(job.result)
    /\ SaveInfo(n, job.file, AddPeer(job.info, job.to))
    /\ post' = [post EXCEPT ![n][t] = Advance(n, job, job.to, AddPeer(job.info, job.to))]
    /\ UNCHANGED <<alive, disk, byPath, queueMd5, errorsMd5, chans, toLoad, get, env>>

(* An error: count the retry and queue a copy while the counter allows it;  *)
(* any other answer: no retry.  Both are logged in errors.md5, of which     *)
(* only the md5s are ever read.                                             *)
PostFailed(n, t) ==
    LET job   == post[n][t]
        again == job.result = "error" /\ MayRepost(job.info)
        info  == IF again THEN Retried(job.info) ELSE job.info
    IN
    /\ alive[n] /\ job.pc = "reply" /\ ~ Accepted(job.result)
    /\ IF again
       THEN toPeers' = [toPeers EXCEPT ![n] = Append(@, Job(job.file, info))]
       ELSE UNCHANGED toPeers
    /\ LogAppend(n, Log("errors", job.file, Fresh(n)))
    /\ post' = [post EXCEPT ![n][t] = Advance(n, job, job.to, info)]
    /\ UNCHANGED <<alive, stable, fromPeers, toLoad, get, env>>

-----------------------------------------------------------------------------
(* consumerDownLoad and the guards of downloadFromPeer: the FileInfo is     *)
(* dropped when it names no other node, when its retries are used up, or    *)
(* when the file is there.                                                  *)
GetTake(n, d) ==
    LET job  == Head(fromPeers[n])
        f    == job.file
    IN
    /\ d \in GetWorker
    /\ alive[n] /\ get[n][d].pc = "off" /\ fromPeers[n] # <<>>
    /\ fromPeers' = [fromPeers EXCEPT ![n] = Tail(@)]
    /\ \/ /\ \/ \A src \in Node : ~ IsSource(src, n, job.info.peers)
             \/ job.info.retry >= RetryCount
             \/ f \in disk[n]
          /\ UNCHANGED get
       \/ /\ job.info.retry < RetryCount /\ f \notin disk[n]
          /\ \E src \in Node :
                /\ IsSource(src, n, job.info.peers)
                /\ get' = [get EXCEPT ![n][d] =
                      [pc |-> "lock", file |-> f, src |-> src,
                       info |-> Retried(job.info)]]
    /\ UNCHANGED <<alive, stable, fileLog, toPeers, toLoad, post, env>>

(* downloadNotFound: a client asks for a file that is not there, and a peer *)
(* for what it has under the path: CheckFileExist answers with the entry of *)
(* ldb, or drops it when its file is gone, or makes a FileInfo up for a     *)
(* file without an entry.  The reply to the client is the peer's, a         *)
(* goroutine fetches the file as well.                                      *)
AtPath(p, f) == IF byPath[p][f] = NoInfo THEN OfPath(p) ELSE byPath[p][f]

GetFound(n, d, p, f) ==
    /\ d \in Reader
    /\ alive[n] /\ get[n][d].pc = "off" /\ f \notin disk[n]
    /\ p \in Peers[n] /\ alive[p]
    /\ IF f \in disk[p]
       THEN /\ get' = [get EXCEPT ![n][d] =
                    [pc |-> "found", file |-> f, src |-> p, info |-> AtPath(p, f)]]
            /\ UNCHANGED byPath
       ELSE /\ byPath' = [byPath EXCEPT ![p][f] = NoInfo]
            /\ UNCHANGED get
    /\ UNCHANGED <<alive, disk, index, queueMd5, errorsMd5, chans, toLoad, post, env>>

(* The guards of downloadFromPeer, in the goroutine of the request.         *)
GetStart(n, d) ==
    LET job == get[n][d] IN
    /\ alive[n] /\ job.pc = "found"
    /\ get' = [get EXCEPT ![n][d] =
          IF job.info.retry < RetryCount /\ job.file \notin disk[n]
          THEN [job EXCEPT !.pc = "lock", !.info = Retried(job.info)]
          ELSE NewGet(n)]
    /\ UNCHANGED <<alive, stable, chans, toLoad, post, env>>

(* lockMap.LockKey(fPath), and the GET starts. *)
GetLock(n, d) ==
    /\ alive[n] /\ get[n][d].pc = "lock"
    /\ \A e \in Getter : get[n][e].pc = "get" => get[n][e].file # get[n][d].file
    /\ get' = [get EXCEPT ![n][d] = [@ EXCEPT !.pc = "get"]]
    /\ UNCHANGED <<alive, stable, chans, toLoad, post, env>>

NotRenamed(n, f) == UNCHANGED disk
Renamed(n, f) == disk' = [disk EXCEPT ![n] = @ \cup {f}]

(* The source answers.  A file: rename the temporary file, then log         *)
(* files.md5.  An error page: its size differs, give up.                    *)
GetAnswered(n, d) ==
    LET job == get[n][d] IN
    /\ alive[n] /\ job.pc = "get" /\ alive[job.src]
    /\ IF job.file \in disk[job.src]
       THEN Renamed(n, job.file) /\ LogAppend(n, Log("files", job.file, job.info))
       ELSE UNCHANGED <<disk, fileLog>>
    /\ get' = [get EXCEPT ![n][d] = NewGet(n)]
    /\ UNCHANGED <<alive, index, byPath, queueMd5, errorsMd5, toPeers, fromPeers,
                   toLoad, post, env>>

NotQueued(n, job) == UNCHANGED fromPeers
QueuedAgain(n, job) ==
    fromPeers' = [fromPeers EXCEPT ![n] = Append(@, Job(job.file, job.info))]

(* The transfer fails: queue the FileInfo again. *)
GetFailed(n, d) ==
    LET job == get[n][d] IN
    /\ alive[n] /\ job.pc = "get"
    /\ Fault \/ (~ alive[job.src] /\ UNCHANGED faults)
    /\ QueuedAgain(n, job)
    /\ get' = [get EXCEPT ![n][d] = NewGet(n)]
    /\ UNCHANGED <<alive, stable, fileLog, toPeers, toLoad, post, crashes>>

-----------------------------------------------------------------------------
(* The entries that saveFileMd5Log saves under the md5 in ldb.              *)
AllButErrors(kind) == kind # "errors"
SavedInLdb(kind) == kind \in {"upload", "files"}

(* saveFileMd5Log saves it under its md5 and under the hash of its path,    *)
(* which may be the same key.                                               *)
SaveLogged(n, f, info) ==
    /\ byPath' = [byPath EXCEPT ![n][f] = info]
    /\ IF info.md5 = "content" THEN SaveInfo(n, f, info) ELSE UNCHANGED index

(* consumerLog runs saveFileMd5Log on the next entry.  It marshals the      *)
(* FileInfo as it is by now: for an upload, with the peers its goroutine    *)
(* listed meanwhile.                                                        *)
ConsumeLog(n) ==
    LET entry == Head(fileLog[n])
        f     == entry.file
    IN
    /\ alive[n] /\ fileLog[n] # <<>>
    /\ fileLog' = [fileLog EXCEPT ![n] = Tail(@)]
    /\ \/ /\ SavedInLdb(entry.kind)
          /\ SaveLogged(n, f, IF entry.kind = "upload" THEN post[n][f].info
                                                      ELSE entry.info)
          /\ UNCHANGED <<queueMd5, errorsMd5>>
       \/ /\ entry.kind = "queue"
          /\ queueMd5' = [queueMd5 EXCEPT ![n][f] = entry.info]
          /\ UNCHANGED <<index, byPath, errorsMd5>>
       \/ /\ entry.kind = "errors"
          /\ errorsMd5' = [errorsMd5 EXCEPT ![n] = @ \cup {f}]
          /\ UNCHANGED <<index, byPath, queueMd5>>
    /\ UNCHANGED <<alive, disk, toPeers, fromPeers, toLoad, post, get, env>>

(* checkFileAndSendToPeer(today, errors.md5, false), every refresh_interval:*)
(* one file of its loop.  Bound: the interval is long enough for the log    *)
(* and the entries of the last pass to have been taken from their channels. *)
ResendError(n, f) ==
    LET info == index[n][f] IN
    /\ alive[n] /\ f \in errorsMd5[n] /\ info # NoInfo
    /\ Len(info.peers) <= Cardinality(Peers[n])
    /\ \A i \in 1..Len(toPeers[n]) : toPeers[n][i].file # f
    /\ \A i \in 1..Len(fileLog[n]) : fileLog[n][i].file # f
    /\ toPeers' = [toPeers EXCEPT ![n] =
          Append(@, Job(f, IF Contains(n, info.peers) THEN info ELSE AddPeer(info, n)))]
    /\ UNCHANGED <<alive, stable, fileLog, fromPeers, toLoad, post, get, env>>

(* The process dies: what is in memory is gone. *)
Crash(n) ==
    /\ alive[n] /\ Len(crashes) < MaxCrashes
    /\ crashes' = Append(crashes, n)
    /\ alive' = [alive EXCEPT ![n] = FALSE]
    /\ fileLog' = [fileLog EXCEPT ![n] = <<>>]
    /\ toPeers' = [toPeers EXCEPT ![n] = <<>>]
    /\ fromPeers' = [fromPeers EXCEPT ![n] = <<>>]
    /\ toLoad' = [toLoad EXCEPT ![n] = [f \in File |-> NoInfo]]
    /\ post' = [post EXCEPT ![n] = OffPosts(n)]
    /\ get' = [get EXCEPT ![n] = OffGets(n)]
    /\ UNCHANGED <<stable, faults>>

NothingRecorded(n) == [f \in File |-> NoInfo]
TodaysQueue(n) == queueMd5[n]

(* The process starts; loadQueueSendToPeer reads today's queue.md5 ... *)
Restart(n) ==
    /\ ~ alive[n]
    /\ alive' = [alive EXCEPT ![n] = TRUE]
    /\ toLoad' = [toLoad EXCEPT ![n] = TodaysQueue(n)]
    /\ UNCHANGED <<stable, chans, post, get, env>>

(* ... and queues it for download. *)
LoadQueue(n, f) ==
    /\ alive[n] /\ toLoad[n][f] # NoInfo
    /\ toLoad' = [toLoad EXCEPT ![n][f] = NoInfo]
    /\ fromPeers' = [fromPeers EXCEPT ![n] = Append(@, Job(f, toLoad[n][f]))]
    /\ UNCHANGED <<alive, stable, fileLog, toPeers, post, get, env>>

-----------------------------------------------------------------------------
PostStep(n, t) == \/ PostTake(n, t)
                  \/ \E p \in Node : \/ PostSkip(n, t, p)
                                     \/ PostFound(n, t, p)
                                     \/ PostAbsent(n, t, p)
                  \/ PostDelivered(n, t)
                  \/ PostLost(n, t)
                  \/ PostOk(n, t)
                  \/ PostFailed(n, t)

GetStep(n, d) == \/ GetTake(n, d)
                 \/ GetStart(n, d)
                 \/ GetLock(n, d)
                 \/ GetAnswered(n, d)
                 \/ GetFailed(n, d)

Next == \E n \in Node :
    \/ \E f \in File : Upload(n, f) \/ ResendError(n, f) \/ LoadQueue(n, f)
    \/ \E t \in Poster : PostStep(n, t)
    \/ \E d \in Getter : GetStep(n, d)
    \/ \E d \in Reader, p \in Node, f \in File : GetFound(n, d, p, f)
    \/ ConsumeLog(n)
    \/ Crash(n)
    \/ Restart(n)

Spec == Init /\ [][Next]_vars

(* Goroutines that can run do run, the refresh loop comes round, and a      *)
(* process that died is started again.  No request and no crash is owed,    *)
(* and the network loses at most MaxFaults messages.                            *)
Fairness ==
    \A n \in Node :
        /\ \A t \in Poster : WF_vars(PostStep(n, t))
        /\ \A d \in Getter : WF_vars(GetStep(n, d))
        /\ \A f \in File : WF_vars(ResendError(n, f)) /\ WF_vars(LoadQueue(n, f))
        /\ WF_vars(ConsumeLog(n))
        /\ WF_vars(Restart(n))

FairSpec == Spec /\ Fairness

-----------------------------------------------------------------------------
TypeOK ==
    /\ alive \in [Node -> BOOLEAN]
    /\ disk \in [Node -> SUBSET File]
    /\ index \in [Node -> [File -> Info \cup {NoInfo}]]
    /\ byPath \in [Node -> [File -> Info \cup {NoInfo}]]
    /\ queueMd5 \in [Node -> [File -> Info \cup {NoInfo}]]
    /\ errorsMd5 \in [Node -> SUBSET File]
    /\ fileLog \in [Node -> Seq(LogEntry)]
    /\ toPeers \in [Node -> Seq(JobEntry)]
    /\ fromPeers \in [Node -> Seq(JobEntry)]
    /\ toLoad \in [Node -> [File -> Info \cup {NoInfo}]]
    /\ post \in [Node -> [Poster -> PostState]]
    /\ get \in [Node -> [Getter -> GetState]]
    /\ faults \in 0..MaxFaults
    /\ crashes \in Seq(Node) /\ Len(crashes) <= MaxCrashes

(* A node that answers for an md5 has the file on its disk: ldb is written  *)
(* only behind the rename, the upload's write or a peer's confirmation, in  *)
(* whatever order the log consumer, the post goroutines, crashes and        *)
(* restarts come.                                                           *)
IndexedIsStored ==
    \A n \in Node, f \in File : index[n][f] # NoInfo => f \in disk[n]

(* Every FileInfo that travels or is kept names first a node that has the   *)
(* file, so downloadFromPeer, which asks only the first node of the list    *)
(* that is not itself, never asks one that cannot serve it.                 *)
Holder(info, f) == Len(info.peers) > 0 /\ f \in disk[info.peers[1]]

SourceHoldsFile ==
    \A n \in Node :
        /\ \A i \in 1..Len(toPeers[n]) :
              Holder(toPeers[n][i].info, toPeers[n][i].file)
        /\ \A i \in 1..Len(fromPeers[n]) :
              Holder(fromPeers[n][i].info, fromPeers[n][i].file)
        /\ \A f \in File : queueMd5[n][f] # NoInfo => Holder(queueMd5[n][f], f)
        /\ \A d \in Getter :
              get[n][d].pc # "off" => get[n][d].file \in disk[get[n][d].src]

(* n still means to fetch f: it is queued, being fetched, or to be loaded   *)
(* again from queue.md5.                                                    *)
Fetching(n, f) ==
    \/ \E i \in 1..Len(fromPeers[n]) : fromPeers[n][i].file = f
    \/ \E d \in Getter : get[n][d].pc # "off" /\ get[n][d].file = f
    \/ toLoad[n][f] # NoInfo

(* Peers is "the cluster nodes where the file exists" (en/file.go:12):      *)
(* whoever a node's ldb lists has the file or is fetching it.               *)
ListedPeerHasFile ==
    \A n, p \in Node, f \in File :
        index[n][f] # NoInfo /\ Contains(p, index[n][f].peers)
            => f \in disk[p] \/ Fetching(p, f)

(* Retry is the counter of downloads (en/file.go:16): what syncfile_info    *)
(* records, before the node has tried to download it, has none.             *)
CounterCountsDownloads ==
    \A n \in Node, f \in File : queueMd5[n][f] # NoInfo => queueMd5[n][f].retry = 0

(* What queue.md5 recorded is fetched, also across a restart, as long as    *)
(* the recorded counter leaves more attempts than transfers were lost, and  *)
(* no source died meanwhile (one that is down uses up all attempts).        *)
RecordedDownloadGoesOn ==
    \A n \in Node, f \in File :
        /\ alive[n] /\ queueMd5[n][f] # NoInfo
        /\ \A i \in 1..Len(crashes) : crashes[i] = n
        /\ queueMd5[n][f].retry + faults < RetryCount
        => f \in disk[n] \/ Fetching(n, f)

(* A file that a node indexes reaches every node of the group.              *)
EventuallyReplicated ==
    \A n, m \in Node, f \in File : (index[n][f] # NoInfo) ~> (f \in disk[m])

(* Node by node, the cluster is the abstract replica set.                   *)
Indexed == [n \in Node |-> {f \in File : index[n][f] # NoInfo}]

RS == INSTANCE ReplicaSet WITH stored <- disk, indexed <- Indexed
Refinement == RS!Spec
=============================================================================
