# A TLA+ development of xk-fast-dfs

xk-fast-dfs is a small distributed file system written in Go: every node of a
group accepts uploads over HTTP, keeps the files under its own store directory,
and pushes what it knows about a file (a `FileInfo`: md5, name, path, size,
offset, the peers that have it, a retry counter) to the other nodes of the
group, which fetch the file by HTTP. This directory holds TLA+ modules
translated from that code, TLC configurations that check them on small
instances, and proofs, checked by TLAPS, of what holds for every instance.

    tlc -workers 2 -config ReplicationCrash.cfg MCReplication   # one run
    tlapm ReplicationProofs.tla                                 # one proof module

`PROJECT.json` lists the runs with the module and the configuration of each,
maps every definition to the source lines it stands for, and lists the hazards
the properties were written for.

## 1. The system

### State

| where | what | in the code |
|---|---|---|
| disk | files below `files/`, haystacks `_big/<peer_id>/<100..300>`, `_tmp` for transfers | `STORE_DIR`, `LARGE_DIR` |
| `data.db` (`ldb`) | key md5, or md5 of the path: the `FileInfo` | `SaveFileInfoToLevelDB`, `GetFileInfoFromLevelDB` |
| `log.db` (`logDB`) | keys `<day>_<kind>_<md5>` for the kinds `files.md5`, `queue.md5`, `errors.md5`, `removes.md5`, `downloading_<md5>` | `saveFileMd5Log`, `SaveFileInfoToLevelDB` |
| channels | `queueToPeers`, `queueFromPeers`, `queueFileLog`, `queueUpload`: Go channels of `CONST_QUEUE_SIZE` | `entity.go`, `service-queue.go` |
| `lockMap` | named locks, by path of a download, of a haystack, of a job | `CommonMap` |
| `statMap` | `<day>_fileCount`, `<day>_fileTotalSize` and the total | `saveStat`, `FormatStatInfo` |
| `sumMap`, `sceneMap`, `rtMap`, `searchMap` | day sets of md5s, Google scenes, and the search dictionary | `server.go` |

### Components, operations and how they interact

* **Upload** (`web/handler.go`, `up-down.go`, `service-func.go`). `/upload` puts
  the request on `queueUpload`, a worker of a fixed pool runs `upload`, and the
  handler waits for `Done`. `upload` picks a path, writes the file, computes the
  md5, and either answers with the copy that `ldb` knows and removes the new one,
  or queues a `files.md5` entry and starts a goroutine `postFileToPeer`.
* **Log consumer** (`consumerLog`, `saveFileMd5Log`). One goroutine takes
  `queueFileLog` entry by entry, and alone maintains the statistics; it is not
  the only writer of `ldb`, though: `postFileToPeer`, `CheckFileExist` and the
  md5 check of `checkFileAndSendToPeer` write there as well.
* **Post** (`postFileToPeer`, `consumerPostToPeer`). For each configured peer that
  the `FileInfo` does not list: ask `check_file_exist`, else post
  `syncfile_info`; a success lists the peer and saves the `FileInfo`, a failure
  counts `Retry`, queues a copy and logs `errors.md5`.
* **Download** (`SyncFileInfo`, `consumerDownLoad`, `downloadFromPeer`). The
  peer logs `queue.md5`, queues the `FileInfo`, answers, and fetches the file
  later from the first listed node that is not itself; a failure puts it back.
* **Refresh and restart** (`checkFileAndSendToPeer`, `loadQueueSendToPeer`). A
  loop re-posts today's `errors.md5` files; a start re-queues today's
  `queue.md5` entries for download.
* **Small files** (`saveSmallFile`, `WriteFileByOffSet`, `getSmallFileByURI`).
  Small uploads share a haystack, are named by offset and length, and are copied
  to the same offset elsewhere.
* **Delete** (`RemoveFile`). Removes the file at one node, logs `removes.md5`,
  and the first node asked passes the request on to the others.
* **Automatic repair, Stat, GetMd5sByDate** (`autoRepair`). Nodes compare the
  day's statistics, fetch each other's md5 sets and exchange what is missing.
* **Download on demand** (`Download`, `downloadNotFound`). A request for a file
  that is not there asks the peers for its path, answers with the peer's body, and
  starts a `downloadFromPeer` of its own.
* **Day logs** (`repairStatByDate`, `saveStat`, `formatStatInfo`,
  `cleanLogLevelDBByDate`, `backUpMetaDataByDate`). The day's counts, kept in
  `statMap` and `stat.json`; recount, clean, and dump the day's entries of `logDB`.
* **Resumable uploads** (`initTus`). tusd collects an upload in a `.bin` file; one
  goroutine takes the completed ones and renames each into the store, or drops it
  for a copy that `ldb` knows.
* **Migration** (`repairFileInfoFromFile`). A node walks its store directory and
  posts a `FileInfo` with `OffSet = -2` for every file; peers compare modification
  times, keep newer copies and replace older ones.
* **File watcher** (`watchFilesChange`). One goroutine turns each created file
  into a `FileInfo` and sends its address to a channel; another receives, sends
  back what is younger than three seconds, and queues and saves the rest.
* **Download cleaner, reload, scenes, download tokens, image resizing, pages**:
  see `PROJECT.json`, which lists each with the reason for what is left out.

The components meet in `ldb`, `logDB` and the channels; none of it is under a
transaction, and a lock protects only single steps. What is hard is therefore
the order of steps: a handler decides on a value of `ldb` that the log consumer
has yet to update; a `FileInfo` is shared by pointer between the channel and a
goroutine that changes it; a request is answered before the work it promises is
done or recorded; work that failed goes back into the channel its worker
empties; a crash loses the channels but not the databases.

### What makes each part correct

| part | property | status |
|---|---|---|
| replication | a node that answers for an md5 has the file | checked, proved |
| replication | a `FileInfo` names as source a node that can serve the file | checked, proved |
| replication | what `queue.md5` recorded is fetched, across restarts | checked, proved |
| replication | retries do not multiply; an indexed file reaches all nodes | checked |
| replication | a listed peer has the file, or fetches it | checked without crashes, proved when nobody asks for files on demand either; false after a crash (AutoRepairBlind) |
| repair | the count that repairs compare is that of the files indexed, but for the file in hand, for those saved by a post first, and for one more per crash | checked, proved |
| repair | a round of forced repairs brings what is indexed to all nodes not listed for it | checked, proved for groups of peers that all have a count for the day; false for listed ones (AutoRepairBlind) |
| download cleaner | what was fetched and indexed stays | false after a crash (CleanerRemoves) |
| local store | between requests the index leads to files with the right content | checked, proved, both for a node without peers that draws its own names; false with peers (section 5) |
| local store | what was answered while no delete of it was under way stays until a delete | checked, proved, for a node without peers that draws its own names; false for answers beside a delete (section 5) |
| local store | the day's count never falls below its log, and `stat.json` says the same | checked, proved (the first for a node without peers), but for a disturbed recount and a crash amid a count |
| uploads | an answered upload is stored, and gets indexed | checked for one worker, the first proved, without deletes, for `rename_file` with any number of workers and any client names, and for one worker whose clients choose no names; false otherwise (section 5) |
| uploads | the handler outlives its worker's use of it; every request returns | checked, the first proved |
| resumable uploads | an id leads to content | checked, proved, under the same premises |
| cluster-wide delete | no node asked keeps the file | false (RemoveMisses) |
| file watcher | it never waits for itself; a file no event overtakes is posted and indexed | checked, the first proved, until more events came than the channel holds |
| migration | the newest version reaches all peers, after failures too | checked, proved, when the node that migrates has it; false otherwise (section 5) |
| queues | the watermark is overrun by at most a `FileInfo` per goroutine; the send does not block | checked, proved |
| queues | what is queued is processed | checked for small loads; false above the watermark (section 5) |
| small files | a range read anywhere is the content or nothing | checked, proved |
| small files | whoever knows a small file can give it | checked, proved |

## 2. Modules

    ReplicaSet      what a cluster promises: files are copied only from holders,
       ^            announced only where they are held, and never lost
       | implements
    Replication     upload, post, syncfile_info, download, log, refresh, restart
       ^   ^-- MCReplication       instances for TLC, and the work measure
       |------ AutoRepair          autoRepair and the handlers it calls, beside all
       |          ^   ^            of Replication
       |          |   '-- ReplicationProofs   theorems, of both
       |          '-- MCAutoRepair
       '------ DownloadCleaner     removeDownloading, beside all of Replication
                  ^-- MCDownloadCleaner
    LocalStore      one node: upload, deduplication, delete, log consumer, count
       ^   ^   ^   ^-- LocalStoreProofs   types of the store, for the proofs below
       |   |   '------ DayLog      stat.json, recounts and crashes, beside all of
       |   |              ^  ^     LocalStore
       |   |              |  '-- DayLogProofs   theorems
       |   |              '-- MCLocalStore
       |   '---------- TusUpload   completed tusd uploads
       '-------------- UploadPool  handlers, queueUpload and its workers
                          ^-- NodeStore   both, beside all of LocalStore
                                 ^  ^-- NodeStoreProofs   theorems
                                 '-- MCNodeStore
    RemoveFanout    a delete passed on to the peers
       ^------ MCRemoveFanout
    Watcher         watchFilesChange: two goroutines, one channel, one FileInfo
       ^------ WatcherProofs
    Migration       files with OffSet -2: the walk, posts, and what a peer does
       ^   ^-- MigrationProofs   theorems
       '------ MCMigration
    WorkerQueue     one channel with its watermark and its own workers as producers
       ^------ WorkerQueueProofs
    SmallFile       haystacks, byte by byte, at the node of the upload and elsewhere
       ^   ^-- SmallFileProofs   theorems
       '------ MCSmallFile

### Replication

State of node `n`: `disk[n]` (contents on disk), `index[n]` (`ldb` by md5),
`queueMd5[n]`, `errorsMd5[n]` (the day's entries of `logDB`), the three channels
`fileLog`, `toPeers`, `fromPeers`, what `loadQueueSendToPeer` has still to queue
(`toLoad`), and one record per goroutine: `post[n][t]` for an activation of
`postFileToPeer` (one goroutine per upload, named by its content, and the
workers), `get[n][d]` for one of `downloadFromPeer`.

| action | code |
|---|---|
| Upload | `upload` of a new content |
| PostTake | `consumerPostToPeer` |
| PostSkip, PostFound, PostAbsent | the loop over the peers, the checks and `check_file_exist` (with the removal of a stale entry at the peer) |
| PostDelivered, PostLost | the `syncfile_info` request: the handler at the peer, and what the network does to request and reply |
| PostOk, PostFailed | what the poster does with the reply |
| GetTake, GetLock, GetAnswered, GetFailed | `consumerDownLoad`, the guards of `downloadFromPeer`, its lock, and the ends of the transfer |
| GetFound, GetStart | `downloadNotFound` with `check_file_exist` by path at the peer, and the guards of `downloadFromPeer` in its goroutine |
| ConsumeLog | `consumerLog`, `saveFileMd5Log` |
| ResendError | one file of `checkFileAndSendToPeer` over `errors.md5` |
| Crash, Restart, LoadQueue | loss of memory; the start, and `loadQueueSendToPeer` |

Points of fidelity that matter to the properties: the `files.md5` entry of an
upload holds a pointer to the `FileInfo` that its post goroutine extends, so
`ConsumeLog` saves the peers listed by then, while queued copies are values; the
peer's handler is atomic with the arrival of the request, but the reply is a
step of its own and may be lost after the peer has acted; a peer answers
`syncfile_info` before its log entry reaches `logDB`.

A download on demand (`Reader`: a request) is of the `FileInfo` that the peer has
under the path, with the `Retry` counter saved there, or of one made up for a file
without an entry. Its `Md5` is then the hash of the path, so that the copy is
indexed under that key only (`byPath`, not `index`): a node that has the file may
still owe the index entry, which the queued download, finding the file, does not
bring. `ReplicationLive` has such a request; the theorems hold for any, but for those whose premise says otherwise.

Contents stand for files: a content that a node has under two paths is not told
apart from one that it has under one.

### AutoRepair

Extends `Replication`: each of its steps is one of Replication's (`UploadStep`,
`ReplicationStep`, `SaveLog`, `CrashWithRepair`, `RestartWithStat`, which add
what the step does to the count or to a repair), or one of the repair's, or
`CountLog`. `saveFileMd5Log` takes two steps, as in `LocalStore`: `CountLog` counts
the first entry of the log, if its md5 is new in `ldb`, and rewrites `stat.json`;
`SaveLog` saves it. `counted[n]` is where the consumer is. In between peers read the
count and posts save files, and a crash leaves the count in `stat.json` above what
the databases have (`StatKept`), or `stat.json` half written, so that the day starts
at 0 (`StatTorn`). `uncounted` is history: the files that `ldb` has and the count never
will. A restart always finds a `stat.json`, the very first process having written one
(`server.go:244`). `count[n]` is `<day>_fileCount` of `statMap`; `repair[n]` is the activation of
`autoRepair`, whose `pc` stops before each request it sends: `RepairStat` (`stat`
of the next peer, in any order), `RepairSync` (`sync` with `force=1`, which the
peer passes on to its own peers, where a forced `checkFileAndSendToPeer` is
started: `forced`, `ResendForced`), `RepairDiff` (`get_md5s_by_date`, and the own
`logDB`), `RepairGive` (`receive_md5s`, whose goroutine is `resend`, `Resend`),
`RepairSend` (`appendToQueue` of what only this node has, one by one). Each
request may fail, if the peer is down or the network loses it; all but `stat` and
`get_md5s_by_date` are then simply passed over, as the code ignores their errors.

`begun` is history: the nodes that have begun a forced repair since the last
upload, crash or lost message. A round is over when it holds all nodes and
nothing runs or waits any more (`AtRest`), what `loadQueueSendToPeer` has still to
queue after a restart included.

### DownloadCleaner

Extends `Replication` with the `downloading_` keys that outlived their goroutine
(`left`: the deferred `Delete` does not run when the process dies) and the loop
of `removeDownloading`: `Scan` takes the iterator's snapshot, `RemoveDownloading`
removes one file. The key holds the final path, not that of the temporary file.

### LocalStore

`disk` maps paths to contents, `ldb` maps md5s and paths to `FileInfo`s, and the
handlers are split where they touch shared state: an upload chooses a name
(`UploadChoose`), writes (`UploadWrite`), reads back size and md5 (`UploadSum`),
looks `ldb` up (`UploadFinish`), and waits for room in the log queue
(`UploadLog`); a delete looks up, logs, unlinks. Log entries reach the count in
`CountLog` and then the databases in `SaveLog`. `posting` and `sent` are the post
goroutines, of which only the two moments that touch this node matter here: the
look at the disk, and the saving of the `FileInfo` after the peer answered.
`CheckFileExist` is a peer's request. `Unique` are the names that no client sends:
the md5s of contents (`Sums`), by which resumable uploads are named, and those
that `rename_file` draws. `answered` is history: the contents that a client was told
are there, while no delete of them was under way (`Deleting`: a delete between its
lookup and the consumption of its log entry).

### DayLog

Extends `LocalStore` with `statJson`, the count in `stat.json`, which `saveStat`
rewrites in the step that counts (`StoreStep`); with `repairStatByDate` (`recount`:
the iterator's snapshot, the `Put` into `statMap`, the writing of the file), which
runs beside the log consumer; and with `Crash`, a death and a start in one step,
at which any part of the consumer's writes may be done (`Interrupted`), and a file
that is being rewritten (`Rewriting`) may be left half written. `stale` is history:
a recount was disturbed, or a crash cut a count short, and no undisturbed recount
has come since.

### UploadPool

The POST handler (`handler`): `Receive` saves the body in a file of its own
(`tmp`), `Enqueue` puts the request on `queueUpload`, `Return` waits for `done` and
removes the file. A worker (`job`) takes a request (`TakeUpload`, which is the
start of LocalStore's upload), runs `upload` to its end (`UploadStep`), and sends
`SendDone`.

### TusUpload

The `.bin` files (`bins`), the entries of `ldb` under the ids of tusd (`ids`) and the
one goroutine that reads `handler.CompleteUploads` (`notify`). `Complete` is the end
of an upload as its client sees it; `Notified` computes md5 and new path and looks
for a copy; `Drop`, and `Move` with `NameMoved` and `LogMoved`, are the two ways on.
An upload is named by its md5, unless its client sent a filename (`TusName`) and
`rename_file` is off. The goroutine gives an upload up when the file cannot be summed up
(`SumFails`) or renamed (`MoveFails`): its `.bin` file stays (`left`) and nobody comes
back to it, which `AnsweredGetsIndexed` excepts.

### NodeStore

Both of these on one LocalStore: they share the disk, `ldb`, and the log queue that
both wait for.

### RemoveFanout

One whole file, which every node has. `handler[n]` is a client's request at `n`,
`pass[n][p]` the goroutine that passes it on to `p`; `delUrl` and `err` are the
variables of the handler's frame, which its goroutines close over: `SetUrl` and
`Post` are two steps, and `Post` goes to whatever `delUrl` says by then (or to no
node, if another goroutine is assigning to it). The request that arrives
(`InnerLookup`, `InnerUnlink`) has `inner=1` and is not passed on.

### Watcher

`fileInfo` is the one variable whose address every event sends, so that the channel
`qChan` is only a number of addresses, and what a reader finds is the last event,
or, amid an assignment (`producer = "write"`), one field of the one and another of
the other, or a path made of two words of both (`Torn`). `age` counts ticks since
the file's time stamp, up to the three seconds that the code waits for. `toPeers` is
the number of `FileInfo`s in `queueToPeers`: `appendToQueue` waits for its room
(`PeersTakeIt`) and only then reads the shared `FileInfo`, which other events may
have overwritten by then; a sync worker makes room (`PostTake`).

### Migration

Of one path. `file[n]` is the version a node has and its modification time; a
fetched copy gets the time of the fetch, not that of the original. `Migrate`
queues the `FileInfo` of the node that walks. The `Post...` actions are
`postFileToPeer` for `OffSet = -2`, where neither `check_file_exist` nor `queue.md5`
plays a part, and `GetTake`, `GetLook`, `GetRemove`, `GetLock`, `GetAnswered`,
`GetFails` the branches of `downloadFromPeer` for it: the comparison of times and
the removal of an older copy come before the lock of the path. A worker that finds
its copy newer goes on as a poster. Versions differ in size, so that the test of
the size under the lock is one of the version. `clean` is history: nothing failed
since the last migration, which began when nothing else was going on.

### WorkerQueue

The channel holds retry counters only. `Pass` is the loop that sleeps above the
watermark, `Send` the channel send; both are run by handlers (`SyncFileInfo`,
`loadQueueSendToPeer`) and by the workers whose transfer failed.

### SmallFile

A haystack is a sequence of bytes; the owner's descriptor writes at the end of
the file under a lock (`LockKey` to `Finish`), a failed copy leaves its bytes
behind (`CopyFails`), a replica writes a fetched file at its offset and leaves
holes (`Store`), and a reader gets the range if the file is long enough and the
range begins with `"1"`. The model keeps the content of every byte, since what
the format has to guarantee is exactly that no range is taken for another.

## 3. Runs

| run | properties | what it shows |
|---|---|---|
| ReplicationCrash | TypeOK, IndexedIsStored, SourceHoldsFile, RecordedDownloadGoesOn, Refinement, RetriesDwindle | An upload replicated between two nodes while one message is lost and one process dies and restarts: nobody indexes or is sent to fetch a file that is not there, a recorded download survives the restart, retries never multiply, and the cluster implements ReplicaSet. |
| ReplicationLive | ListedPeerHasFile, EventuallyReplicated | With every retry the counter allows against a lost message, no crash, and a client whose request at the other node fetches the file on demand at any time, an indexed file reaches every node, and nobody is listed as a holder that neither has nor fetches the file. |
| AutoRepairCrash | RepairTypeOK, CountAccounted, OneRoundRepairs | An upload replicated while one process dies, perhaps between the count and the save of a log entry or amid the rewriting of stat.json, and the nodes repairing one after the other, forced or not: the count that is compared differs from what is indexed by the file in hand, by those whose post was answered before they were counted and by what a crash cut off, and by nothing else; and a round of forced repairs brings what is indexed to every node that is not listed as having it. |
| AutoRepairBlind (violated) | RoundReachesAll | A node that dies after it answered syncfile_info and before its log consumer wrote queue.md5 is listed as a holder and has nothing; even a round of forced repairs, which queues the FileInfo again, skips it. |
| CleanerRemoves (violated) | FetchedStays | A downloading_ key that a crash left behind makes the cleaner remove the file that was fetched after the restart, though it is indexed. |
| RemoveMisses (violated) | DeletedEverywhere | A client deletes a file at one of three nodes and no message is lost: the goroutines that pass the request on share one URL and one error variable with the handler, so that a peer is never asked, or the node itself keeps the file. |
| LocalStoreSingle | DayTypeOK, CountTrusted, StatFileIsCount, QuietIndexSurvives, AnsweredIsStored | Two uploads, two deletes, a recount of the day's statistics, a crash and the check_file_exist of peers interleaved at a node that posts nothing: the day's count falls below its log only where a recount is disturbed or a crash cuts a count short, stat.json agrees with it, the index leads to what it names, and a content that was answered while no delete of it was under way is on the disk until somebody deletes it. |
| LocalStoreNumbered | NodeTypeOK, UploadedIsStored, IdLeadsToContent, WorkerHasHandler, AnsweredGetsIndexed, EveryRequestReturns | Two requests through the queue of the upload worker and a resumable upload beside them, which may be given up, with a full log queue and without rename_file: every request returns, no answered content is lost to the numbered names i_<name> or to the removal of duplicates, each gets indexed unless it was given up, and the ids of resumable uploads lead to content. |
| WatcherCreates | TypeOK, NeverStuck, LastIsPosted | Three files are created, new or already old, under a watcher whose channel holds two, before a queue of posts that holds one: up to two events it never waits for itself, and a file whose event none overtakes is posted and indexed as itself. |
| MigrationRepeated | TypeOK, MigrationRepairs | The node with the newest version of a file migrates it three times, also while an earlier migration goes on, with two downloads at a time at the peer and three messages lost or processes dead, perhaps one that has removed its older copy to fetch the newer: a migration that nothing disturbs leaves every peer with the newest. |
| WorkerQueueLoad | TypeOK, OverrunBounded, SmallLoadDrains | A channel of 10, two workers that put failed FileInfos back and a handler that brings more than fits: the watermark is overrun by at most one FileInfo per goroutine, and what fits under it is always settled. |
| SmallFileShared | TypeOK, ReadIsContent, KnownIsFound, AnsweredIsFound | Two uploads at a time into one haystack, its copy at another node filled in any order, a failed write or request and a crash: a reader of any node gets the right bytes or nothing. |

**Bounds.** Two nodes suffice for every pairwise race of a post with a download,
a crash and a log consumer; sources that are not the uploader need a third node,
and are covered by the theorems, which hold for any number. `RetryCount` is at
least 2, so that counters are below, at and above the limit within `MaxFaults`;
`MaxFaults = 1` in ReplicationCrash puts a loss at any request or reply beside a
crash at any step. ReplicationLive needs `RetryCount > MaxFaults`, as the code's
promise does. The runs of AutoRepair, DownloadCleaner and ReplicationCrash have no
download on demand; ReplicationLive has one, at any time, and the theorems any
number. In AutoRepair one node dies, at any point of the replication or of
a repair, and repairs of two nodes do not overlap: every node starts its own
three minutes after its process and then hourly, and a repair takes seconds. No
message is lost there: a failed request ends the round that the property is
about, as a crash does. Its `RetryCount` is 1, with every counter still below,
at and above it. LocalStoreSingle has two uploads and two
deletes at a time, a recount and a crash, in any order: a content is stored,
counted, deleted, counted off and recounted while another is on its way.
LocalStoreNumbered has two requests of one name and a resumable upload, of two
contents, so that a name is taken and a duplicate follows; its channels hold one
each, so that handlers, the worker and the goroutine of resumable uploads all meet
a full one. It has one worker (`upload_worker` 1; the default is eight at least),
since with two and `rename_file` off the promise is false (section 5), and so the
interleavings there are those of the worker with the rest of the node; with
`rename_file` on it holds for any number of workers, which the theorems cover. `MaxNumber` is never reached by
the names that `MaxUploads` can create. WatcherCreates has three files and a channel
of two, so that events come after it was full; its `queueToPeers` holds one
`FileInfo`, so that the second waits for a sync worker. What others than the watcher
queue there is in `toPeers` from the start: nobody else fills it again later. RemoveMisses needs three nodes: with
one peer nobody else assigns `delUrl`. The
queue size 10 is the smallest with a watermark below the capacity (9), and two
workers with one handler can overrun it. MigrationRepeated has two nodes, of
which the second runs two downloads of the path at a time, three migrations that
may overlap, and three failures, any of which may be a crash between the removal
of a copy and the fetch of its successor; fetches fall into up to three
different seconds. A third node would
add what a peer with a newer copy posts to it (section 5). Small files have lengths 1 and
2, so that ranges differ in offset and in length, and three uploads put one
between two others.

**Deadlock** is not checked: a cluster whose bounded clients have sent all they
were going to send stops, in every run.

**Fairness.** Four runs use it: ReplicationLive, LocalStoreNumbered
(`NodeFairness`), WorkerQueueLoad and WatcherCreates. Goroutines that can run are run by the Go
scheduler (weak fairness of each goroutine's next step), the refresh loop
ticks for ever, a process that died is restarted by its operator, and requests
have deadlines, so that a transfer ends one way or another (`Settle` or `Fail`).
Nothing is assumed of clients, crashes or the network but that the network
loses at most `MaxFaults` messages: with unbounded losses the code gives up after
`retry_count` attempts, and the property would be false.

## 4. Proofs

Eight modules hold the theorems; `PROJECT.json` lists those a reader should know of.
Each holds for every value of the constants that the named assumptions of the
modules allow; where a theorem needs more, its statement has the premise. All but a few of the invariants had to be strengthened to be
inductive, and each strengthening was model-checked on the instances of section 3
before it was proved.

### Replication (`ReplicationProofs`)

* `TypeCorrect`: `Spec => []TypeOK`. `TypeOK` is inductive; the part with content
  is `Info`, whose counter never passes `RetryCount + 1`, because `PostFailed`
  counts only behind `MayRepost` and `GetTake` only behind its own limit.
* `IndexCorrect`: `Spec => []IndexedIsStored`. Not inductive, because `ldb` is
  written from `fileLog` and from the post goroutines; `StoredInv` adds that every
  entry of `fileLog` that `saveFileMd5Log` saves under the md5 (`LoggedIsStored`)
  and every running activation of `postFileToPeer` past its check of the disk
  (`PostedIsStored`) is of a file on the node's disk. That every step changes
  disk and index in one of four ways (`StepEffect`) is proved once and used for
  the invariant and for the refinement.
* `ImplementsReplicaSet`: `Spec => Refinement`, with `stored` mapped to `disk` and
  `indexed` to the md5s with an entry in `index`. `Upload` is `Store`,
  `GetAnswered` is `Copy` from the source, the saves are `Index`; the removal of a
  stale entry by `check_file_exist` cannot happen under `StoredInv`, and all else
  stutters.
* `SourceCorrect`: `Spec => []SourceHoldsFile`. A `FileInfo` moves between ten places
  (four tables, three queues, the goroutines of two kinds, and the pointer in an
  upload's log entry), and the property must hold in all of them at once. `AllIn(S)`
  says that every pair of a file and a `FileInfo` in any of them is in the set `S`,
  and `AllKept` that every step keeps `AllIn(S)`, for any `S` that is closed under
  what the code does to a `FileInfo` (`AddPeer`, `Retried`) and that has the ones it
  makes (`Fresh`, of a file that the node stores). This is proved place by place
  (`StepTables`, `StepQueues`, `StepPosts`, `StepGets`, `StepUploads`) and used with
  two sets: here with `Held(disk)`, the pairs whose `FileInfo` names first a node with
  the file, where it matters that peers are appended and never put in front.
* `RecordCorrect`: `Spec => []RecordedDownloadGoesOn`. Not inductive for two reasons:
  the entry of `queue.md5` is written after the `FileInfo` was queued, so that the
  download may have failed by then, and a download in progress may have counted
  further than the record. `RecordInv` therefore speaks of the entries that wait in
  the log as well, and asks (`Chance`) that a download under way has a counter not
  above the record's and the lost transfers together. A dead node (`DeadInv`) has
  crashed, so that the property, which is about a node that no other's crash took
  attempts from, has no more to say of the others.

* `ListedCorrect`: `Undisturbed => (Spec => []ListedPeerHasFile)`. `Undisturbed` is what
  the run assumes too: no crash (a listed node that dies may have recorded nothing,
  AutoRepairBlind), fewer losses than retries (or the download is given up), and no
  download on demand (`Reader = {}`, section 5); and a finite group. A node is listed when it
  accepts `syncfile_info`, and then it fetches unless the counter it got is used up,
  so that what must be bounded is the counter of every `FileInfo` that is posted.
  A lost answer counts; but a download counts without a loss, and its `FileInfo` may be posted, by
  `ResendError`, when its node has failed to post the same file itself. Such a node is
  marked (`Marks(f)`: an `errors.md5` entry, in `logDB`, in the log or due), there are at
  most as many as losses (`MarkTally`), and it lists itself in what it then posts. `TallyInv`
  therefore bounds not the counter but `Cost`, the counter and the marked nodes that are not
  listed together: at most `faults` for what a node posts (`PostTally`, `QueueTally`), at
  most one more for what it downloads (`GetTally`), and in `ldb` either (`IndexTally`). That
  one more is paid when the marked node lists itself. So every accepted `FileInfo` has
  attempts left, and a fetch with attempts left does not end without the file
  (`GetKeepsUnderWay`, shared with `RecordCorrect`).

### Automatic repair (`ReplicationProofs`)

Every step is one of `Replication` (`OfReplication`), or leaves all but the queue of
posts and the count of losses as it is, and what it queues is the `FileInfo` of the
node's `ldb`, with its peers forgotten or not (`RepairEffect`, `Apart`). With
that, `RepairTypeCorrect`, `SourceUnderRepair` and `RepairImplementsReplicaSet` are
the theorems of `Replication` again.

* `CountCorrect`: `RepairSpec => []CountAccounted`. The two bounds on the count are not
  inductive by themselves: `CountInv` adds that a file in hand (`InHand`) is that of an
  entry which is still first in the log (`PlaceInv`; `HeadStays`, since others only
  append) and of a kind that is saved under the md5, so that `SaveLog` indexes what was
  counted, and nothing else, because no `FileInfo` carries the sum of a path
  (`AllIn(OfContent)`, the other use of `AllKept`; `AutoRepair` leaves downloads on demand
  out); that what is `uncounted` is indexed; and that the index never loses an entry
  (`DayGrows`) and is finite. A crash loses at most the one file in hand (`CrashCount`) and
  is one more of its node's (`CrashCounts`). The exceptions in the statement are what the
  code does: `saveStat` before the save, and posts that save without counting.
* `RoundCorrect`: `AllPeers => (RepairSpec /\ Counting => []OneRoundRepairs)`: every node has
  all others as peers, and a count for the day from the start (section 5 says what
  happens without one). `RoundInv` asks nothing before the second node
  begins (`Open`): whatever state the crashes and losses of before have left, a repair starts
  when nothing runs, and one that ended without an error has found every node up (`AliveInv`,
  by which `begun` with a node that is down is still `ToVisit` it). From then on no message is lost, and for every two nodes
  that have begun, what the one's `ldb` has and does not list the other for (`IndexRound`) is there or
  being fetched with attempts left (`Coming`), is about to be posted to it by somebody with
  attempts left (`Sender`) or by the node itself (`OnWay`), or is still to be found out or
  told by one of the two repairs (`Pending`). A `FileInfo` that comes with a download may list
  other nodes than the one it replaces in `ldb`, so that the same is
  asked of every `FileInfo` under way (`QueueRound`, `GetRound`: `ReachedBut`), which holds
  when it is posted because the goroutine goes on to the others (`PostRound`). At rest nothing is coming, on its
  way or pending, and what is left is the property (`RestIndex`).

### Migration (`MigrationProofs`)

For any group, peers lists, copies found on the disks, clocks within `MaxClock`
(`ClockAssumption`), failures and `RetryCount`: `TypeCorrect`, `Spec => []TypeOK`, and
`MigrationCorrect`, `OriginIsNewest => (Spec => []MigrationRepairs)`, whose premise is the
run's: no other node starts with a copy as new as that of the node that migrates.
Without it a peer with a newer copy posts it in the other's name (section 5). Two
invariants lead there. `SafeInv` needs no premise on failures: the node that
migrates is first in every list of peers, so that it is never asked to fetch (`WorkInv`,
`OriginInv`); what is under way has its version, and a time that is no newer than its
(`InfoInv`); and whoever has a copy as new has that version (`CopyInv`). `MigrationInv` is about
the time since the last migration, as long as nothing failed (`clean`): every peer
is still to be posted to, or has the version, or the `FileInfo` is on its way to it with an
attempt left (`Provided`, `OnItsWay`). An older copy that is removed leaves its
download running, and one that is newer can only be a copy of what is posted.

### Small files (`SmallFileProofs`)

`ReadIsContentCorrect`, `KnownIsFoundCorrect` and `AnsweredIsFoundCorrect` come from
one invariant. An upload under the lock owns the end of its haystack: what it has
copied lies behind its own `"1"` (`JobInv`), and no answered range reaches there
(`Before`); answered ranges are in the original and share no byte (`AnsweredInv`,
`Apart`); every `"1"` in a copy begins an answered range that is there in full, also
when the copies are written out of order and leave holes (`CopyInv`), since only
whole downloads of the right length are stored, and never at the owner (`FetchInv`);
what is logged or indexed can be read (`LogInv`). A content is never `"1"`
(`ByteAssumption`): the model gives a small file's bytes the file's name.

### The local store (`LocalStoreProofs`, `DayLogProofs`, `NodeStoreProofs`)

* `LocalStoreProofs!TypeCorrect`, from `StoreInv`: an upload or a delete at a place has
  what it decided on before it came there, and the entry that is counted is the first
  of the log. `DayTypeCorrect` and `NodeTypeCorrect` extend it to the modules beside.
* `StatFileCorrect`: `DaySpec => []StatFileIsCount`. The file has the count except
  between the two writes of a recount, where the recount has it (`FileInv`).
* `CountTrustedCorrect`: at a node without peers, `DaySpec => []CountTrusted`. The count
  covers not the log but the log as it will be when the entry in hand is saved
  (`Pending`), for the count is written first; so must the number in `stat.json`, and
  that of a recount which nothing has disturbed (`CountInv`). `LogInv`, that whatever
  `ldb` has under an md5 is in `logDB`, makes a file that is not counted add no entry.
  The premise `HasPeers = FALSE`, that of the run, is needed: the goroutine of a post
  saves a `FileInfo` without counting it (`service-db.go:305`), and the log consumer
  then takes it for counted.
* `QuietIndexCorrect`: with `rename_file` and no peers (`Renames`), `DaySpec =>
  []QuietIndexSurvives`. A name belongs to the upload that drew it and then to the one
  `FileInfo` that it logs (`OwnInv`, `KnownInv`, `FilesInv`), so that no upload writes
  over, and no delete unlinks, the file of another's entry. What leads nowhere, or is about
  to, has its `removes` entry in the log (`GoneInv`): `Remove` logs before it unlinks. This
  part alone is lost in a crash, which empties the log, and the property asks it only
  of a node that has not crashed. Client-chosen names break the first part and posts the
  second, which is why `Renames` is a premise (section 5).
* `AnsweredIsStoredCorrect`: `Renames => (DaySpec => []AnsweredIsStored)`, on top of the
  invariant of `QuietIndexCorrect`. `AnsweredInv` adds that an answered content has a file and
  that no delete of it, nor the log entry of one, is under way (`Doomed`). An upload removes
  its duplicate only when `ldb` has a copy, and that copy is there, unless it is doomed
  (`CopyIsThere`); and a delete unlinks only what it is about. Without a crash; with one,
  a lost `removes` entry leaves `ldb` leading nowhere.
* `WorkerHasHandlerCorrect`: `NodeSpec => []WorkerHasHandler`, by a request's place: it
  is with its handler, in the queue once, with one worker, or done, and in all but
  the last its handler waits and its body is there (`PlaceInv`).
* `UploadedIsStoredCorrect` and `IdLeadsToContentCorrect`: for any requests, contents, sizes
  of the queues and resumable uploads, under `OwnNames`: nobody deletes, and either
  `rename_file` is on, with any number of workers, any names that clients send for
  resumable uploads and the filename parameter or not; or, with one worker,
  clients choose no names, as in the run.
  Whatever `FileInfo` anybody has recorded or is about to (`Known`: in `ldb`, in the log, with a
  post, under an id, with the goroutine of resumable uploads) leads to its content
  (`StoredInv`); the path of an upload under way is none of theirs and no other upload's,
  so that what it writes, and what it removes as a duplicate, is its own file
  (`OwnPathInv`). With `rename_file` this is so because what is on the disk has a name that
  was drawn before or the md5 of a content (`StartPath`); without it, because the one worker
  looks for a free name alone. A file named by an md5 has that content
  (`MovedInv`), whoever renames over it; and what was answered is recorded, in the log, with
  the goroutine, or given up with its `.bin` file in place
  (`AnsweredInv`, `GivenUpKept`). What `OwnNames` leaves out breaks the property
  (section 5): deletes, and two workers or names that clients choose without `rename_file`.

Four assumptions name what the code's formats give: no md5 is a path, and the absent
value is neither a path nor a `FileInfo` (`KeyAssumption`), no request is the absent one
(`RequestAssumption`), no two contents have one md5 for a name (`SumNameAssumption`), and they are among the names
that the server makes up (`SumsAssumption`; `rename_file` draws others).

### The watcher and the queues (`WatcherProofs`, `WorkerQueueProofs`)

For any files, `Capacity` and `MinAge`: `TypeCorrect`, in which the
bound of the channel is that both senders wait for `Room`; and `NeverStuckCorrect`,
by counting: every address in the channel, in the hands of either goroutine or
sent back stands for an event received (`AddressesAreEvents`), so that as long as
no more came than the channel holds there is room for the one that goes back.

For every queue size, any finite sets of workers and handlers: `TypeCorrect`;
`OverrunCorrect`, `Spec => []OverrunBounded`, where the invariant is inductive because
`Pass` needs `Len(queue) <= Watermark` and at most all goroutines are then sending;
`SendCorrect`, that with at most `QueueSize \div 10` goroutines a send never blocks,
which follows from it.

### What stays with TLC

* Everything under fairness: `EventuallyReplicated`, `EveryRequestReturns`,
  `AnsweredGetsIndexed`, `SmallLoadDrains`, `LastIsPosted`. TLAPS proves neither
  liveness nor `ENABLED`.
* `RetriesDwindle`: its measure is a fold over the goroutines and the queue, of
  which nothing can be proved by induction here.

`RoundReachesAll`, `FetchedStays` and `DeletedEverywhere` do not hold.

## 5. Where the code and what is said of it disagree

Runs that TLC is expected to refute:

* **AutoRepairBlind**: `/repair` is for "同步失败修复" (repair after a failed
  synchronisation, `README_HANDLER.md:140`), and `Peers` is "文件存在的集群节点" (the
  nodes where the file exists, `en/file.go:12`). A node that dies between its
  answer to `syncfile_info` and its log consumer's write of `queue.md5` is listed
  and has nothing. A repair finds the difference and queues the `FileInfo`,
  but `postFileToPeer` skips every listed peer (`service-db.go:248`).
* **CleanerRemoves**: removeDownloading is to clear expired downloads
  (`server.go:174`). A key that a crash left in `ldb` makes it remove the file
  itself, complete and indexed by then, every three minutes from then on.
* **RemoveMisses**: "执行异步, 调用集群所有节点执行删除文件接口" (asynchronously, call
  the interface that deletes the file at all nodes, `handler.go:471`). The goroutines
  assign the handler's one `delUrl` and post to what it says a moment later, so that
  two may ask the same peer and a third is never asked; and they assign the
  handler's one `err`, on which it may end before it deletes its own copy.

Seen while reading, without a run:

* an unforced repair takes two nodes with equal counts for equal, and the count
  misses a file whose post was answered before its log entry was consumed
  (`service-db.go:305` saves the `FileInfo` first, `service-func.go:395` then finds
  it): with `begun` set by unforced repairs as well, `OneRoundRepairs` does not
  hold. `CountAccounted` says by which files the count is too low. It may be too
  high as well: a process that dies between `service-func.go:398` and `401` has
  counted what its databases lack, and counts it again when the file comes back;
* a group whose processes run since yesterday may index files and count none: the
  saves of a post that is answered before its log entry is consumed leave nothing to
  count. Every repair then passes all nodes over, and a peer that was refused stays
  without the file, so that `RoundCorrect` needs `Counting`;
* with requests for files, `ListedPeerHasFile` fails without any crash. It takes four
  nodes: one uploads and posts, another downloads (`Retry` 1), a third gets it from that
  one's `ldb` on demand (`Retry` 2) while it has failed to post the same content itself;
  its refresh loop then posts the `FileInfo` of the download, whose attempts are used up,
  and the receiver, which answers before it looks at the counter (`service-func.go:452`),
  is listed and drops it. `ListedCorrect` has `Reader = {}` among its premises;
* "when file delete,delete from leveldb" (`web/handler.go:273`): a post that a
  peer answers after the delete was consumed saves the `FileInfo` again
  (`QuietIndexSurvives` with `HasPeers = TRUE` does not hold);
* a process that dies amid the count of a delete has `stat.json` say less than
  `log.db`, and one that dies amid the rewriting of it starts the day at 0
  (`server.go:223` logs the error and goes on): both until a `repair_stat`. `stale` is
  what `CountTrusted` excepts;
* a completed resumable upload is renamed (`server.go:514`) over a file of the same
  name, which its client chose, and of the same minute: with `TusName = {x}` and
  `rename_file` off, `UploadedIsStored` does not hold, while ordinary uploads number
  such names (`service-db.go:115`);
* a peer that has a newer copy of a migrated file is to "将最新版本发布到集群" (publish
  the newest version to the cluster, `service-func.go:478`), but posts it as the file
  of the node it heard of it from: that node is listed and skipped, and others
  fetch the older version from it;
* a created file whose event is followed by another within three seconds is never
  posted (`service.go:302`: one `fileInfo` for all events), which may happen to all but
  the last of a directory that is copied in; and when the channel is full, the
  watcher stops for ever (line 327, `NeverStuck` without its premise);
* the `Retry` counter that is saved with a `FileInfo` counts its way to this node: a
  file that came with the last attempt is not fetched on demand from it
  (`service-func.go:452`);
* `upload_queue_size` has no effect: the channel has a fixed 100 (`entity.go:46`);
* a peer whose process runs since yesterday and has counted nothing today has no
  row for the day in its `stat`: other nodes pass it over until it repairs itself
  (`RepairStat`, `count[p] = None`);
* `cleanLogLevelDBByDate` collects the values of the day's entries and deletes them
  as keys (`service-func.go:236`), so that nothing is removed;
* a failed post counts `Retry` of the `FileInfo` that travels, and with it uses up
  the download attempts of the nodes that get it later (`service-db.go`,
  `service-func.go:452`); `CounterCountsDownloads` of `Replication` states the
  reading of `en/file.go:16`;
* an upload with the filename parameter whose name exists is written to
  `i_<name>` but recorded under the name (`service-func.go:120-124`), and two
  uploads can choose the same free name between the test and `os.Create`
  (`service-db.go:115`): without `rename_file`, `UploadedIsStored` holds neither for two
  workers nor with the filename parameter (`CustomNames`), which the premise `OwnNames`
  and the run LocalStoreNumbered leave out;
* an upload answered with a copy that a concurrent delete has unlinked, but whose
  removal from `ldb` is still in the log, removes its own file
  (`service-func.go:118`): `AnsweredIsStored` is about answers that no delete is beside,
  and `OwnNames` has no deletes;
* the sync workers process the download queue (`service.go:189`); above the
  watermark, with every worker putting a failed `FileInfo` back, all wait for a place
  that only they can make (`service-queue.go:13`): without its premise on `items`,
  `SmallLoadDrains` of WorkerQueue does not hold;
* a tusd upload with a custom path is renamed to `files/<scene>/<path>/`
  (`server.go:484`) and recorded under `files/default/<path>/<peer_id>` (line 502);
* two copies of a migrated file of the same time are not newer than one another:
  each node removes its own to fetch the other's (`service-func.go:482`);
* `CheckFilesExist` deletes the whole list it was sent as a key instead of the md5
  that is stale (`handler.go:228`).

## 6. Not modelled

* **Replication between nodes (upload log, postFileToPeer, syncfile_info, downloadFromPeer, queues, restart)** (partly): Whole files with enable_distinct_file on, within one day, nodes that are not read-only; a client's request for a file that is not there fetches it on demand (downloadNotFound). Migrated files (OffSet -2) are in Migration, the forced sync in AutoRepair, small files in SmallFile. Left out: enable_distinct_file off.
* **Local store (upload, deduplication, delete, log consumer, statistics)** (partly): Whole files in one directory and within one day; uploads, deletes, recounts, crashes and peers' requests at one node interleaved. Left out: small files (in SmallFile), enable_distinct_file off, path uploads.
* **Cluster-wide delete (RemoveFile's fan-out)** (partly): The whole fan-out and the requests that it passes on, for one whole file deleted by its md5; the delete's races with uploads at one node are in LocalStore. Left out: small files, which are refused, and the permission checks.
* **Cleaner of interrupted downloads (removeDownloading)** (partly): Beside the whole of Replication, for paths without an underscore and the default empty GO_FASTDFS_DIR; transfers that last longer than ten minutes are left out.
* **File watcher (watchFilesChange)** (partly): Both goroutines, their channel, the FileInfo they share, and the queue of posts with its limit. Left out: a store directory that is a symbolic link, and the watcher's error channel, which is only logged.
* **Automatic repair (autoRepair, Stat, getMd5sByDate exchange)** (partly): The whole of autoRepair with the handlers it calls (stat, sync, get_md5s_by_date, receive_md5s) and the day's count, counted and saved in two steps, beside Replication, for one day; repairs of two nodes do not overlap, and the test of the AutoRepair lock is left out.
* **Statistics, log cleaning and meta-data backup** (partly): The day's count, stat.json, repairStatByDate and what a start reads back are in DayLog; what repairs compare is in AutoRepair. Left out: total sizes, which move with the count, cleanLogLevelDBByDate, which removes nothing (README, section 5), and the backup file, which is output only.
* **Migration of files found on disk (repairFileInfoFromFile)** (partly): One path with a version per node: the FileInfos with OffSet -2 from the walk through postFileToPeer and syncfile_info to the branches of downloadFromPeer. Left out: the walk of the directories, the test of the RepairFileInfoFromFile lock, and the resending from errors.md5.
* **Resumable uploads (initTus)** (partly): The completion handler beside the whole of LocalStore and UploadPool, with rename_file on or off, and with its early ends; the custom path and scene, the callback and tusd itself are left out.
* **Download handler and small-file read** (partly): Download of a file that is not there (downloadNotFound: the peer's answer by path and the fetch in a goroutine of the request) is in Replication, the read of a small file's range in SmallFile. Left out: the permission checks, headers, the proxying of the peer's body and image sizes.
* **Configuration reload and scenes** (not modelled): A reload writes the configuration's pointer, while every package keeps the values it copied at its start and the call that would copy them again is commented out: no state of the models depends on it. peers, retry_count, rename_file and enable_distinct_file are constants.
* **Authentication, download tokens, Google codes** (not modelled): Pure functions of one request; no state of the program depends on them but the scene map.
* **Cluster status check and alarm mails** (not modelled): Network and mail output only; it changes no state.
* **Web pages, image resizing, directory listing, search dictionary, HTTP logging** (not modelled): Presentation and I/O; the search dictionary is read once and only searched.
* **Start-up and shutdown** (partly): What a restart loses and loads again is in Replication (channels, queue.md5) and DayLog (stat.json); directories, signal handling and configuration files are I/O.

## 7. Plan

What would add most next, in this order:

1. **More theorems**: the measure behind `RetriesDwindle`, once inductions over data
   can be proved; what holds of migrations by a node that has not the newest copy.
2. **A day change** beside `Replication` and `DayLog`: `errors.md5` and `queue.md5`
   of yesterday are not looked at again.
3. **Copies of a FileInfo** that share the array of their `Peers`, with four nodes.
4. **enable_distinct_file off**, where the md5 of a `FileInfo` is that of the path.
