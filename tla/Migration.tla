----------------------------- MODULE Migration -----------------------------
(***************************************************************************)
(* Migration: a node walks its store directory and sends the FileInfo of   *)
(* every file, with OffSet = -2 and the file's modification time, to its   *)
(* peers.  A peer that has the path compares times: it keeps a newer copy  *)
(* and posts it, and removes an older one before it fetches the node's.    *)
(*                                                                         *)
(* The model is that of one path, under which every node may have a        *)
(* version of its own, all of different sizes, and of the time between two *)
(* refreshes of errors.md5.  Nodes' clocks agree.                          *)
(***************************************************************************)
EXTENDS Naturals, Sequences, FiniteSets

CONSTANTS
    Node,
    Peers,           \* Peers[n]: the peers list of node n's configuration
    Origin,          \* the node that migrates
    Copies,          \* Copies[n]: when n's own version was written, 0: no file
    PostWorker,      \* a node's goroutines that serve queueToPeers
    GetWorker,       \* a node's goroutines that serve queueFromPeers
    RetryCount,      \* retry_count of the configuration
    MaxMigrations,   \* bound: migrations
    MaxFailures,     \* bound: crashes, and requests or replies that are lost
    MaxClock         \* bound: downloads at different seconds, see Now

ASSUME PeersAssumption == Peers \in [Node -> SUBSET Node]
ASSUME OriginAssumption == Origin \in Node
ASSUME CopiesAssumption == Copies \in [Node -> Nat]
ASSUME RetryAssumption == RetryCount \in Nat \ {0}
ASSUME BoundAssumption ==
    {MaxMigrations, MaxFailures, MaxClock} \subseteq Nat
ASSUME WorkerAssumption == PostWorker \cap GetWorker = {}

VARIABLES
    alive,       \* alive[n]: the process of n runs
    file,        \* file[n]: the file at the path, its version and its time
    toPeers,     \* toPeers[n]: queueToPeers
    fromPeers,   \* fromPeers[n]: queueFromPeers
    work,        \* work[n][t]: what goroutine t does
    clock,       \* the time
    failures,    \* crashes, lost requests and replies so far
    migrations,  \* migrations so far
    clean        \* history: nothing failed since the last migration, which
                 \* began when nothing was going on

chans == <<toPeers, fromPeers>>
vars  == <<alive, file, chans, work, clock, failures, migrations, clean>>

(* A version is named by the time it was written at its first node.         *)
Version == {Copies[n] : n \in Node} \ {0}

(* Somebody has a file, and the clock goes beyond the newest.               *)
ASSUME ClockAssumption ==
    \E v \in Version : v < MaxClock /\ \A w \in Version : w <= v

Newest  == CHOOSE v \in Version : \A w \in Version : w <= v
NoFile  == [version |-> 0, time |-> 0]
Has(n)  == file[n] # NoFile

(* The FileInfo: the version it is of, which stands for its size; the time  *)
(* it claims; the peers, of which the first is always the node that         *)
(* migrates, and so the one that everybody else fetches from.               *)
Info == [version : Version, time : 1..MaxClock, listed : SUBSET Node,
         retry : 0..(RetryCount + 1)]

Thread == PostWorker \cup GetWorker
Off    == [pc |-> "off", info |-> [version |-> Newest, time |-> Newest,
                                   listed |-> {Origin}, retry |-> 0], todo |-> {}]

Init ==
    /\ alive = [n \in Node |-> TRUE]
    /\ file = [n \in Node |-> [version |-> Copies[n], time |-> Copies[n]]]
    /\ toPeers = [n \in Node |-> <<>>]
    /\ fromPeers = [n \in Node |-> <<>>]
    /\ work = [n \in Node |-> [t \in Thread |-> Off]]
    /\ clock = Newest + 1
    /\ failures = 0 /\ migrations = 0
    /\ clean = FALSE

Doing(n, t, pc) == alive[n] /\ work[n][t].pc = pc
Step(n, t, to)  == work' = [work EXCEPT ![n][t] = to]
GoOn(n, t, pc)  == work' = [work EXCEPT ![n][t].pc = pc]

Failure == /\ failures < MaxFailures
           /\ failures' = failures + 1
           /\ clean' = FALSE

(* The network loses a request or a reply, or the peer is down.             *)
Fails(p) == \/ Failure
            \/ ~ alive[p] /\ UNCHANGED <<failures, clean>>

Quiet == \A n \in Node : /\ alive[n] /\ toPeers[n] = <<>> /\ fromPeers[n] = <<>>
                         /\ \A t \in Thread : work[n][t].pc = "off"

-----------------------------------------------------------------------------
(* repairFileInfoFromFile: a FileInfo that lists the node alone is queued.  *)
Migrate ==
    /\ alive[Origin] /\ Has(Origin) /\ migrations < MaxMigrations
    /\ migrations' = migrations + 1
    /\ toPeers' = [toPeers EXCEPT ![Origin] = Append(@,
          [version |-> file[Origin].version, time |-> file[Origin].time,
           listed |-> {Origin}, retry |-> 0])]
    /\ clean' = Quiet
    /\ UNCHANGED <<alive, file, fromPeers, work, clock, failures>>

(* A post worker takes a FileInfo and begins with its peers.                *)
Posting(n, info) == [pc |-> "post", info |-> info, todo |-> Peers[n]]

PostTake(n, t) ==
    /\ t \in PostWorker /\ Doing(n, t, "off") /\ toPeers[n] # <<>>
    /\ toPeers' = [toPeers EXCEPT ![n] = Tail(@)]
    /\ Step(n, t, Posting(n, Head(toPeers[n])))
    /\ UNCHANGED <<alive, file, fromPeers, clock, failures, migrations, clean>>

PostEnd(n, t) ==
    /\ Doing(n, t, "post") /\ work[n][t].todo = {}
    /\ Step(n, t, Off)
    /\ UNCHANGED <<alive, file, chans, clock, failures, migrations, clean>>

Listed(info, p) == p \in info.listed

Done(job, p, info) == [job EXCEPT !.todo = @ \ {p}, !.info = info]

PostSkip(n, t, p) ==
    LET job == work[n][t] IN
    /\ Doing(n, t, "post") /\ p \in job.todo
    /\ Listed(job.info, p) \/ ~ Has(n)
    /\ Step(n, t, Done(job, p, job.info))
    /\ UNCHANGED <<alive, file, chans, clock, failures, migrations, clean>>

(* syncfile_info of a migrated file, which no check_file_exist precedes:    *)
(* the peer queues it for download, and answers.                            *)
PostDone(n, t, p) ==
    LET job == work[n][t] IN
    /\ Doing(n, t, "post") /\ p \in job.todo
    /\ ~ Listed(job.info, p) /\ Has(n)
    /\ alive[p]
    /\ fromPeers' = [fromPeers EXCEPT ![p] = Append(@, job.info)]
    /\ Step(n, t, Done(job, p, [job.info EXCEPT !.listed = @ \cup {p}]))
    /\ UNCHANGED <<alive, file, toPeers, clock, failures, migrations, clean>>

AlwaysRepost(info) == TRUE
MayRepost(info) == info.retry <= RetryCount

(* The request is lost, or its reply after the peer has queued the file.    *)
PostFails(n, t, p) ==
    LET job   == work[n][t]
        again == MayRepost(job.info)
        info  == IF again THEN [job.info EXCEPT !.retry = @ + 1] ELSE job.info
    IN
    /\ Doing(n, t, "post") /\ p \in job.todo
    /\ ~ Listed(job.info, p) /\ Has(n)
    /\ Fails(p)
    /\ \/ UNCHANGED fromPeers
       \/ alive[p] /\ fromPeers' = [fromPeers EXCEPT ![p] = Append(@, job.info)]
    /\ toPeers' = IF again THEN [toPeers EXCEPT ![n] = Append(@, info)] ELSE toPeers
    /\ Step(n, t, Done(job, p, info))
    /\ UNCHANGED <<alive, file, clock, migrations>>

(* What answers is not the peer's handler: no retry.                        *)
PostRefused(n, t, p) ==
    LET job == work[n][t] IN
    /\ Doing(n, t, "post") /\ p \in job.todo
    /\ ~ Listed(job.info, p) /\ Has(n)
    /\ Failure
    /\ Step(n, t, Done(job, p, job.info))
    /\ UNCHANGED <<alive, file, chans, clock, migrations>>

-----------------------------------------------------------------------------
(* consumerDownLoad, and the counter of downloadFromPeer.                   *)
GetTake(n, t) ==
    LET info == Head(fromPeers[n]) IN
    /\ t \in GetWorker /\ Doing(n, t, "off") /\ fromPeers[n] # <<>>
    /\ fromPeers' = [fromPeers EXCEPT ![n] = Tail(@)]
    /\ Step(n, t, IF info.retry >= RetryCount THEN Off
                  ELSE [pc |-> "look", info |-> [info EXCEPT !.retry = @ + 1],
                        todo |-> {}])
    /\ UNCHANGED <<alive, file, toPeers, clock, failures, migrations, clean>>

IsOlder(n, info) == file[n].time < info.time
Newer(n, info) == file[n].time > info.time

(* A newer copy is kept, and posted with its time (and nothing else) put    *)
(* into the FileInfo; an older one is to be removed.                        *)
GetLook(n, t) ==
    LET job == work[n][t] IN
    /\ Doing(n, t, "look")
    /\ \/ ~ Has(n) /\ GoOn(n, t, "lock")
       \/ /\ Has(n) /\ Newer(n, job.info)
          /\ Step(n, t, Posting(n, [job.info EXCEPT !.time = file[n].time]))
       \/ Has(n) /\ ~ Newer(n, job.info) /\ GoOn(n, t, "remove")
    /\ UNCHANGED <<alive, file, chans, clock, failures, migrations, clean>>

GetRemove(n, t) ==
    /\ Doing(n, t, "remove")
    /\ file' = [file EXCEPT ![n] = NoFile]
    /\ GoOn(n, t, "lock")
    /\ UNCHANGED <<alive, chans, clock, failures, migrations, clean>>

(* The lock of the path.  Another goroutine may have fetched the file       *)
(* meanwhile: a file of the same size is taken for it.                      *)
GetLock(n, t) ==
    /\ Doing(n, t, "lock")
    /\ \A s \in GetWorker : work[n][s].pc # "get"
    /\ IF file[n].version = work[n][t].info.version
       THEN Step(n, t, Off) ELSE GoOn(n, t, "get")
    /\ UNCHANGED <<alive, file, chans, clock, failures, migrations, clean>>

(* Downloads end in the same second, or in later ones.                      *)
Now == clock' \in {clock, clock + 1} /\ clock' <= MaxClock

(* What the first peer has by now is fetched and renamed.                   *)
GetAnswered(n, t) ==
    /\ Doing(n, t, "get") /\ alive[Origin] /\ Has(Origin)
    /\ Now
    /\ file' = [file EXCEPT ![n] = [version |-> file[Origin].version, time |-> clock']]
    /\ Step(n, t, Off)
    /\ UNCHANGED <<alive, chans, failures, migrations, clean>>

GetFails(n, t) ==
    /\ Doing(n, t, "get")
    /\ Fails(Origin)
    /\ fromPeers' = [fromPeers EXCEPT ![n] = Append(@, work[n][t].info)]
    /\ Step(n, t, Off)
    /\ UNCHANGED <<alive, file, toPeers, clock, migrations>>

-----------------------------------------------------------------------------
(* A crash loses what is in memory.  The queue.md5 log has no migrated      *)
(* files, so that a start finds nothing to go on with.                      *)
Crash(n) ==
    /\ alive[n] /\ Failure
    /\ alive' = [alive EXCEPT ![n] = FALSE]
    /\ toPeers' = [toPeers EXCEPT ![n] = <<>>]
    /\ fromPeers' = [fromPeers EXCEPT ![n] = <<>>]
    /\ work' = [work EXCEPT ![n] = [t \in Thread |-> Off]]
    /\ UNCHANGED <<file, clock, migrations>>

Restart(n) ==
    /\ ~ alive[n]
    /\ alive' = [alive EXCEPT ![n] = TRUE]
    /\ UNCHANGED <<file, chans, work, clock, failures, migrations, clean>>

Next ==
    \/ Migrate
    \/ \E n \in Node :
          \/ \E t \in Thread :
                \/ PostTake(n, t) \/ PostEnd(n, t)
                \/ \E p \in Node : \/ PostSkip(n, t, p)
                                   \/ PostDone(n, t, p)
                                   \/ PostFails(n, t, p)
                                   \/ PostRefused(n, t, p)
                \/ GetTake(n, t) \/ GetLook(n, t) \/ GetRemove(n, t)
                \/ GetLock(n, t) \/ GetAnswered(n, t) \/ GetFails(n, t)
          \/ Crash(n)
          \/ Restart(n)

Spec == Init /\ [][Next]_vars

-----------------------------------------------------------------------------
TypeOK ==
    /\ alive \in [Node -> BOOLEAN]
    /\ file \in [Node -> [version : Version \cup {0}, time : 0..MaxClock]]
    /\ toPeers \in [Node -> Seq(Info)]
    /\ fromPeers \in [Node -> Seq(Info)]
    /\ work \in [Node -> [Thread -> [pc : {"off", "post", "look", "remove", "lock", "get"},
                                     info : Info, todo : SUBSET Node]]]
    /\ clock \in 1..MaxClock
    /\ failures \in 0..MaxFailures
    /\ migrations \in 0..MaxMigrations
    /\ clean \in BOOLEAN

(* A migration from the node with the newest version brings it to all its   *)
(* peers, whatever an earlier one that failed or was cut short has left.    *)
MigrationRepairs ==
    clean /\ Quiet => \A p \in Peers[Origin] : file[p].version = file[Origin].version
=============================================================================
