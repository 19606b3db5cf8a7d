------------------------------ MODULE Watcher ------------------------------
(***************************************************************************)
(* watchFilesChange: one goroutine turns every Create event of the store   *)
(* directory into a FileInfo and sends its address to a channel; another   *)
(* receives, sends the address back to the same channel while the file is  *)
(* younger than three seconds, and otherwise queues the FileInfo for the   *)
(* peers and saves it in ldb.  There is one FileInfo variable for all      *)
(* events: every address in the channel is the same, and what a receiver   *)
(* finds there is the last event.                                          *)
(*                                                                         *)
(* Posting the queued FileInfos is Migration's; here they only take room.  *)
(***************************************************************************)
EXTENDS Naturals

CONSTANTS
    File,            \* the files created, each once; a file stands for its
                     \* path, for the md5 of that, and for its time stamp
    Capacity,        \* capacity of qChan
    QueueSize,       \* CONST_QUEUE_SIZE: that of queueToPeers
    MinAge,          \* ticks before a file is handled: 3 seconds
    Torn,            \* a path of which one word is another file's
    None             \* no file yet

ASSUME CapacityAssumption == Capacity \in Nat \ {0}
ASSUME QueueAssumption == QueueSize \in Nat \ {0}
ASSUME AgeAssumption == MinAge \in Nat
ASSUME TornAssumption == Torn \notin File /\ None \notin File \cup {Torn}

VARIABLES
    age,         \* age[f]: ticks since ModTime of f, at most MinAge; None
                 \* before f is there
    unseen,      \* files whose Create event has not been received
    fileInfo,    \* the one FileInfo: that of this file
    producer,    \* where the watching goroutine is
    qChan,       \* the number of addresses in the channel
    consumer,    \* where the handling goroutine is
    toPeers,     \* how many FileInfos wait in queueToPeers
    posted,      \* <<path, md5>> of what was queued for the peers
    index,       \* index[f]: the path that ldb has for the md5 of f
    taken,       \* events received so far
    last         \* the file of the last of them

vars == <<age, unseen, fileInfo, producer, qChan, consumer, toPeers, posted, index,
          taken, last>>

Init ==
    /\ age = [f \in File |-> None]
    /\ unseen = {}
    /\ fileInfo = None
    /\ producer = "event"
    /\ qChan = 0
    /\ consumer = "receive"
    /\ toPeers \in 0..QueueSize
    /\ posted = {}
    /\ index = [f \in File |-> None]
    /\ taken = 0
    /\ last = None

(* A file appears in the store directory, new or moved there with the       *)
(* ModTime it had; polling finds it.                                        *)
Create(f) ==
    /\ age[f] = None
    /\ \E a \in {0, MinAge} : age' = [age EXCEPT ![f] = a]
    /\ unseen' = unseen \cup {f}
    /\ UNCHANGED <<fileInfo, producer, qChan, consumer, toPeers, posted, index,
                   taken, last>>

(* Time passes, as far as anybody looks at it.                              *)
Tick ==
    /\ \E f \in File : age[f] # None /\ age[f] < MinAge
    /\ age' = [f \in File |->
          IF age[f] # None /\ age[f] < MinAge THEN age[f] + 1 ELSE age[f]]
    /\ UNCHANGED <<unseen, fileInfo, producer, qChan, consumer, toPeers, posted,
                   index, taken, last>>

-----------------------------------------------------------------------------
(* The watching goroutine receives an event, in any order, and begins to    *)
(* assign to the FileInfo ...                                               *)
Event(f) ==
    /\ producer = "event" /\ f \in unseen
    /\ unseen' = unseen \ {f}
    /\ producer' = "write"
    /\ taken' = taken + 1
    /\ last' = f
    /\ UNCHANGED <<age, fileInfo, qChan, consumer, toPeers, posted, index>>

(* ... has done so ...                                                      *)
Written ==
    /\ producer = "write"
    /\ producer' = "send"
    /\ fileInfo' = last
    /\ UNCHANGED <<age, unseen, qChan, consumer, toPeers, posted, index, taken, last>>

(* ... and sends its address, once there is room.                           *)
OneMore == qChan <= Capacity
Room == qChan < Capacity

Send ==
    /\ producer = "send" /\ Room
    /\ producer' = "event"
    /\ qChan' = qChan + 1
    /\ UNCHANGED <<age, unseen, fileInfo, consumer, toPeers, posted, index, taken, last>>

-----------------------------------------------------------------------------
(* What a reader may find in a field: no lock keeps it from reading amid an *)
(* assignment, which copies field by field, a string in two words.          *)
Found == IF producer = "write" THEN {fileInfo, last} ELSE {fileInfo}
FoundPath == IF producer = "write" THEN Found \cup {Torn} ELSE Found

(* The handling goroutine receives an address.                              *)
Kept == qChan
Rest == qChan - 1

Receive ==
    /\ consumer = "receive" /\ qChan > 0
    /\ qChan' = Rest
    /\ consumer' = "test"
    /\ UNCHANGED <<age, unseen, fileInfo, producer, toPeers, posted, index, taken, last>>

(* time.Now().Unix()-c.TimeStamp < 3 ?                                      *)
Young(f) == age[f] < MinAge

Test ==
    /\ consumer = "test"
    /\ \E f \in Found :
          consumer' = IF Young(f) THEN "resend" ELSE "append"
    /\ UNCHANGED <<age, unseen, fileInfo, producer, qChan, toPeers, posted, index,
                   taken, last>>

(* Too young: the address goes back to the end of the channel.              *)
Dropped == qChan
SentBack == qChan + 1

Resend ==
    /\ consumer = "resend" /\ Room
    /\ qChan' = SentBack
    /\ consumer' = "receive"
    /\ UNCHANGED <<age, unseen, fileInfo, producer, toPeers, posted, index, taken, last>>

(* appendToQueue waits until a tenth of queueToPeers is free, and copies    *)
(* the FileInfo only then ...                                               *)
PeersTakeIt == toPeers + QueueSize \div 10 <= QueueSize /\ toPeers < QueueSize

AppendToQueue ==
    /\ consumer = "append" /\ PeersTakeIt
    /\ toPeers' = toPeers + 1
    /\ \E path \in FoundPath, md5 \in Found :
          posted' = posted \cup {<<path, md5>>}
    /\ consumer' = "save"
    /\ UNCHANGED <<age, unseen, fileInfo, producer, qChan, index, taken, last>>

(* ... and saveFileInfoToLevelDB, which reads it again.                     *)
Save ==
    /\ consumer = "save"
    /\ \E path \in FoundPath, md5 \in Found :
          index' = [index EXCEPT ![md5] = path]
    /\ consumer' = "receive"
    /\ UNCHANGED <<age, unseen, fileInfo, producer, qChan, toPeers, posted, taken,
                   last>>

(* A sync worker takes a FileInfo.  Bound: what others queue is there from  *)
(* the start.                                                               *)
PostTake ==
    /\ toPeers > 0
    /\ toPeers' = toPeers - 1
    /\ UNCHANGED <<age, unseen, fileInfo, producer, qChan, consumer, posted, index,
                   taken, last>>

Watching == (\E f \in File : Event(f)) \/ Written \/ Send
Handling == Receive \/ Test \/ Resend \/ AppendToQueue \/ Save

Next == (\E f \in File : Create(f)) \/ Tick \/ Watching \/ Handling \/ PostTake

Spec == Init /\ [][Next]_vars

(* Time passes, both goroutines and the sync workers run; nothing is        *)
(* assumed of who creates.                                                  *)
Fairness == WF_vars(Tick) /\ WF_vars(Watching) /\ WF_vars(Handling) /\ WF_vars(PostTake)

FairSpec == Spec /\ Fairness

-----------------------------------------------------------------------------
Maybe(S) == S \cup {None}

TypeOK ==
    /\ age \in [File -> Maybe(0..MinAge)]
    /\ unseen \subseteq File
    /\ fileInfo \in Maybe(File)
    /\ producer \in {"event", "write", "send"}
    /\ qChan \in 0..Capacity
    /\ consumer \in {"receive", "test", "resend", "append", "save"}
    /\ toPeers \in 0..QueueSize
    /\ posted \subseteq (File \cup {Torn}) \X File
    /\ index \in [File -> Maybe(File \cup {Torn})]
    /\ taken \in Nat
    /\ last \in Maybe(File)

(* The handling goroutine sends to the channel that only it receives from:  *)
(* on a full one it would wait for ever, and the watching goroutine with    *)
(* it.  As long as no more events came than the channel holds, it never     *)
(* finds it full.                                                           *)
NeverStuck == taken <= Capacity => ~ (consumer = "resend" /\ qChan = Capacity)

(* A created file is queued for the peers and indexed, as itself, once it   *)
(* is old enough, unless another event overtakes its own, and as long as    *)
(* no more events came than the channel holds.  (That events overtake one   *)
(* another, and are lost, is what the shared FileInfo brings.)              *)
LastIsPosted ==
    \A f \in File :
        (last = f) ~> \/ last # f
                      \/ taken > Capacity
                      \/ <<f, f>> \in posted /\ index[f] = f
=============================================================================
