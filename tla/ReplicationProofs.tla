------------------------- MODULE ReplicationProofs -------------------------
(* Theorems about Replication, for every cluster, configuration and bound, *)
(* and about AutoRepair, which adds the repairs to it.                      *)
EXTENDS AutoRepair, FiniteSetTheorems, TLAPS

USE PeersAssumption, FileAssumption, RetryAssumption, BoundAssumption,
    UploadAssumption, NoInfoAssumption

(* What the operations on a FileInfo return. *)
LEMMA InfoType ==
    /\ \A n \in Node : Fresh(n) \in Info /\ OfPath(n) \in Info
    /\ \A info \in Info, p \in Node : AddPeer(info, p) \in Info
    /\ \A info \in Info : MayRepost(info) => Retried(info) \in Info
    /\ \A info \in Info : info.retry < RetryCount => Retried(info) \in Info
<1>1. \A n \in Node : Fresh(n) \in Info /\ OfPath(n) \in Info
    <2> TAKE n \in Node
    <2>1. <<n>> \in Seq(Node)
        OBVIOUS
    <2> QED
        BY <2>1 DEF Info, Fresh, OfPath
<1>2. \A info \in Info, p \in Node : AddPeer(info, p) \in Info
    <2> TAKE info \in Info, p \in Node
    <2>1. Append(info.peers, p) \in Seq(Node)
        BY DEF Info
    <2> QED
        BY <2>1 DEF Info, AddPeer
<1>3. ASSUME NEW info \in Info, info.retry <= RetryCount
      PROVE  Retried(info) \in Info
    <2>1. info.retry + 1 \in 0..(RetryCount + 1)
        BY <1>3 DEF Info
    <2> QED
        BY <2>1 DEF Info, Retried
<1>4. \A info \in Info : info.retry < RetryCount => info.retry <= RetryCount
    BY DEF Info
<1> QED
    BY <1>1, <1>2, <1>3, <1>4 DEF MayRepost

(* The activations that postFileToPeer and downloadFromPeer start with. *)
LEMMA StateType ==
    /\ AnyFile \in File
    /\ \A n \in Node, f \in File, info \in Info, todo \in SUBSET Node :
          NewPost(n, f, info, todo) \in PostState
    /\ \A n \in Node : NewGet(n) \in GetState
    /\ \A n \in Node : OffPosts(n) \in [Poster -> PostState]
    /\ \A n \in Node : OffGets(n) \in [Getter -> GetState]
<1>1. AnyFile \in File
    BY DEF AnyFile
<1>2. \A n \in Node, f \in File, info \in Info, todo \in SUBSET Node :
          NewPost(n, f, info, todo) \in PostState
    BY DEF NewPost, PostState
<1>3. \A n \in Node : NewGet(n) \in GetState
    BY <1>1, InfoType DEF NewGet, GetState
<1>4. \A n \in Node : OffPosts(n) \in [Poster -> PostState]
    BY <1>1, <1>2, InfoType DEF OffPosts
<1>5. \A n \in Node : OffGets(n) \in [Getter -> GetState]
    BY <1>3 DEF OffGets
<1> QED
    BY <1>1, <1>2, <1>3, <1>4, <1>5

(* The entries and jobs that the channels carry. *)
LEMMA EntryType ==
    /\ \A kind \in {"upload", "files", "queue", "errors"}, f \in File, info \in Info :
          Log(kind, f, info) \in LogEntry
    /\ \A f \in File, info \in Info : Job(f, info) \in JobEntry
    BY DEF Log, Job, LogEntry, JobEntry

(* The two parts a consumer splits a channel into.                          *)
LEMMA HeadTail ==
    ASSUME NEW S, NEW s \in Seq(S), s # <<>>
    PROVE  Head(s) \in S /\ Tail(s) \in Seq(S)
    OBVIOUS

(* What waits in a channel after a receive waited there before.             *)
LEMMA TailEntry ==
    ASSUME NEW S, NEW s \in Seq(S), s # <<>>, NEW i \in 1..Len(Tail(s))
    PROVE  i + 1 \in 1..Len(s) /\ Tail(s)[i] = s[i + 1]
<1>1. Len(s) \in Nat /\ Len(s) # 0 /\ Len(Tail(s)) = Len(s) - 1
    OBVIOUS
<1> QED
    BY <1>1

(* One goroutine's activation is replaced, the others stay.                 *)
LEMMA Update ==
    ASSUME NEW A, NEW B, NEW S, NEW g \in [A -> [B -> S]],
           NEW x \in A, NEW y \in B, NEW v \in S
    PROVE  [g EXCEPT ![x][y] = v] \in [A -> [B -> S]]
    OBVIOUS

(* What a goroutine of postFileToPeer, or of downloadFromPeer, works on.    *)
LEMMA PostType ==
    ASSUME TypeOK, NEW n \in Node, NEW t \in Poster
    PROVE  /\ post[n][t] \in PostState
           /\ post[n][t].file \in File /\ post[n][t].info \in Info
           /\ post[n][t].to \in Node /\ post[n][t].todo \in SUBSET Node
<1>1. post[n][t] \in PostState
    BY DEF TypeOK
<1> QED
    BY <1>1 DEF PostState

LEMMA GetType ==
    ASSUME TypeOK, NEW n \in Node, NEW d \in Getter
    PROVE  /\ get[n][d] \in GetState
           /\ get[n][d].file \in File /\ get[n][d].info \in Info
           /\ get[n][d].src \in Node
<1>1. get[n][d] \in GetState
    BY DEF TypeOK
<1> QED
    BY <1>1 DEF GetState

(* Posting leaves the downloads of the node alone.                          *)
LEMMA PostLeavesGets ==
    ASSUME NEW n \in Node, NEW t \in Poster, PostStep(n, t)
    PROVE  get' = get
<1>1. ASSUME NEW p \in Node, PostSkip(n, t, p) \/ PostFound(n, t, p) \/ PostAbsent(n, t, p)
      PROVE  get' = get
    BY <1>1 DEF PostSkip, PostFound, PostAbsent
<1>2. CASE \/ PostTake(n, t) \/ PostDelivered(n, t) \/ PostLost(n, t)
           \/ PostOk(n, t) \/ PostFailed(n, t)
    BY <1>2 DEF PostTake, PostDelivered, PostLost, PostOk, PostFailed
<1> QED
    BY <1>1, <1>2 DEF PostStep

(* The processes start with values of the right types.                      *)
LEMMA InitTypeOK == Init => TypeOK
<1> SUFFICES ASSUME Init PROVE TypeOK
    OBVIOUS
<1> QED
    BY StateType DEF Init, TypeOK

(* No handler, goroutine, crash or restart breaks the types.                *)
LEMMA NextTypeOK == TypeOK /\ [Next]_vars => TypeOK'
<1> SUFFICES ASSUME TypeOK, [Next]_vars PROVE TypeOK'
    OBVIOUS
<1>1. ASSUME NEW n \in Node, NEW f \in File, Upload(n, f)
      PROVE  TypeOK'
    <2>1. post[n][f].pc = "off" /\ f \in Poster
        BY <1>1 DEF Upload, Poster
    <2>2. Fresh(n) \in Info /\ NewPost(n, f, Fresh(n), Peers[n]) \in PostState
        BY InfoType, StateType
    <2>3. Log("upload", f, Fresh(n)) \in LogEntry
        BY <2>2, EntryType
    <2>4. fileLog' \in [Node -> Seq(LogEntry)]
        BY <1>1, <2>3 DEF Upload, LogAppend, TypeOK
    <2>5. post' \in [Node -> [Poster -> PostState]]
        BY <1>1, <2>1, <2>2, Update DEF Upload, TypeOK
    <2> QED
        BY <1>1, <2>4, <2>5 DEF Upload, TypeOK, env
<1>2. ASSUME NEW n \in Node, NEW f \in File, ResendError(n, f)
      PROVE  TypeOK'
    <2> DEFINE info == index[n][f]
               sent == IF Contains(n, info.peers) THEN info ELSE AddPeer(info, n)
    <2>1. info \in Info
        BY <1>2 DEF ResendError, TypeOK
    <2>2. sent \in Info
        BY <2>1, InfoType
    <2>3. Job(f, sent) \in JobEntry
        BY <2>2, EntryType
    <2> HIDE DEF sent
    <2>4. toPeers' = [toPeers EXCEPT ![n] = Append(@, Job(f, sent))]
        BY <1>2 DEF ResendError, sent
    <2> QED
        BY <1>2, <2>3, <2>4 DEF ResendError, TypeOK, stable, env
<1>3. ASSUME NEW n \in Node, NEW f \in File, LoadQueue(n, f)
      PROVE  TypeOK'
    <2>1. Job(f, toLoad[n][f]) \in JobEntry
        BY <1>3, EntryType DEF LoadQueue, TypeOK
    <2> QED
        BY <1>3, <2>1 DEF LoadQueue, TypeOK, stable, env
<1>4. ASSUME NEW n \in Node, NEW t \in Poster, PostStep(n, t)
      PROVE  TypeOK'
    <2> DEFINE job == post[n][t]
    <2>0. /\ job \in PostState
          /\ job.file \in File /\ job.info \in Info
          /\ job.to \in Node /\ job.todo \in SUBSET Node
        BY PostType
    <2>A. \A p \in Node, info \in Info : Advance(n, job, p, info) \in PostState
        BY <2>0, StateType DEF Advance
    <2>1. CASE PostTake(n, t)
        <3>0. toPeers[n] \in Seq(JobEntry) /\ toPeers[n] # <<>>
            BY <2>1 DEF PostTake, TypeOK
        <3>1. Head(toPeers[n]) \in JobEntry /\ Tail(toPeers[n]) \in Seq(JobEntry)
            BY <3>0, HeadTail
        <3>2. NewPost(n, Head(toPeers[n]).file, Head(toPeers[n]).info, Peers[n])
                 \in PostState
            BY <3>1, StateType DEF JobEntry
        <3> QED
            BY <2>1, <3>1, <3>2 DEF PostTake, TypeOK, stable, env
    <2>2. ASSUME NEW p \in Node, PostSkip(n, t, p) PROVE TypeOK'
        BY <2>0, <2>A, <2>2 DEF PostSkip, TypeOK, stable, chans, env
    <2>3. ASSUME NEW p \in Node, PostFound(n, t, p) PROVE TypeOK'
        <3>1. AddPeer(job.info, p) \in Info
            BY <2>0, InfoType
        <3> QED
            BY <2>0, <2>A, <2>3, <3>1 DEF PostFound, SaveInfo, TypeOK, chans, env
    <2>4. ASSUME NEW p \in Node, PostAbsent(n, t, p) PROVE TypeOK'
        <3>1. Sending(job, p) \in PostState
            BY <2>0 DEF PostState, Sending
        <3>2. post' \in [Node -> [Poster -> PostState]]
            <4>1. post' = [post EXCEPT ![n][t] = Sending(job, p)]
                BY <2>4 DEF PostAbsent
            <4> QED
                BY <3>1, <4>1, Update DEF TypeOK
        <3>3. index' \in [Node -> [File -> Info \cup {NoInfo}]]
            <4>1. CASE UNCHANGED index
                BY <4>1 DEF TypeOK
            <4>2. CASE index' = [index EXCEPT ![p][job.file] = NoInfo]
                BY <2>0, <4>2 DEF TypeOK
            <4> QED
                BY <2>4, <4>1, <4>2 DEF PostAbsent, SaveInfo
        <3>4. faults' \in 0..MaxFaults
            BY <2>4 DEF PostAbsent, Fault, TypeOK
        <3> QED
            BY <2>4, <3>2, <3>3, <3>4 DEF PostAbsent, TypeOK, chans
    <2>B. \A result \in {"ok", "error", "refused"} :
             [post EXCEPT ![n][t] = Replied(job, result)]
                \in [Node -> [Poster -> PostState]]
        <3> TAKE result \in {"ok", "error", "refused"}
        <3>1. Replied(job, result) \in PostState
            BY <2>0 DEF PostState, Replied
        <3> QED
            BY <3>1, Update DEF TypeOK
    <2>5. CASE PostDelivered(n, t)
        <3>1. Log("queue", job.file, job.info) \in LogEntry
              /\ Job(job.file, job.info) \in JobEntry
            BY <2>0, EntryType
        <3>2. post' \in [Node -> [Poster -> PostState]]
            BY <2>B, <2>5 DEF PostDelivered
        <3>3. faults' \in 0..MaxFaults
            BY <2>5 DEF PostDelivered, Fault, TypeOK
        <3>4. fileLog' \in [Node -> Seq(LogEntry)] /\ fromPeers' \in [Node -> Seq(JobEntry)]
            BY <2>0, <2>5, <3>1 DEF PostDelivered, LogAppend, TypeOK
        <3> QED
            BY <2>5, <3>2, <3>3, <3>4 DEF PostDelivered, TypeOK, stable
    <2>6. CASE PostLost(n, t)
        <3>1. post' \in [Node -> [Poster -> PostState]]
            BY <2>B, <2>6 DEF PostLost
        <3>2. faults' \in 0..MaxFaults
            BY <2>6 DEF PostLost, Fault, TypeOK
        <3> QED
            BY <2>6, <3>1, <3>2 DEF PostLost, TypeOK, stable, chans
    <2>7. CASE PostOk(n, t)
        <3>1. AddPeer(job.info, job.to) \in Info
            BY <2>0, InfoType
        <3> QED
            BY <2>0, <2>A, <2>7, <3>1 DEF PostOk, SaveInfo, TypeOK, chans, env
    <2>8. CASE PostFailed(n, t)
        <3> DEFINE again == job.result = "error" /\ MayRepost(job.info)
                   info == IF again THEN Retried(job.info) ELSE job.info
        <3>1. info \in Info
            BY <2>0, InfoType
        <3>2. /\ Job(job.file, info) \in JobEntry
              /\ Log("errors", job.file, Fresh(n)) \in LogEntry
              /\ Advance(n, job, job.to, info) \in PostState
            BY <2>0, <2>A, <3>1, EntryType, InfoType
        <3> HIDE DEF info, again
        <3>3. /\ \/ toPeers' = [toPeers EXCEPT ![n] = Append(@, Job(job.file, info))]
                 \/ UNCHANGED toPeers
              /\ LogAppend(n, Log("errors", job.file, Fresh(n)))
              /\ post' = [post EXCEPT ![n][t] = Advance(n, job, job.to, info)]
              /\ UNCHANGED <<alive, stable, fromPeers, toLoad, get, env>>
            BY <2>8 DEF PostFailed, info, again
        <3>5. fileLog' \in [Node -> Seq(LogEntry)]
            BY <3>2, <3>3 DEF LogAppend, TypeOK
        <3>6. post' \in [Node -> [Poster -> PostState]]
            BY <3>2, <3>3, Update DEF TypeOK
        <3>7. UNCHANGED <<alive, stable, fromPeers, toLoad, get, env>>
            BY <3>3
        <3>4. toPeers' \in [Node -> Seq(JobEntry)]
            <4>1. CASE UNCHANGED toPeers
                BY <4>1 DEF TypeOK
            <4>2. CASE toPeers' = [toPeers EXCEPT ![n] = Append(@, Job(job.file, info))]
                BY <3>2, <4>2 DEF TypeOK
            <4> QED
                BY <3>3, <4>1, <4>2
        <3> QED
            BY <3>4, <3>5, <3>6, <3>7 DEF TypeOK, stable, env
    <2> QED
        BY <1>4, <2>1, <2>2, <2>3, <2>4, <2>5, <2>6, <2>7, <2>8 DEF PostStep
<1>5. ASSUME NEW n \in Node, NEW d \in Getter, GetStep(n, d)
      PROVE  TypeOK'
    <2> DEFINE job == get[n][d]
    <2>A. job \in GetState
        BY DEF TypeOK
    <2>B. job.file \in File /\ job.info \in Info /\ job.src \in Node
        BY <2>A DEF GetState
    <2>0. NewGet(n) \in GetState /\ Job(job.file, job.info) \in JobEntry
        BY <2>B, StateType, EntryType
    <2>1. CASE GetTake(n, d)
        <3> DEFINE head == Head(fromPeers[n])
        <3>0. fromPeers[n] \in Seq(JobEntry) /\ fromPeers[n] # <<>>
            BY <2>1 DEF GetTake, TypeOK
        <3>1. head \in JobEntry /\ Tail(fromPeers[n]) \in Seq(JobEntry)
            BY <3>0, HeadTail
        <3>5. head.file \in File /\ head.info \in Info
            BY <3>1 DEF JobEntry
        <3>2. ASSUME NEW src \in Node, head.info.retry < RetryCount
              PROVE  [pc |-> "lock", file |-> head.file, src |-> src,
                      info |-> Retried(head.info)] \in GetState
            BY <3>5, <3>2, InfoType DEF GetState
        <3>3. get' \in [Node -> [Getter -> GetState]]
            <4> DEFINE taken(src) == [pc |-> "lock", file |-> head.file, src |-> src,
                                      info |-> Retried(head.info)]
            <4>1. \/ UNCHANGED get
                  \/ /\ head.info.retry < RetryCount
                     /\ \E src \in Node : get' = [get EXCEPT ![n][d] = taken(src)]
                BY <2>1 DEF GetTake
            <4>2. CASE UNCHANGED get
                BY <4>2 DEF TypeOK
            <4>3. ASSUME NEW src \in Node, head.info.retry < RetryCount,
                         get' = [get EXCEPT ![n][d] = taken(src)]
                  PROVE  get' \in [Node -> [Getter -> GetState]]
                <5>1. taken(src) \in GetState
                    BY <4>3, <3>2
                <5> HIDE DEF taken
                <5> QED
                    BY <4>3, <5>1 DEF TypeOK
            <4> QED
                BY <4>1, <4>2, <4>3
        <3>4. fromPeers' \in [Node -> Seq(JobEntry)]
            BY <2>1, <3>1 DEF GetTake, TypeOK
        <3> QED
            BY <2>1, <3>3, <3>4 DEF GetTake, TypeOK, stable, env
    <2>2. CASE GetLock(n, d)
        <3>1. [job EXCEPT !.pc = "get"] \in GetState
            BY <2>A DEF GetState
        <3>2. get' \in [Node -> [Getter -> GetState]]
            BY <2>2, <3>1, Update DEF GetLock, TypeOK
        <3> QED
            BY <2>2, <3>2 DEF GetLock, TypeOK, stable, chans, env
    <2>3. CASE GetAnswered(n, d)
        <3> DEFINE entry == Log("files", job.file, job.info)
        <3>1. entry \in LogEntry
            BY <2>B, EntryType
        <3> HIDE DEF entry
        <3>2. \/ /\ disk' = [disk EXCEPT ![n] = @ \cup {job.file}]
                 /\ fileLog' = [fileLog EXCEPT ![n] = Append(@, entry)]
              \/ disk' = disk /\ fileLog' = fileLog
            BY <2>3 DEF GetAnswered, Renamed, LogAppend, entry
        <3>3. disk' \in [Node -> SUBSET File] /\ fileLog' \in [Node -> Seq(LogEntry)]
            <4>1. CASE disk' = disk /\ fileLog' = fileLog
                BY <4>1 DEF TypeOK
            <4>2. CASE /\ disk' = [disk EXCEPT ![n] = @ \cup {job.file}]
                       /\ fileLog' = [fileLog EXCEPT ![n] = Append(@, entry)]
                BY <2>B, <3>1, <4>2 DEF TypeOK
            <4> QED
                BY <3>2, <4>1, <4>2
        <3> QED
            BY <2>0, <2>3, <3>3 DEF GetAnswered, TypeOK, env
    <2>4. CASE GetFailed(n, d)
        <3>1. faults' \in 0..MaxFaults
            BY <2>4 DEF GetFailed, Fault, TypeOK
        <3> QED
            BY <2>0, <2>4, <3>1 DEF GetFailed, QueuedAgain, TypeOK, stable
    <2>5. CASE GetStart(n, d)
        <3> DEFINE next == IF job.info.retry < RetryCount /\ job.file \notin disk[n]
                           THEN [job EXCEPT !.pc = "lock", !.info = Retried(job.info)]
                           ELSE NewGet(n)
        <3>1. job.info.retry < RetryCount => Retried(job.info) \in Info
            BY <2>B, InfoType
        <3>2. next \in GetState
            BY <2>0, <2>A, <3>1 DEF GetState
        <3> HIDE DEF next
        <3>3. get' = [get EXCEPT ![n][d] = next]
            BY <2>5 DEF GetStart, next
        <3>4. get' \in [Node -> [Getter -> GetState]]
            BY <3>2, <3>3, Update DEF TypeOK
        <3> QED
            BY <2>5, <3>4 DEF GetStart, TypeOK, stable, chans, env
    <2> QED
        BY <1>5, <2>1, <2>2, <2>3, <2>4, <2>5 DEF GetStep
<1>A. ASSUME NEW n \in Node, NEW d \in Reader, NEW p \in Node, NEW f \in File,
             GetFound(n, d, p, f)
      PROVE  TypeOK'
    <2> DEFINE found == [pc |-> "found", file |-> f, src |-> p, info |-> AtPath(p, f)]
    <2>1. d \in Getter
        BY DEF Getter
    <2>2. AtPath(p, f) \in Info
        BY InfoType DEF AtPath, TypeOK
    <2>3. found \in GetState
        BY <2>2 DEF GetState
    <2> HIDE DEF found
    <2>4. \/ get' = [get EXCEPT ![n][d] = found] /\ UNCHANGED byPath
          \/ byPath' = [byPath EXCEPT ![p][f] = NoInfo] /\ UNCHANGED get
        BY <1>A DEF GetFound, found
    <2>5. /\ get' \in [Node -> [Getter -> GetState]]
          /\ byPath' \in [Node -> [File -> Info \cup {NoInfo}]]
        <3>1. CASE get' = [get EXCEPT ![n][d] = found] /\ UNCHANGED byPath
            BY <2>1, <2>3, <3>1, Update DEF TypeOK
        <3>2. CASE byPath' = [byPath EXCEPT ![p][f] = NoInfo] /\ UNCHANGED get
            BY <3>2 DEF TypeOK
        <3> QED
            BY <2>4, <3>1, <3>2
    <2> QED
        BY <1>A, <2>5 DEF GetFound, TypeOK, chans, env
<1>6. ASSUME NEW n \in Node, ConsumeLog(n)
      PROVE  TypeOK'
    <2> DEFINE entry == Head(fileLog[n])
               f     == entry.file
    <2>1. fileLog[n] \in Seq(LogEntry) /\ fileLog[n] # <<>>
        BY <1>6 DEF ConsumeLog, TypeOK
    <2>2. entry \in LogEntry /\ Tail(fileLog[n]) \in Seq(LogEntry)
        BY <2>1, HeadTail
    <2>3. f \in File /\ entry.info \in Info
        BY <2>2 DEF LogEntry
    <2>4. post[n][f].info \in Info
        BY <2>3 DEF TypeOK, PostState, Poster
    <2> DEFINE saved == IF entry.kind = "upload" THEN post[n][f].info ELSE entry.info
    <2>5. saved \in Info
        BY <2>3, <2>4
    <2> HIDE DEF saved
    <2>6. /\ \/ /\ byPath' = [byPath EXCEPT ![n][f] = saved]
                /\ index' = [index EXCEPT ![n][f] = saved] \/ UNCHANGED index
                /\ UNCHANGED <<queueMd5, errorsMd5>>
             \/ /\ queueMd5' = [queueMd5 EXCEPT ![n][f] = entry.info]
                /\ UNCHANGED <<index, byPath, errorsMd5>>
             \/ /\ errorsMd5' = [errorsMd5 EXCEPT ![n] = @ \cup {f}]
                /\ UNCHANGED <<index, byPath, queueMd5>>
          /\ fileLog' = [fileLog EXCEPT ![n] = Tail(@)]
          /\ UNCHANGED <<alive, disk, toPeers, fromPeers, toLoad, post, get, env>>
        BY <1>6 DEF ConsumeLog, SaveLogged, SaveInfo, saved
    <2> HIDE DEF entry, f
    <2>7. /\ index' \in [Node -> [File -> Info \cup {NoInfo}]]
          /\ byPath' \in [Node -> [File -> Info \cup {NoInfo}]]
          /\ queueMd5' \in [Node -> [File -> Info \cup {NoInfo}]]
          /\ errorsMd5' \in [Node -> SUBSET File]
        <3>1. CASE /\ byPath' = [byPath EXCEPT ![n][f] = saved]
                   /\ index' = [index EXCEPT ![n][f] = saved] \/ UNCHANGED index
                   /\ UNCHANGED <<queueMd5, errorsMd5>>
            <4>1. byPath' \in [Node -> [File -> Info \cup {NoInfo}]]
                BY <2>3, <2>5, <3>1 DEF TypeOK
            <4>2. index' \in [Node -> [File -> Info \cup {NoInfo}]]
                <5>1. CASE index' = [index EXCEPT ![n][f] = saved]
                    BY <2>3, <2>5, <5>1 DEF TypeOK
                <5>2. CASE UNCHANGED index
                    BY <5>2 DEF TypeOK
                <5> QED
                    BY <3>1, <5>1, <5>2
            <4> QED
                BY <3>1, <4>1, <4>2 DEF TypeOK
        <3>2. CASE /\ queueMd5' = [queueMd5 EXCEPT ![n][f] = entry.info]
                   /\ UNCHANGED <<index, byPath, errorsMd5>>
            BY <2>3, <3>2 DEF TypeOK
        <3>3. CASE /\ errorsMd5' = [errorsMd5 EXCEPT ![n] = @ \cup {f}]
                   /\ UNCHANGED <<index, byPath, queueMd5>>
            BY <2>3, <3>3 DEF TypeOK
        <3> QED
            BY <2>6, <3>1, <3>2, <3>3
    <2>8. fileLog' \in [Node -> Seq(LogEntry)]
        BY <2>2, <2>6 DEF TypeOK
    <2> QED
        BY <2>6, <2>7, <2>8 DEF TypeOK, env
<1>7. ASSUME NEW n \in Node, Crash(n)
      PROVE  TypeOK'
    <2>1. OffPosts(n) \in [Poster -> PostState] /\ OffGets(n) \in [Getter -> GetState]
        BY StateType
    <2> QED
        BY <1>7, <2>1 DEF Crash, TypeOK, stable
<1>8. ASSUME NEW n \in Node, Restart(n)
      PROVE  TypeOK'
    BY <1>8 DEF Restart, TodaysQueue, TypeOK, stable, chans, env
<1>9. CASE UNCHANGED vars
    BY <1>9 DEF vars, TypeOK, stable, chans, env
<1> QED
    BY <1>1, <1>2, <1>3, <1>4, <1>5, <1>6, <1>7, <1>8, <1>9, <1>A DEF Next

(* The databases, the channels and the goroutines keep their types; a       *)
(* Retry counter stays below retry_count + 2 whatever fails.                *)
THEOREM TypeCorrect == Spec => []TypeOK
<1> QED
    BY InitTypeOK, NextTypeOK, PTL DEF Spec

-----------------------------------------------------------------------------
(* IndexedIsStored is not inductive: ldb is written from the log channel    *)
(* and from the post goroutines.  What they carry has to be on the disk.    *)
LoggedIsStored ==
    \A n \in Node : \A i \in 1..Len(fileLog[n]) :
        SavedInLdb(fileLog[n][i].kind) => fileLog[n][i].file \in disk[n]

PostedIsStored ==
    \A n \in Node, t \in Poster :
        post[n][t].pc \in {"send", "reply"} => post[n][t].file \in disk[n]

StoredInv == /\ IndexedIsStored
             /\ LoggedIsStored
             /\ PostedIsStored

(* What a step does to the disks and the indexes: nothing, one file more on *)
(* one disk, or one index entry, of a file that is on that disk, or removed *)
(* because it is not.                                                       *)
Stores(n, f) == /\ <<n, f>> \in Uploads \/ \E m \in Node : f \in disk[m]
                /\ disk' = [disk EXCEPT ![n] = @ \cup {f}]
                /\ UNCHANGED index

Saves(n, f) == /\ f \in disk[n]
               /\ \E info \in Info : index' = [index EXCEPT ![n][f] = info]
               /\ UNCHANGED disk

Drops(n, f) == /\ f \notin disk[n]
               /\ index' = [index EXCEPT ![n][f] = NoInfo]
               /\ UNCHANGED disk

Effect == \/ UNCHANGED <<disk, index>>
          \/ \E n \in Node, f \in File : Stores(n, f) \/ Saves(n, f) \/ Drops(n, f)

(* What any step does to the disks and to ldb: nothing, or one of the       *)
(* effects above.                                                           *)
LEMMA StepEffect == TypeOK /\ StoredInv /\ [Next]_vars => Effect
<1> SUFFICES ASSUME TypeOK, StoredInv, [Next]_vars PROVE Effect
    OBVIOUS
<1>1. ASSUME NEW n \in Node, NEW f \in File, Upload(n, f)
      PROVE  Effect
    BY <1>1 DEF Upload, Stores, Effect
<1>2. ASSUME NEW n \in Node, NEW t \in Poster, PostStep(n, t)
      PROVE  Effect
    <2> DEFINE job == post[n][t]
    <2>1. job.file \in File /\ job.info \in Info /\ job.to \in Node
        BY PostType
    <2>2. ASSUME NEW p \in Node, PostFound(n, t, p) PROVE Effect
        <3>1. AddPeer(job.info, p) \in Info
            BY <2>1, InfoType
        <3>2. Saves(n, job.file)
            BY <2>1, <2>2, <3>1 DEF PostFound, SaveInfo, Saves
        <3> QED
            BY <2>1, <3>2 DEF Effect
    <2>3. ASSUME NEW p \in Node, PostAbsent(n, t, p) PROVE Effect
        <3>1. UNCHANGED <<disk, index>> \/ Drops(p, job.file)
            BY <2>3 DEF PostAbsent, SaveInfo, Drops
        <3> QED
            BY <2>1, <3>1 DEF Effect
    <2>4. CASE PostOk(n, t)
        <3>1. AddPeer(job.info, job.to) \in Info
            BY <2>1, InfoType
        <3>2. job.file \in disk[n]
            BY <2>4 DEF PostOk, StoredInv, PostedIsStored
        <3>3. Saves(n, job.file)
            BY <2>1, <2>4, <3>1, <3>2 DEF PostOk, SaveInfo, Saves
        <3> QED
            BY <2>1, <3>3 DEF Effect
    <2>5. CASE PostTake(n, t) \/ PostDelivered(n, t) \/ PostLost(n, t) \/ PostFailed(n, t)
        BY <2>5 DEF PostTake, PostDelivered, PostLost, PostFailed, Effect, stable
    <2>6. ASSUME NEW p \in Node, PostSkip(n, t, p) PROVE Effect
        BY <2>6 DEF PostSkip, Effect, stable
    <2> QED
        BY <1>2, <2>2, <2>3, <2>4, <2>5, <2>6 DEF PostStep
<1>3. ASSUME NEW n \in Node, NEW d \in Getter, GetStep(n, d)
      PROVE  Effect
    <2> DEFINE job == get[n][d]
    <2>1. job.file \in File /\ job.src \in Node
        BY GetType
    <2>2. CASE GetAnswered(n, d)
        <3>1. UNCHANGED <<disk, index>> \/ Stores(n, job.file)
            BY <2>1, <2>2 DEF GetAnswered, Renamed, Stores
        <3> QED
            BY <2>1, <3>1 DEF Effect
    <2>3. CASE GetTake(n, d) \/ GetStart(n, d) \/ GetLock(n, d) \/ GetFailed(n, d)
        BY <2>3 DEF GetTake, GetStart, GetLock, GetFailed, Effect, stable
    <2> QED
        BY <1>3, <2>2, <2>3 DEF GetStep
<1>4. ASSUME NEW n \in Node, ConsumeLog(n)
      PROVE  Effect
    <2> DEFINE entry == Head(fileLog[n])
               f     == entry.file
               saved == IF entry.kind = "upload" THEN post[n][f].info ELSE entry.info
    <2>1. fileLog[n] \in Seq(LogEntry) /\ fileLog[n] # <<>>
        BY <1>4 DEF ConsumeLog, TypeOK
    <2>2. entry \in LogEntry
        BY <2>1, HeadTail
    <2>3. f \in File /\ entry.info \in Info
        BY <2>2 DEF LogEntry
    <2>4. saved \in Info
        BY <2>3 DEF TypeOK, PostState, Poster
    <2>5. 1 \in 1..Len(fileLog[n]) /\ entry = fileLog[n][1]
        BY <2>1
    <2>6. SavedInLdb(entry.kind) => f \in disk[n]
        BY <2>5 DEF StoredInv, LoggedIsStored
    <2>7. \/ UNCHANGED <<disk, index>>
          \/ /\ SavedInLdb(entry.kind)
             /\ index' = [index EXCEPT ![n][f] = saved]
             /\ UNCHANGED disk
        BY <1>4 DEF ConsumeLog, SaveLogged, SaveInfo
    <2> HIDE DEF saved, f, entry
    <2> QED
        BY <2>3, <2>4, <2>6, <2>7 DEF Saves, Effect
<1>5. ASSUME NEW n \in Node,
             \/ \E f \in File : ResendError(n, f) \/ LoadQueue(n, f)
             \/ \E d \in Reader, p \in Node, f \in File : GetFound(n, d, p, f)
             \/ Crash(n)
             \/ Restart(n)
      PROVE  Effect
    BY <1>5 DEF ResendError, LoadQueue, GetFound, Crash, Restart, Effect, stable
<1>6. CASE UNCHANGED vars
    BY <1>6 DEF vars, stable, Effect
<1> QED
    BY <1>1, <1>2, <1>3, <1>4, <1>5, <1>6 DEF Next

(* So no disk shrinks, and an index stays inside its disk. *)
LEMMA EffectKeeps ==
    ASSUME TypeOK, IndexedIsStored, Effect
    PROVE  (\A n \in Node : disk[n] \subseteq disk'[n]) /\ IndexedIsStored'
<1>1. CASE UNCHANGED <<disk, index>>
    BY <1>1 DEF IndexedIsStored
<1>2. ASSUME NEW n \in Node, NEW f \in File, Stores(n, f)
      PROVE  (\A m \in Node : disk[m] \subseteq disk'[m]) /\ IndexedIsStored'
    BY <1>2 DEF Stores, IndexedIsStored, TypeOK
<1>3. ASSUME NEW n \in Node, NEW f \in File, Saves(n, f)
      PROVE  (\A m \in Node : disk[m] \subseteq disk'[m]) /\ IndexedIsStored'
    BY <1>3 DEF Saves, IndexedIsStored, TypeOK
<1>4. ASSUME NEW n \in Node, NEW f \in File, Drops(n, f)
      PROVE  (\A m \in Node : disk[m] \subseteq disk'[m]) /\ IndexedIsStored'
    BY <1>4 DEF Drops, IndexedIsStored, TypeOK
<1> QED
    BY <1>1, <1>2, <1>3, <1>4 DEF Effect

(* The log of a node after an append, a removal at the head, a crash. *)
LEMMA LogAppended ==
    ASSUME TypeOK, LoggedIsStored, \A m \in Node : disk[m] \subseteq disk'[m],
           NEW n \in Node, NEW entry \in LogEntry, LogAppend(n, entry),
           SavedInLdb(entry.kind) => entry.file \in disk'[n]
    PROVE  LoggedIsStored'
<1> SUFFICES ASSUME NEW m \in Node, NEW i \in 1..Len(fileLog'[m]),
                    SavedInLdb(fileLog'[m][i].kind)
             PROVE  fileLog'[m][i].file \in disk'[m]
    BY DEF LoggedIsStored, SavedInLdb
<1>1. CASE m = n
    <2>1. fileLog'[n] = Append(fileLog[n], entry) /\ fileLog[n] \in Seq(LogEntry)
        BY DEF LogAppend, TypeOK
    <2>2. \/ i \in 1..Len(fileLog[n]) /\ fileLog'[n][i] = fileLog[n][i]
          \/ fileLog'[n][i] = entry
        BY <1>1, <2>1
    <2> QED
        BY <1>1, <2>2 DEF LoggedIsStored
<1>2. CASE m # n
    <2>1. fileLog'[m] = fileLog[m]
        BY <1>2 DEF LogAppend, TypeOK
    <2> QED
        BY <2>1 DEF LoggedIsStored
<1> QED
    BY <1>1, <1>2

(* Taking the head of a log keeps what is said of all its entries.          *)
LEMMA LogShrunk ==
    ASSUME TypeOK, LoggedIsStored, \A m \in Node : disk[m] \subseteq disk'[m],
           NEW n \in Node,
           \/ fileLog' = fileLog
           \/ fileLog[n] # <<>> /\ fileLog' = [fileLog EXCEPT ![n] = Tail(@)]
           \/ fileLog' = [fileLog EXCEPT ![n] = <<>>]
    PROVE  LoggedIsStored'
<1>1. CASE fileLog' = fileLog
    BY <1>1 DEF LoggedIsStored, SavedInLdb
<1>2. ASSUME fileLog' # fileLog,
             NEW m \in Node, NEW i \in 1..Len(fileLog'[m]),
             SavedInLdb(fileLog'[m][i].kind)
      PROVE  fileLog'[m][i].file \in disk'[m]
    <2>1. fileLog[n] \in Seq(LogEntry) /\ fileLog[m] \in Seq(LogEntry)
        BY DEF TypeOK
    <2>2. CASE m # n
        <3>1. fileLog'[m] = fileLog[m]
            BY <1>2, <2>2 DEF TypeOK
        <3> QED
            BY <1>2, <3>1 DEF LoggedIsStored
    <2>3. CASE m = n /\ fileLog[n] # <<>> /\ fileLog' = [fileLog EXCEPT ![n] = Tail(@)]
        <3>1. fileLog'[n] = Tail(fileLog[n])
            BY <2>3 DEF TypeOK
        <3>2. i + 1 \in 1..Len(fileLog[n]) /\ fileLog'[n][i] = fileLog[n][i + 1]
            <4>1. i \in 1..Len(Tail(fileLog[n]))
                BY <1>2, <2>3, <3>1
            <4> QED
                BY <2>1, <2>3, <3>1, <4>1, TailEntry
        <3> QED
            BY <1>2, <2>3, <3>2 DEF LoggedIsStored
    <2>4. CASE m = n /\ fileLog' = [fileLog EXCEPT ![n] = <<>>]
        <3>1. fileLog'[m] = <<>>
            BY <2>4 DEF TypeOK
        <3> QED
            BY <1>2, <3>1
    <2> QED
        BY <1>2, <2>2, <2>3, <2>4
<1>3. CASE fileLog' # fileLog
    BY <1>2, <1>3 DEF LoggedIsStored, SavedInLdb
<1> QED
    BY <1>1, <1>3

(* What waits in queueFileLog to be saved in ldb stays on the disk.         *)
LEMMA StepLogged ==
    ASSUME TypeOK, StoredInv, [Next]_vars, \A m \in Node : disk[m] \subseteq disk'[m]
    PROVE  LoggedIsStored'
<1>0. LoggedIsStored
    BY DEF StoredInv
<1>1. ASSUME NEW n \in Node, NEW f \in File, Upload(n, f)
      PROVE  LoggedIsStored'
    <2> DEFINE entry == Log("upload", f, Fresh(n))
    <2>1. entry \in LogEntry /\ entry.file = f
        BY InfoType, EntryType DEF Log
    <2>2. f \in disk'[n] /\ LogAppend(n, entry)
        BY <1>1 DEF Upload, TypeOK
    <2> HIDE DEF entry
    <2> QED
        BY <1>0, <2>1, <2>2, LogAppended
<1>2. ASSUME NEW n \in Node, NEW t \in Poster, PostStep(n, t)
      PROVE  LoggedIsStored'
    <2> DEFINE job == post[n][t]
    <2>1. job.file \in File /\ job.info \in Info /\ job.to \in Node
        BY PostType
    <2>2. CASE PostDelivered(n, t)
        <3> DEFINE entry == Log("queue", job.file, job.info)
        <3>1. entry \in LogEntry /\ ~ SavedInLdb(entry.kind)
            BY <2>1, EntryType DEF Log, SavedInLdb
        <3>2. LogAppend(job.to, entry)
            BY <2>2 DEF PostDelivered
        <3> HIDE DEF entry
        <3> QED
            BY <1>0, <2>1, <3>1, <3>2, LogAppended
    <2>3. CASE PostFailed(n, t)
        <3> DEFINE entry == Log("errors", job.file, Fresh(n))
        <3>1. entry \in LogEntry /\ ~ SavedInLdb(entry.kind)
            BY <2>1, InfoType, EntryType DEF Log, SavedInLdb
        <3>2. LogAppend(n, entry)
            BY <2>3 DEF PostFailed
        <3> HIDE DEF entry
        <3> QED
            BY <1>0, <3>1, <3>2, LogAppended
    <2>4. CASE \/ PostTake(n, t) \/ PostLost(n, t) \/ PostOk(n, t)
               \/ \E p \in Node : PostSkip(n, t, p) \/ PostFound(n, t, p)
                                                   \/ PostAbsent(n, t, p)
        <3>1. fileLog' = fileLog
            BY <2>4 DEF PostTake, PostLost, PostOk, PostSkip, PostFound, PostAbsent, chans
        <3> QED
            BY <1>0, <3>1, LogShrunk
    <2> QED
        BY <1>2, <2>2, <2>3, <2>4 DEF PostStep
<1>3. ASSUME NEW n \in Node, NEW d \in Getter, GetStep(n, d)
      PROVE  LoggedIsStored'
    <2> DEFINE job == get[n][d]
               entry == Log("files", job.file, job.info)
    <2>1. job.file \in File /\ job.info \in Info
        BY GetType
    <2>2. entry \in LogEntry /\ entry.file = job.file
        BY <2>1, EntryType DEF Log
    <2>3. CASE GetAnswered(n, d) /\ job.file \in disk[job.src]
        <3>1. job.file \in disk'[n] /\ LogAppend(n, entry)
            BY <2>3 DEF GetAnswered, Renamed, TypeOK
        <3> HIDE DEF entry
        <3> QED
            BY <1>0, <2>2, <3>1, LogAppended
    <2>4. CASE fileLog' = fileLog
        BY <1>0, <2>4, LogShrunk
    <2>5. \/ GetAnswered(n, d) /\ job.file \in disk[job.src]
          \/ fileLog' = fileLog
        BY <1>3 DEF GetStep, GetTake, GetStart, GetLock, GetAnswered, GetFailed, chans
    <2> QED
        BY <2>3, <2>4, <2>5
<1>4. ASSUME NEW n \in Node, ConsumeLog(n)
      PROVE  LoggedIsStored'
    BY <1>0, <1>4, LogShrunk DEF ConsumeLog
<1>5. ASSUME NEW n \in Node, Crash(n)
      PROVE  LoggedIsStored'
    BY <1>0, <1>5, LogShrunk DEF Crash
<1>6. ASSUME NEW n \in Node,
             \/ \E f \in File : ResendError(n, f) \/ LoadQueue(n, f)
             \/ \E d \in Reader, p \in Node, f \in File : GetFound(n, d, p, f)
             \/ Restart(n)
      PROVE  LoggedIsStored'
    <2>1. fileLog' = fileLog
        BY <1>6 DEF ResendError, LoadQueue, GetFound, Restart, chans
    <2> QED
        BY <1>0, <2>1, LogShrunk
<1>7. CASE UNCHANGED vars
    BY <1>0, <1>7 DEF vars, chans, stable, LoggedIsStored, SavedInLdb
<1> QED
    BY <1>1, <1>2, <1>3, <1>4, <1>5, <1>6, <1>7 DEF Next

(* A goroutine that will save a FileInfo works for a file on the disk.      *)
LEMMA StepPosted ==
    ASSUME TypeOK, StoredInv, [Next]_vars, \A m \in Node : disk[m] \subseteq disk'[m]
    PROVE  PostedIsStored'
<1>0. PostedIsStored
    BY DEF StoredInv
<1>1. ASSUME UNCHANGED post PROVE PostedIsStored'
    BY <1>0, <1>1 DEF PostedIsStored
<1>2. ASSUME NEW n \in Node, NEW t \in Poster, NEW job \in PostState,
             post' = [post EXCEPT ![n][t] = job],
             job.pc \in {"send", "reply"} => job.file \in disk[n]
      PROVE  PostedIsStored'
    <2> SUFFICES ASSUME NEW m \in Node, NEW u \in Poster,
                        post'[m][u].pc \in {"send", "reply"}
                 PROVE  post'[m][u].file \in disk'[m]
        BY DEF PostedIsStored
    <2>1. CASE m = n /\ u = t
        <3>1. post'[m][u] = job
            BY <1>2, <2>1 DEF TypeOK
        <3> QED
            BY <1>2, <2>1, <3>1
    <2>2. CASE ~ (m = n /\ u = t)
        <3>1. post'[m][u] = post[m][u]
            BY <1>2, <2>2 DEF TypeOK
        <3> QED
            BY <1>0, <3>1 DEF PostedIsStored
    <2> QED
        BY <2>1, <2>2
<1>3. \A n \in Node, f \in File, info \in Info, todo \in SUBSET Node :
         /\ NewPost(n, f, info, todo) \in PostState
         /\ NewPost(n, f, info, todo).pc \notin {"send", "reply"}
    BY StateType DEF NewPost
<1>4. ASSUME NEW n \in Node, NEW f \in File, Upload(n, f)
      PROVE  PostedIsStored'
    <2>1. f \in Poster /\ post' = [post EXCEPT ![n][f] = NewPost(n, f, Fresh(n), Peers[n])]
        BY <1>4 DEF Upload, Poster
    <2>2. Fresh(n) \in Info /\ Peers[n] \in SUBSET Node
        BY InfoType
    <2> QED
        BY <1>2, <1>3, <2>1, <2>2
<1>5. ASSUME NEW n \in Node, NEW t \in Poster, PostStep(n, t)
      PROVE  PostedIsStored'
    <2> DEFINE job == post[n][t]
    <2>0. job \in PostState
        BY DEF TypeOK
    <2>1. job \in PostState /\ job.file \in File /\ job.info \in Info
          /\ job.to \in Node /\ job.todo \in SUBSET Node
        BY <2>0 DEF PostState
    <2>2. ASSUME NEW p \in Node, NEW info \in Info,
                 post' = [post EXCEPT ![n][t] = Advance(n, job, p, info)]
          PROVE  PostedIsStored'
        <3>1. Advance(n, job, p, info) \in PostState
              /\ Advance(n, job, p, info).pc \notin {"send", "reply"}
            BY <1>3, <2>1 DEF Advance
        <3> QED
            BY <1>2, <2>2, <3>1
    <2>3. CASE PostTake(n, t)
        <3> DEFINE head == Head(toPeers[n])
        <3>1. toPeers[n] \in Seq(JobEntry) /\ toPeers[n] # <<>>
            BY <2>3 DEF PostTake, TypeOK
        <3>2. head \in JobEntry
            BY <3>1, HeadTail
        <3>3. head.file \in File /\ head.info \in Info /\ Peers[n] \in SUBSET Node
            BY <3>2 DEF JobEntry
        <3>4. post' = [post EXCEPT ![n][t] = NewPost(n, head.file, head.info, Peers[n])]
            BY <2>3 DEF PostTake
        <3> QED
            BY <1>2, <1>3, <3>3, <3>4
    <2>4. ASSUME NEW p \in Node, PostSkip(n, t, p) PROVE PostedIsStored'
        BY <2>1, <2>2, <2>4 DEF PostSkip
    <2>5. ASSUME NEW p \in Node, PostFound(n, t, p) PROVE PostedIsStored'
        <3>1. AddPeer(job.info, p) \in Info
            BY <2>1, InfoType
        <3> QED
            BY <2>2, <2>5, <3>1 DEF PostFound
    <2>6. ASSUME NEW p \in Node, PostAbsent(n, t, p) PROVE PostedIsStored'
        <3>1. Sending(job, p) \in PostState /\ Sending(job, p).file = job.file
            BY <2>1 DEF PostState, Sending
        <3>2. job.file \in disk[n] /\ post' = [post EXCEPT ![n][t] = Sending(job, p)]
            BY <2>6 DEF PostAbsent
        <3> QED
            BY <1>2, <3>1, <3>2
    <2>7. CASE PostDelivered(n, t) \/ PostLost(n, t)
        <3>1. ASSUME NEW result \in {"ok", "error", "refused"}
              PROVE  Replied(job, result) \in PostState /\ Replied(job, result).file = job.file
            BY <2>1 DEF PostState, Replied
        <3>2. job.file \in disk[n]
            BY <1>0, <2>7 DEF PostDelivered, PostLost, PostedIsStored
        <3>3. \E result \in {"ok", "error", "refused"} :
                 post' = [post EXCEPT ![n][t] = Replied(job, result)]
            BY <2>7 DEF PostDelivered, PostLost
        <3> QED
            BY <1>2, <3>1, <3>2, <3>3
    <2>8. CASE PostOk(n, t)
        <3>1. AddPeer(job.info, job.to) \in Info
            BY <2>1, InfoType
        <3> QED
            BY <2>1, <2>2, <2>8, <3>1 DEF PostOk
    <2>9. CASE PostFailed(n, t)
        <3> DEFINE info == IF job.result = "error" /\ MayRepost(job.info)
                           THEN Retried(job.info) ELSE job.info
        <3>1. info \in Info
            BY <2>1, InfoType
        <3> HIDE DEF info
        <3>2. post' = [post EXCEPT ![n][t] = Advance(n, job, job.to, info)]
            BY <2>9 DEF PostFailed, info
        <3> QED
            BY <2>1, <2>2, <3>1, <3>2
    <2> QED
        BY <1>5, <2>3, <2>4, <2>5, <2>6, <2>7, <2>8, <2>9 DEF PostStep
<1>6. ASSUME NEW n \in Node, Crash(n)
      PROVE  PostedIsStored'
    <2> SUFFICES ASSUME NEW m \in Node, NEW u \in Poster,
                        post'[m][u].pc \in {"send", "reply"}
                 PROVE  post'[m][u].file \in disk'[m]
        BY DEF PostedIsStored
    <2>1. CASE m = n
        <3>1. post'[m][u] = OffPosts(n)[u]
            BY <1>6, <2>1 DEF Crash, TypeOK
        <3>2. post'[m][u].pc = "off"
            BY <3>1 DEF OffPosts, NewPost
        <3> QED
            BY <3>2
    <2>2. CASE m # n
        <3>1. post'[m] = post[m]
            BY <1>6, <2>2 DEF Crash, TypeOK
        <3> QED
            BY <1>0, <3>1 DEF PostedIsStored
    <2> QED
        BY <2>1, <2>2
<1>7. ASSUME NEW n \in Node,
             \/ \E f \in File : ResendError(n, f) \/ LoadQueue(n, f)
             \/ \E d \in Reader, p \in Node, f \in File : GetFound(n, d, p, f)
             \/ Restart(n)
      PROVE  PostedIsStored'
    BY <1>1, <1>7 DEF ResendError, LoadQueue, GetFound, Restart
<1>8. ASSUME NEW n \in Node, NEW d \in Getter, GetStep(n, d)
      PROVE  PostedIsStored'
    BY <1>1, <1>8 DEF GetStep, GetTake, GetStart, GetLock, GetAnswered, GetFailed
<1>9. ASSUME NEW n \in Node, ConsumeLog(n)
      PROVE  PostedIsStored'
    BY <1>1, <1>9 DEF ConsumeLog
<1>10. CASE UNCHANGED vars
    BY <1>1, <1>10 DEF vars
<1> QED
    BY <1>4, <1>5, <1>6, <1>7, <1>8, <1>9, <1>10 DEF Next

(* Nothing is indexed, logged or posted at the start.                       *)
LEMMA InitStored == Init => StoredInv
<1> SUFFICES ASSUME Init PROVE StoredInv
    OBVIOUS
<1>1. IndexedIsStored /\ LoggedIsStored
    BY DEF Init, IndexedIsStored, LoggedIsStored
<1>2. PostedIsStored
    <2> SUFFICES ASSUME NEW n \in Node, NEW t \in Poster
                 PROVE  post[n][t].pc \notin {"send", "reply"}
        BY DEF PostedIsStored
    <2> QED
        BY DEF Init, OffPosts, NewPost
<1> QED
    BY <1>1, <1>2 DEF StoredInv

(* The strengthened invariant is inductive.                                 *)
LEMMA NextStored == TypeOK /\ StoredInv /\ [Next]_vars => StoredInv'
<1> SUFFICES ASSUME TypeOK, StoredInv, [Next]_vars PROVE StoredInv'
    OBVIOUS
<1>1. Effect
    BY StepEffect
<1>2. (\A n \in Node : disk[n] \subseteq disk'[n]) /\ IndexedIsStored'
    BY <1>1, EffectKeeps DEF StoredInv
<1> QED
    BY <1>2, StepLogged, StepPosted DEF StoredInv

(* So it holds in every reachable state.                                    *)
LEMMA StoredCorrect == Spec => []StoredInv
<1> QED
    BY InitStored, NextStored, TypeCorrect, PTL DEF Spec

(* Whatever crashes, restarts and lost messages there are, a node answers   *)
(* only for files on its disk.                                              *)
THEOREM IndexCorrect == Spec => []IndexedIsStored
<1>1. StoredInv => IndexedIsStored
    BY DEF StoredInv
<1> QED
    BY <1>1, StoredCorrect, PTL

-----------------------------------------------------------------------------
(* The empty cluster is an empty replica set.                               *)
LEMMA InitRefines == Init => RS!Init
    BY DEF Init, RS!Init, Indexed

(* Every step stores, copies or indexes one content, or none.               *)
LEMMA NextRefines == TypeOK /\ StoredInv /\ [Next]_vars => [RS!Next]_(RS!vars)
<1> SUFFICES ASSUME TypeOK, StoredInv, [Next]_vars PROVE [RS!Next]_(RS!vars)
    OBVIOUS
<1>1. CASE UNCHANGED <<disk, index>>
    BY <1>1 DEF RS!vars, Indexed
<1>2. ASSUME NEW n \in Node, NEW f \in File, Stores(n, f)
      PROVE  [RS!Next]_(RS!vars)
    <2>1. UNCHANGED Indexed
        BY <1>2 DEF Stores, Indexed
    <2>2. RS!Store(n, f) \/ \E m \in Node : RS!Copy(m, n, f)
        BY <1>2, <2>1 DEF Stores, RS!Store, RS!Copy
    <2> QED
        BY <2>2 DEF RS!Next
<1>3. ASSUME NEW n \in Node, NEW f \in File, Saves(n, f)
      PROVE  [RS!Next]_(RS!vars)
    <2>1. PICK info \in Info : index' = [index EXCEPT ![n][f] = info]
        BY <1>3 DEF Saves
    <2>2. info # NoInfo
        OBVIOUS
    <2>3. Indexed' = [Indexed EXCEPT ![n] = @ \cup {f}]
        <3>1. Indexed' = [m \in Node |-> {g \in File : index'[m][g] # NoInfo}]
            BY DEF Indexed
        <3>2. \A m \in Node : {g \in File : index'[m][g] # NoInfo}
                 = IF m = n THEN Indexed[n] \cup {f} ELSE Indexed[m]
            BY <2>1, <2>2 DEF Indexed, TypeOK
        <3> QED
            BY <3>1, <3>2 DEF Indexed
    <2>4. RS!Index(n, f)
        BY <1>3, <2>3 DEF Saves, RS!Index
    <2> QED
        BY <2>4 DEF RS!Next
<1>4. ASSUME NEW n \in Node, NEW f \in File, Drops(n, f)
      PROVE  [RS!Next]_(RS!vars)
    <2>1. index[n][f] = NoInfo
        BY <1>4 DEF Drops, StoredInv, IndexedIsStored
    <2>2. index' = index
        BY <1>4, <2>1 DEF Drops, TypeOK
    <2> QED
        BY <1>4, <2>2 DEF Drops, RS!vars, Indexed
<1> QED
    BY <1>1, <1>2, <1>3, <1>4, StepEffect DEF Effect

(* The cluster implements the abstract replica set: a node gets a content   *)
(* from a client or from a node that holds it, keeps it, and announces only *)
(* what it holds.                                                           *)
THEOREM ImplementsReplicaSet == Spec => Refinement
<1> QED
    BY InitRefines, NextRefines, TypeCorrect, StoredCorrect, PTL
    DEF Spec, Refinement, RS!Spec

-----------------------------------------------------------------------------
(* What can be said of every FileInfo a node keeps, logs, queues or works   *)
(* on: <<f, info>> is in a set S.  It survives a step when S is closed      *)
(* under what the handlers do to a FileInfo (AllKept below), so it can be   *)
(* used with any S; SourceCorrect takes the FileInfos whose first peer has  *)
(* the file.                                                                *)
TableIn(T, S) ==
    \A n \in Node, f \in File : T[n][f] # NoInfo => <<f, T[n][f]>> \in S

QueueIn(Q, S) ==
    \A n \in Node : \A i \in 1..Len(Q[n]) : <<Q[n][i].file, Q[n][i].info>> \in S

RunsIn(R, T, S) ==
    \A n \in Node, t \in T : R[n][t].pc # "off" => <<R[n][t].file, R[n][t].info>> \in S

(* The FileInfo of an upload that consumerLog has still to save.            *)
UploadsIn(S) ==
    \A n \in Node : \A i \in 1..Len(fileLog[n]) :
        fileLog[n][i].kind = "upload" =>
            <<fileLog[n][i].file, post[n][fileLog[n][i].file].info>> \in S

AllIn(S) == /\ TableIn(index, S) /\ TableIn(byPath, S)
            /\ TableIn(queueMd5, S) /\ TableIn(toLoad, S)
            /\ QueueIn(fileLog, S) /\ QueueIn(toPeers, S) /\ QueueIn(fromPeers, S)
            /\ RunsIn(post, Poster, S) /\ RunsIn(get, Getter, S)
            /\ UploadsIn(S)

(* What the handlers do to a FileInfo they have.                            *)
Closed(S) ==
    \A f \in File, info \in Info :
        <<f, info>> \in S =>
            /\ \A p \in Node : <<f, AddPeer(info, p)>> \in S
            /\ Retried(info) \in Info => <<f, Retried(info)>> \in S

InfoTable == [Node -> [File -> Info \cup {NoInfo}]]

(* A table after one entry is written or removed.                           *)
LEMMA TableKept ==
    ASSUME NEW S, NEW T \in InfoTable, TableIn(T, S),
           NEW n \in Node, NEW f \in File, NEW info \in Info \cup {NoInfo},
           info # NoInfo => <<f, info>> \in S
    PROVE  TableIn([T EXCEPT ![n][f] = info], S)
<1> SUFFICES ASSUME NEW m \in Node, NEW g \in File,
                    [T EXCEPT ![n][f] = info][m][g] # NoInfo
             PROVE  <<g, [T EXCEPT ![n][f] = info][m][g]>> \in S
    BY DEF TableIn
<1>1. CASE m = n /\ g = f
    BY <1>1 DEF InfoTable
<1>2. CASE ~ (m = n /\ g = f)
    <2>1. [T EXCEPT ![n][f] = info][m][g] = T[m][g]
        BY <1>2 DEF InfoTable
    <2> QED
        BY <2>1 DEF TableIn
<1> QED
    BY <1>1, <1>2

(* A channel after a send, a receive, or the end of its process.            *)
LEMMA QueueKept ==
    ASSUME NEW S, NEW E, NEW Q \in [Node -> Seq(E)], QueueIn(Q, S), NEW n \in Node
    PROVE  /\ \A entry \in E : <<entry.file, entry.info>> \in S =>
                 QueueIn([Q EXCEPT ![n] = Append(@, entry)], S)
           /\ Q[n] # <<>> => QueueIn([Q EXCEPT ![n] = Tail(@)], S)
           /\ QueueIn([Q EXCEPT ![n] = <<>>], S)
<1>0. \A m \in Node : Q[m] \in Seq(E)
    OBVIOUS
<1>1. ASSUME NEW q \in Seq(E),
             \A i \in 1..Len(q) : <<q[i].file, q[i].info>> \in S
      PROVE  QueueIn([Q EXCEPT ![n] = q], S)
    BY <1>1 DEF QueueIn
<1>2. ASSUME NEW entry \in E, <<entry.file, entry.info>> \in S
      PROVE  QueueIn([Q EXCEPT ![n] = Append(@, entry)], S)
    <2> DEFINE q == Append(Q[n], entry)
    <2>1. q \in Seq(E)
        BY <1>0
    <2>2. \A i \in 1..Len(q) : q[i] = entry \/ (i \in 1..Len(Q[n]) /\ q[i] = Q[n][i])
        BY <1>0
    <2>3. [Q EXCEPT ![n] = Append(@, entry)] = [Q EXCEPT ![n] = q]
        OBVIOUS
    <2> HIDE DEF q
    <2>4. \A i \in 1..Len(q) : <<q[i].file, q[i].info>> \in S
        BY <1>2, <2>2 DEF QueueIn
    <2> QED
        BY <1>1, <2>1, <2>3, <2>4
<1>3. ASSUME Q[n] # <<>>
      PROVE  QueueIn([Q EXCEPT ![n] = Tail(@)], S)
    <2> DEFINE q == Tail(Q[n])
    <2>1. q \in Seq(E)
        BY <1>0, <1>3, HeadTail
    <2>2. \A i \in 1..Len(q) : i + 1 \in 1..Len(Q[n]) /\ q[i] = Q[n][i + 1]
        BY <1>0, <1>3, TailEntry
    <2>3. [Q EXCEPT ![n] = Tail(@)] = [Q EXCEPT ![n] = q]
        OBVIOUS
    <2> HIDE DEF q
    <2>4. \A i \in 1..Len(q) : <<q[i].file, q[i].info>> \in S
        BY <2>2 DEF QueueIn
    <2> QED
        BY <1>1, <2>1, <2>3, <2>4
<1>4. QueueIn([Q EXCEPT ![n] = <<>>], S)
    BY DEF QueueIn
<1> QED
    BY <1>2, <1>3, <1>4

(* A goroutine of a node after a step of its own, all after a crash.        *)
LEMMA RunsKept ==
    ASSUME NEW S, NEW T, NEW A, NEW R \in [Node -> [T -> A]], RunsIn(R, T, S),
           NEW n \in Node
    PROVE  /\ \A t \in T, run \in A :
                 (run.pc # "off" => <<run.file, run.info>> \in S) =>
                    RunsIn([R EXCEPT ![n][t] = run], T, S)
           /\ \A off \in [T -> A] :
                 (\A t \in T : off[t].pc = "off") => RunsIn([R EXCEPT ![n] = off], T, S)
<1>1. ASSUME NEW t \in T, NEW run \in A,
             run.pc # "off" => <<run.file, run.info>> \in S
      PROVE  RunsIn([R EXCEPT ![n][t] = run], T, S)
    <2> SUFFICES ASSUME NEW m \in Node, NEW u \in T,
                        [R EXCEPT ![n][t] = run][m][u].pc # "off"
                 PROVE  <<[R EXCEPT ![n][t] = run][m][u].file,
                          [R EXCEPT ![n][t] = run][m][u].info>> \in S
        BY DEF RunsIn
    <2>1. CASE m = n /\ u = t
        <3>1. [R EXCEPT ![n][t] = run][m][u] = run
            BY <2>1
        <3> QED
            BY <1>1, <3>1
    <2>2. CASE ~ (m = n /\ u = t)
        <3>1. [R EXCEPT ![n][t] = run][m][u] = R[m][u]
            BY <2>2
        <3> QED
            BY <3>1 DEF RunsIn
    <2> QED
        BY <2>1, <2>2
<1>2. ASSUME NEW off \in [T -> A], \A t \in T : off[t].pc = "off"
      PROVE  RunsIn([R EXCEPT ![n] = off], T, S)
    BY <1>2 DEF RunsIn
<1> QED
    BY <1>1, <1>2

(* A step of n, or of one of its goroutines, other than one that looks for  *)
(* a file at a peer.                                                        *)
OwnStep(n) ==
    \/ \E f \in File : Upload(n, f) \/ ResendError(n, f) \/ LoadQueue(n, f)
    \/ \E t \in Poster : PostStep(n, t)
    \/ \E d \in Getter : GetStep(n, d)
    \/ ConsumeLog(n)
    \/ Crash(n)
    \/ Restart(n)

(* What the databases hold, and what is to be loaded from them.             *)
LEMMA StepTables ==
    ASSUME TypeOK, NEW S, Closed(S), AllIn(S), NEW n \in Node, OwnStep(n)
    PROVE  /\ TableIn(index', S) /\ TableIn(byPath', S)
           /\ TableIn(queueMd5', S) /\ TableIn(toLoad', S)
<1> DEFINE Goal == /\ TableIn(index', S) /\ TableIn(byPath', S)
                   /\ TableIn(queueMd5', S) /\ TableIn(toLoad', S)
<1>1. /\ index \in InfoTable /\ byPath \in InfoTable
      /\ queueMd5 \in InfoTable /\ toLoad \in InfoTable
    BY DEF TypeOK, InfoTable
<1>2. /\ TableIn(index, S) /\ TableIn(byPath, S)
      /\ TableIn(queueMd5, S) /\ TableIn(toLoad, S)
    BY DEF AllIn
<1>3. ASSUME UNCHANGED <<index, byPath, queueMd5, toLoad>> PROVE Goal
    BY <1>2, <1>3
<1>4. ASSUME NEW m \in Node, NEW f \in File, NEW info \in Info \cup {NoInfo},
             info # NoInfo => <<f, info>> \in S,
             index' = [index EXCEPT ![m][f] = info],
             UNCHANGED <<byPath, queueMd5, toLoad>>
      PROVE  Goal
    BY <1>1, <1>2, <1>4, TableKept
<1>5. ASSUME NEW f \in File, LoadQueue(n, f) PROVE Goal
    <2>1. toLoad' = [toLoad EXCEPT ![n][f] = NoInfo]
          /\ UNCHANGED <<index, byPath, queueMd5>>
        BY <1>5 DEF LoadQueue, stable
    <2>2. TableIn(toLoad', S)
        BY <1>1, <1>2, <2>1, TableKept
    <2> QED
        BY <1>2, <2>1, <2>2
<1>6. ASSUME NEW t \in Poster, PostStep(n, t) PROVE Goal
    <2> DEFINE job == post[n][t]
    <2>1. job.file \in File /\ job.info \in Info /\ job.to \in Node
        BY PostType
    <2>2. job.pc # "off" => <<job.file, job.info>> \in S
        BY DEF AllIn, RunsIn
    <2>3. ASSUME NEW p \in Node, job.pc # "off",
                 SaveInfo(n, job.file, AddPeer(job.info, p)),
                 UNCHANGED <<byPath, queueMd5, toLoad>>
          PROVE  Goal
        <3>1. AddPeer(job.info, p) \in Info /\ <<job.file, AddPeer(job.info, p)>> \in S
            BY <2>1, <2>2, <2>3, InfoType DEF Closed
        <3> QED
            BY <1>4, <2>1, <2>3, <3>1 DEF SaveInfo
    <2>4. ASSUME NEW p \in Node, PostFound(n, t, p) PROVE Goal
        BY <2>3, <2>4 DEF PostFound
    <2>5. CASE PostOk(n, t)
        BY <2>1, <2>3, <2>5 DEF PostOk
    <2>6. ASSUME NEW p \in Node, PostAbsent(n, t, p) PROVE Goal
        <3>1. /\ \/ UNCHANGED index
                 \/ index' = [index EXCEPT ![p][job.file] = NoInfo]
              /\ UNCHANGED <<byPath, queueMd5, toLoad>>
            BY <2>6 DEF PostAbsent, SaveInfo
        <3> QED
            BY <1>3, <1>4, <2>1, <3>1
    <2>7. CASE \/ PostTake(n, t) \/ PostDelivered(n, t) \/ PostLost(n, t)
               \/ PostFailed(n, t) \/ \E p \in Node : PostSkip(n, t, p)
        <3>1. UNCHANGED <<index, byPath, queueMd5, toLoad>>
            BY <2>7 DEF PostTake, PostDelivered, PostLost, PostFailed, PostSkip, stable
        <3> QED
            BY <1>3, <3>1
    <2> QED
        BY <1>6, <2>4, <2>5, <2>6, <2>7 DEF PostStep
<1>7. CASE ConsumeLog(n)
    <2> DEFINE entry == Head(fileLog[n])
               f     == entry.file
               saved == IF entry.kind = "upload" THEN post[n][f].info ELSE entry.info
    <2>1. fileLog[n] \in Seq(LogEntry) /\ fileLog[n] # <<>>
        BY <1>7 DEF ConsumeLog, TypeOK
    <2>2. entry \in LogEntry /\ 1 \in 1..Len(fileLog[n]) /\ entry = fileLog[n][1]
        BY <2>1, HeadTail
    <2>3. f \in File /\ entry.info \in Info
        BY <2>2 DEF LogEntry
    <2>4. saved \in Info
        BY <2>3 DEF TypeOK, PostState, Poster
    <2>5. <<f, entry.info>> \in S
        BY <2>2 DEF AllIn, QueueIn
    <2>6. <<f, saved>> \in S
        BY <2>2, <2>5 DEF AllIn, UploadsIn
    <2>7. \/ /\ byPath' = [byPath EXCEPT ![n][f] = saved]
             /\ index' = [index EXCEPT ![n][f] = saved] \/ UNCHANGED index
             /\ UNCHANGED <<queueMd5, toLoad>>
          \/ /\ queueMd5' = [queueMd5 EXCEPT ![n][f] = entry.info]
             /\ UNCHANGED <<index, byPath, toLoad>>
          \/ UNCHANGED <<index, byPath, queueMd5, toLoad>>
        BY <1>7 DEF ConsumeLog, SaveLogged, SaveInfo
    <2> HIDE DEF entry, f, saved
    <2>8. TableIn([byPath EXCEPT ![n][f] = saved], S)
        BY <1>1, <1>2, <2>3, <2>4, <2>6, TableKept
    <2>9. TableIn([index EXCEPT ![n][f] = saved], S)
        BY <1>1, <1>2, <2>3, <2>4, <2>6, TableKept
    <2>10. TableIn([queueMd5 EXCEPT ![n][f] = entry.info], S)
        BY <1>1, <1>2, <2>3, <2>5, TableKept
    <2> QED
        BY <1>2, <2>7, <2>8, <2>9, <2>10
<1>8. CASE Crash(n) \/ Restart(n)
    <2>1. UNCHANGED <<index, byPath, queueMd5>>
        BY <1>8 DEF Crash, Restart, stable
    <2>2. \/ toLoad' = [toLoad EXCEPT ![n] = [f \in File |-> NoInfo]]
          \/ toLoad' = [toLoad EXCEPT ![n] = queueMd5[n]]
        BY <1>8 DEF Crash, Restart, TodaysQueue
    <2>3. TableIn(toLoad', S)
        <3>1. \A m \in Node, f \in File : \/ toLoad'[m][f] = toLoad[m][f]
                                         \/ toLoad'[m][f] = queueMd5[m][f]
                                         \/ toLoad'[m][f] = NoInfo
            <4>1. CASE toLoad' = [toLoad EXCEPT ![n] = [f \in File |-> NoInfo]]
                BY <1>1, <4>1 DEF InfoTable
            <4>2. CASE toLoad' = [toLoad EXCEPT ![n] = queueMd5[n]]
                BY <1>1, <4>2 DEF InfoTable
            <4> QED
                BY <2>2, <4>1, <4>2
        <3> QED
            BY <1>2, <3>1 DEF TableIn
    <2> QED
        BY <1>2, <2>1, <2>3
<1>9. CASE \E f \in File : Upload(n, f) \/ ResendError(n, f)
    <2>1. UNCHANGED <<index, byPath, queueMd5, toLoad>>
        BY <1>9 DEF Upload, ResendError, stable
    <2> QED
        BY <1>3, <2>1
<1>10. CASE \E d \in Getter : GetStep(n, d)
    <2>1. UNCHANGED <<index, byPath, queueMd5, toLoad>>
        BY <1>10 DEF GetStep, GetTake, GetStart, GetLock, GetAnswered, GetFailed, stable
    <2> QED
        BY <1>3, <2>1
<1> QED
    BY <1>5, <1>6, <1>7, <1>8, <1>9, <1>10 DEF OwnStep

(* What the channels carry.                                                 *)
LEMMA StepQueues ==
    ASSUME TypeOK, StoredInv, NEW S, Closed(S), AllIn(S), NEW n \in Node, OwnStep(n),
           \A m \in Node : \A f \in disk'[m] : <<f, Fresh(m)>> \in S,
           \A m \in Node : disk[m] \subseteq disk'[m]
    PROVE  QueueIn(fileLog', S) /\ QueueIn(toPeers', S) /\ QueueIn(fromPeers', S)
<1> DEFINE Goal == QueueIn(fileLog', S) /\ QueueIn(toPeers', S) /\ QueueIn(fromPeers', S)
<1>1. /\ fileLog \in [Node -> Seq(LogEntry)] /\ toPeers \in [Node -> Seq(JobEntry)]
      /\ fromPeers \in [Node -> Seq(JobEntry)]
    BY DEF TypeOK
<1>2. QueueIn(fileLog, S) /\ QueueIn(toPeers, S) /\ QueueIn(fromPeers, S)
    BY DEF AllIn
<1>3. ASSUME UNCHANGED <<fileLog, toPeers, fromPeers>> PROVE Goal
    BY <1>2, <1>3
<1>4. ASSUME NEW m \in Node, NEW kind \in {"upload", "files", "queue", "errors"},
             NEW f \in File, NEW info \in Info, <<f, info>> \in S
      PROVE  QueueIn([fileLog EXCEPT ![m] = Append(@, Log(kind, f, info))], S)
    <2>1. Log(kind, f, info) \in LogEntry
          /\ <<Log(kind, f, info).file, Log(kind, f, info).info>> \in S
        BY <1>4, EntryType DEF Log
    <2> QED
        BY <1>1, <1>2, <2>1, QueueKept
<1>5. ASSUME NEW m \in Node, NEW f \in File, NEW info \in Info, <<f, info>> \in S
      PROVE  /\ QueueIn([toPeers EXCEPT ![m] = Append(@, Job(f, info))], S)
             /\ QueueIn([fromPeers EXCEPT ![m] = Append(@, Job(f, info))], S)
    <2>1. Job(f, info) \in JobEntry /\ <<Job(f, info).file, Job(f, info).info>> \in S
        BY <1>5, EntryType DEF Job
    <2> QED
        BY <1>1, <1>2, <2>1, QueueKept
<1>6. ASSUME NEW f \in File, Upload(n, f) PROVE Goal
    <2>1. Fresh(n) \in Info /\ <<f, Fresh(n)>> \in S
        BY <1>6, InfoType DEF Upload, TypeOK
    <2>2. QueueIn(fileLog', S)
        BY <1>4, <1>6, <2>1 DEF Upload, LogAppend
    <2> QED
        BY <1>2, <1>6, <2>2 DEF Upload
<1>7. ASSUME NEW f \in File, ResendError(n, f) PROVE Goal
    <2> DEFINE info == index[n][f]
               sent == IF Contains(n, info.peers) THEN info ELSE AddPeer(info, n)
    <2>1. info \in Info /\ <<f, info>> \in S
        BY <1>7 DEF ResendError, TypeOK, AllIn, TableIn
    <2>2. sent \in Info /\ <<f, sent>> \in S
        BY <2>1, InfoType DEF Closed
    <2>3. toPeers' = [toPeers EXCEPT ![n] = Append(@, Job(f, sent))]
        BY <1>7 DEF ResendError
    <2> HIDE DEF sent
    <2>4. QueueIn(toPeers', S)
        BY <1>5, <2>2, <2>3
    <2> QED
        BY <1>2, <1>7, <2>4 DEF ResendError
<1>8. ASSUME NEW f \in File, LoadQueue(n, f) PROVE Goal
    <2>1. toLoad[n][f] \in Info /\ <<f, toLoad[n][f]>> \in S
        BY <1>8 DEF LoadQueue, TypeOK, AllIn, TableIn
    <2>2. QueueIn(fromPeers', S)
        BY <1>5, <1>8, <2>1 DEF LoadQueue
    <2> QED
        BY <1>2, <1>8, <2>2 DEF LoadQueue
<1>9. ASSUME NEW t \in Poster, PostStep(n, t) PROVE Goal
    <2> DEFINE job == post[n][t]
    <2>1. job.file \in File /\ job.info \in Info /\ job.to \in Node
        BY PostType
    <2>2. job.pc # "off" => <<job.file, job.info>> \in S
        BY DEF AllIn, RunsIn
    <2>3. CASE PostTake(n, t)
        <3>1. QueueIn(toPeers', S)
            BY <1>1, <1>2, <2>3, QueueKept DEF PostTake
        <3> QED
            BY <1>2, <2>3, <3>1 DEF PostTake
    <2>4. CASE PostDelivered(n, t)
        <3>1. <<job.file, job.info>> \in S
            BY <2>2, <2>4 DEF PostDelivered
        <3>2. QueueIn(fileLog', S)
            BY <1>4, <2>1, <2>4, <3>1 DEF PostDelivered, LogAppend
        <3>3. QueueIn(fromPeers', S)
            BY <1>5, <2>1, <2>4, <3>1 DEF PostDelivered
        <3> QED
            BY <1>2, <2>4, <3>2, <3>3 DEF PostDelivered
    <2>5. CASE PostFailed(n, t)
        <3> DEFINE again == job.result = "error" /\ MayRepost(job.info)
                   info == IF again THEN Retried(job.info) ELSE job.info
        <3>1. info \in Info
            BY <2>1, InfoType
        <3>2. job.pc = "reply" /\ <<job.file, info>> \in S
            BY <2>1, <2>2, <2>5, <3>1 DEF PostFailed, Closed
        <3>3. job.file \in disk[n]
            BY <3>2 DEF StoredInv, PostedIsStored
        <3>4. Fresh(n) \in Info /\ <<job.file, Fresh(n)>> \in S
            BY <3>3, InfoType
        <3>5. /\ LogAppend(n, Log("errors", job.file, Fresh(n)))
              /\ \/ toPeers' = [toPeers EXCEPT ![n] = Append(@, Job(job.file, info))]
                 \/ UNCHANGED toPeers
              /\ UNCHANGED fromPeers
            BY <2>5 DEF PostFailed
        <3> HIDE DEF info, again
        <3>6. QueueIn(fileLog', S)
            BY <1>4, <2>1, <3>4, <3>5 DEF LogAppend
        <3>7. QueueIn(toPeers', S)
            <4>1. CASE UNCHANGED toPeers
                BY <1>2, <4>1
            <4>2. CASE toPeers' = [toPeers EXCEPT ![n] = Append(@, Job(job.file, info))]
                BY <1>5, <2>1, <3>1, <3>2, <4>2
            <4> QED
                BY <3>5, <4>1, <4>2
        <3> QED
            BY <1>2, <3>5, <3>6, <3>7
    <2>6. CASE \/ PostLost(n, t) \/ PostOk(n, t)
               \/ \E p \in Node : \/ PostSkip(n, t, p) \/ PostFound(n, t, p)
                                  \/ PostAbsent(n, t, p)
        <3>1. UNCHANGED <<fileLog, toPeers, fromPeers>>
            BY <2>6 DEF PostLost, PostOk, PostSkip, PostFound, PostAbsent, chans
        <3> QED
            BY <1>3, <3>1
    <2> QED
        BY <1>9, <2>3, <2>4, <2>5, <2>6 DEF PostStep
<1>10. ASSUME NEW d \in Getter, GetStep(n, d) PROVE Goal
    <2> DEFINE job == get[n][d]
    <2>1. job.file \in File /\ job.info \in Info
        BY GetType
    <2>2. job.pc # "off" => <<job.file, job.info>> \in S
        BY DEF AllIn, RunsIn
    <2>3. CASE GetTake(n, d)
        <3>1. fromPeers[n] # <<>> /\ fromPeers' = [fromPeers EXCEPT ![n] = Tail(@)]
              /\ UNCHANGED <<fileLog, toPeers>>
            BY <2>3 DEF GetTake
        <3>2. QueueIn(fromPeers', S)
            BY <1>1, <1>2, <3>1, QueueKept
        <3> QED
            BY <1>2, <3>1, <3>2
    <2>4. CASE GetAnswered(n, d)
        <3>1. <<job.file, job.info>> \in S
            BY <2>2, <2>4 DEF GetAnswered
        <3>2. QueueIn(fileLog', S)
            BY <1>2, <1>4, <2>1, <2>4, <3>1 DEF GetAnswered, LogAppend
        <3> QED
            BY <1>2, <2>4, <3>2 DEF GetAnswered
    <2>5. CASE GetFailed(n, d)
        <3>1. <<job.file, job.info>> \in S
            BY <2>2, <2>5 DEF GetFailed
        <3>2. QueueIn(fromPeers', S)
            BY <1>5, <2>1, <2>5, <3>1 DEF GetFailed, QueuedAgain
        <3> QED
            BY <1>2, <2>5, <3>2 DEF GetFailed
    <2>6. CASE GetStart(n, d) \/ GetLock(n, d)
        BY <1>3, <2>6 DEF GetStart, GetLock, chans
    <2> QED
        BY <1>10, <2>3, <2>4, <2>5, <2>6 DEF GetStep
<1>11. CASE ConsumeLog(n)
    <2>1. fileLog[n] # <<>> /\ fileLog' = [fileLog EXCEPT ![n] = Tail(@)]
          /\ UNCHANGED <<toPeers, fromPeers>>
        BY <1>11 DEF ConsumeLog
    <2>2. QueueIn(fileLog', S)
        BY <1>1, <1>2, <2>1, QueueKept
    <2> QED
        BY <1>2, <2>1, <2>2
<1>12. CASE Crash(n)
    <2>1. QueueIn(fileLog', S)
        BY <1>1, <1>2, <1>12, QueueKept DEF Crash
    <2>2. QueueIn(toPeers', S)
        BY <1>1, <1>2, <1>12, QueueKept DEF Crash
    <2>3. QueueIn(fromPeers', S)
        BY <1>1, <1>2, <1>12, QueueKept DEF Crash
    <2> QED
        BY <2>1, <2>2, <2>3
<1>13. CASE Restart(n)
    BY <1>3, <1>13 DEF Restart, chans
<1> QED
    BY <1>6, <1>7, <1>8, <1>9, <1>10, <1>11, <1>12, <1>13 DEF OwnStep

(* What the goroutines of postFileToPeer work on.                           *)
LEMMA StepPosts ==
    ASSUME TypeOK, NEW S, Closed(S), AllIn(S), NEW n \in Node, OwnStep(n),
           \A m \in Node : \A f \in disk'[m] : <<f, Fresh(m)>> \in S
    PROVE  RunsIn(post', Poster, S)
<1>1. post \in [Node -> [Poster -> PostState]] /\ RunsIn(post, Poster, S)
    BY DEF TypeOK, AllIn
<1>2. ASSUME NEW t \in Poster, NEW run \in PostState,
             run.pc # "off" => <<run.file, run.info>> \in S,
             post' = [post EXCEPT ![n][t] = run]
      PROVE  RunsIn(post', Poster, S)
    BY <1>1, <1>2, RunsKept
<1>3. ASSUME NEW t \in Poster, NEW f \in File, NEW info \in Info,
             NEW todo \in SUBSET Node, <<f, info>> \in S,
             post' = [post EXCEPT ![n][t] = NewPost(n, f, info, todo)]
      PROVE  RunsIn(post', Poster, S)
    <2> DEFINE run == NewPost(n, f, info, todo)
    <2>1. run \in PostState
        BY StateType
    <2>2. run.file = f /\ run.info = info
        BY DEF NewPost
    <2>3. post' = [post EXCEPT ![n][t] = run]
        BY <1>3
    <2> HIDE DEF run
    <2> QED
        BY <1>2, <1>3, <2>1, <2>2, <2>3
<1>4. ASSUME NEW f \in File, Upload(n, f) PROVE RunsIn(post', Poster, S)
    <2>1. <<f, Fresh(n)>> \in S /\ Fresh(n) \in Info /\ f \in Poster
          /\ Peers[n] \in SUBSET Node
        BY <1>4, InfoType DEF Upload, TypeOK, Poster
    <2>2. post' = [post EXCEPT ![n][f] = NewPost(n, f, Fresh(n), Peers[n])]
        BY <1>4 DEF Upload
    <2> QED
        BY <1>3, <2>1, <2>2
<1>5. ASSUME NEW t \in Poster, PostStep(n, t) PROVE RunsIn(post', Poster, S)
    <2> DEFINE job == post[n][t]
    <2>0. job \in PostState
        BY DEF TypeOK
    <2>1. job.file \in File /\ job.info \in Info /\ job.to \in Node
          /\ job.todo \in SUBSET Node
        BY <2>0 DEF PostState
    <2>2. job.pc # "off" => <<job.file, job.info>> \in S
        BY DEF AllIn, RunsIn
    <2>3. ASSUME NEW p \in Node, NEW info \in Info, <<job.file, info>> \in S,
                 post' = [post EXCEPT ![n][t] = Advance(n, job, p, info)]
          PROVE  RunsIn(post', Poster, S)
        <3> DEFINE todo == job.todo \ {p}
        <3>1. todo \in SUBSET Node
            BY <2>1
        <3>2. post' = [post EXCEPT ![n][t] = NewPost(n, job.file, info, todo)]
            BY <2>3 DEF Advance
        <3>3. job.file \in File
            BY <2>1
        <3> HIDE DEF todo, job
        <3> QED
            BY <1>3, <2>3, <3>1, <3>2, <3>3
    <2>4. ASSUME job.pc # "off"
          PROVE  \A p \in Node : /\ AddPeer(job.info, p) \in Info
                                 /\ <<job.file, AddPeer(job.info, p)>> \in S
        BY <2>1, <2>2, <2>4, InfoType DEF Closed
    <2>5. CASE PostTake(n, t)
        <3> DEFINE head == Head(toPeers[n])
        <3>1. toPeers[n] \in Seq(JobEntry) /\ toPeers[n] # <<>>
            BY <2>5 DEF PostTake, TypeOK
        <3>2. head \in JobEntry /\ 1 \in 1..Len(toPeers[n]) /\ head = toPeers[n][1]
            BY <3>1, HeadTail
        <3>3. head.file \in File /\ head.info \in Info /\ Peers[n] \in SUBSET Node
            BY <3>2 DEF JobEntry
        <3>4. <<head.file, head.info>> \in S
            BY <3>2 DEF AllIn, QueueIn
        <3>5. post' = [post EXCEPT ![n][t] = NewPost(n, head.file, head.info, Peers[n])]
            BY <2>5 DEF PostTake
        <3> QED
            BY <1>3, <3>3, <3>4, <3>5
    <2>6. ASSUME NEW p \in Node, PostSkip(n, t, p) PROVE RunsIn(post', Poster, S)
        <3>1. <<job.file, job.info>> \in S
              /\ post' = [post EXCEPT ![n][t] = Advance(n, job, p, job.info)]
            BY <2>2, <2>6 DEF PostSkip
        <3> QED
            BY <2>1, <2>3, <3>1
    <2>7. ASSUME NEW p \in Node, PostFound(n, t, p) PROVE RunsIn(post', Poster, S)
        <3>1. job.pc # "off"
              /\ post' = [post EXCEPT ![n][t] = Advance(n, job, p, AddPeer(job.info, p))]
            BY <2>7 DEF PostFound
        <3> QED
            BY <2>3, <2>4, <3>1
    <2>8. ASSUME NEW p \in Node, PostAbsent(n, t, p) PROVE RunsIn(post', Poster, S)
        <3>1. Sending(job, p) \in PostState /\ Sending(job, p).file = job.file
              /\ Sending(job, p).info = job.info
            BY <2>0 DEF PostState, Sending
        <3>2. post' = [post EXCEPT ![n][t] = Sending(job, p)] /\ <<job.file, job.info>> \in S
            BY <2>2, <2>8 DEF PostAbsent
        <3> QED
            BY <1>2, <3>1, <3>2
    <2>9. CASE PostDelivered(n, t) \/ PostLost(n, t)
        <3>1. PICK result \in {"ok", "error", "refused"} :
                 post' = [post EXCEPT ![n][t] = Replied(job, result)]
            BY <2>9 DEF PostDelivered, PostLost
        <3>2. Replied(job, result) \in PostState /\ Replied(job, result).file = job.file
              /\ Replied(job, result).info = job.info
            BY <2>0 DEF PostState, Replied
        <3>3. <<job.file, job.info>> \in S
            BY <2>2, <2>9 DEF PostDelivered, PostLost
        <3> QED
            BY <1>2, <3>1, <3>2, <3>3
    <2>10. CASE PostOk(n, t)
        <3>1. job.pc # "off"
              /\ post' = [post EXCEPT ![n][t]
                             = Advance(n, job, job.to, AddPeer(job.info, job.to))]
            BY <2>10 DEF PostOk
        <3> QED
            BY <2>1, <2>3, <2>4, <3>1
    <2>11. CASE PostFailed(n, t)
        <3> DEFINE info == IF job.result = "error" /\ MayRepost(job.info)
                           THEN Retried(job.info) ELSE job.info
        <3>1. info \in Info
            BY <2>1, InfoType
        <3>2. <<job.file, info>> \in S
            BY <2>1, <2>2, <2>11, <3>1 DEF PostFailed, Closed
        <3>3. post' = [post EXCEPT ![n][t] = Advance(n, job, job.to, info)]
            BY <2>11 DEF PostFailed
        <3> HIDE DEF info
        <3> QED
            BY <2>1, <2>3, <3>1, <3>2, <3>3
    <2> QED
        BY <1>5, <2>5, <2>6, <2>7, <2>8, <2>9, <2>10, <2>11 DEF PostStep
<1>6. CASE Crash(n)
    <2>1. OffPosts(n) \in [Poster -> PostState] /\ \A t \in Poster : OffPosts(n)[t].pc = "off"
        BY StateType DEF OffPosts, NewPost
    <2>2. post' = [post EXCEPT ![n] = OffPosts(n)]
        BY <1>6 DEF Crash
    <2> QED
        BY <1>1, <2>1, <2>2, RunsKept
<1>7. CASE \/ \E f \in File : ResendError(n, f) \/ LoadQueue(n, f)
           \/ \E d \in Getter : GetStep(n, d)
           \/ ConsumeLog(n) \/ Restart(n)
    <2>1. post' = post
        BY <1>7 DEF ResendError, LoadQueue, GetStep, GetTake, GetStart, GetLock,
                    GetAnswered, GetFailed, ConsumeLog, Restart
    <2> QED
        BY <1>1, <2>1
<1> QED
    BY <1>4, <1>5, <1>6, <1>7 DEF OwnStep

(* What the goroutines of downloadFromPeer work on.                         *)
LEMMA StepGets ==
    ASSUME TypeOK, NEW S, Closed(S), AllIn(S), NEW n \in Node, OwnStep(n)
    PROVE  RunsIn(get', Getter, S)
<1>1. get \in [Node -> [Getter -> GetState]] /\ RunsIn(get, Getter, S)
    BY DEF TypeOK, AllIn
<1>2. ASSUME NEW d \in Getter, NEW run \in GetState,
             run.pc # "off" => <<run.file, run.info>> \in S,
             get' = [get EXCEPT ![n][d] = run]
      PROVE  RunsIn(get', Getter, S)
    BY <1>1, <1>2, RunsKept
<1>3. NewGet(n) \in GetState /\ NewGet(n).pc = "off"
    BY StateType DEF NewGet
<1>4. ASSUME NEW d \in Getter, GetStep(n, d) PROVE RunsIn(get', Getter, S)
    <2> DEFINE job == get[n][d]
    <2>0. job \in GetState
        BY DEF TypeOK
    <2>1. job.file \in File /\ job.info \in Info
        BY <2>0 DEF GetState
    <2>2. job.pc # "off" => <<job.file, job.info>> \in S
        BY DEF AllIn, RunsIn
    <2>3. CASE GetTake(n, d)
        <3> DEFINE head == Head(fromPeers[n])
                   taken(src) == [pc |-> "lock", file |-> head.file, src |-> src,
                                  info |-> Retried(head.info)]
        <3>1. fromPeers[n] \in Seq(JobEntry) /\ fromPeers[n] # <<>>
            BY <2>3 DEF GetTake, TypeOK
        <3>2. head \in JobEntry /\ 1 \in 1..Len(fromPeers[n]) /\ head = fromPeers[n][1]
            BY <3>1, HeadTail
        <3>3. head.file \in File /\ head.info \in Info
            BY <3>2 DEF JobEntry
        <3>4. <<head.file, head.info>> \in S
            BY <3>2 DEF AllIn, QueueIn
        <3>5. \/ UNCHANGED get
              \/ /\ head.info.retry < RetryCount
                 /\ \E src \in Node : get' = [get EXCEPT ![n][d] = taken(src)]
            BY <2>3 DEF GetTake
        <3>6. ASSUME NEW src \in Node, head.info.retry < RetryCount,
                     get' = [get EXCEPT ![n][d] = taken(src)]
              PROVE  RunsIn(get', Getter, S)
            <4>1. Retried(head.info) \in Info /\ <<head.file, Retried(head.info)>> \in S
                BY <3>3, <3>4, <3>6, InfoType DEF Closed
            <4>2. taken(src) \in GetState /\ taken(src).file = head.file
                  /\ taken(src).info = Retried(head.info)
                BY <3>3, <4>1 DEF GetState
            <4> HIDE DEF taken
            <4> QED
                BY <1>2, <3>6, <4>1, <4>2
        <3> QED
            BY <1>1, <3>5, <3>6
    <2>4. CASE GetStart(n, d)
        <3>1. \/ get' = [get EXCEPT ![n][d] = NewGet(n)]
              \/ /\ job.info.retry < RetryCount
                 /\ get' = [get EXCEPT ![n][d]
                               = [job EXCEPT !.pc = "lock", !.info = Retried(job.info)]]
            BY <2>4 DEF GetStart
        <3>2. ASSUME job.info.retry < RetryCount,
                     get' = [get EXCEPT ![n][d]
                               = [job EXCEPT !.pc = "lock", !.info = Retried(job.info)]]
              PROVE  RunsIn(get', Getter, S)
            <4> DEFINE run == [job EXCEPT !.pc = "lock", !.info = Retried(job.info)]
            <4>1. Retried(job.info) \in Info /\ <<job.file, Retried(job.info)>> \in S
                BY <2>1, <2>2, <2>4, <3>2, InfoType DEF GetStart, Closed
            <4>2. run \in GetState /\ run.file = job.file /\ run.info = Retried(job.info)
                BY <2>0, <4>1 DEF GetState
            <4>3. get' = [get EXCEPT ![n][d] = run]
                BY <3>2
            <4> HIDE DEF run
            <4> QED
                BY <1>2, <4>1, <4>2, <4>3
        <3> QED
            BY <1>2, <1>3, <3>1, <3>2
    <2>5. CASE GetLock(n, d)
        <3> DEFINE run == [job EXCEPT !.pc = "get"]
        <3>1. run \in GetState /\ run.file = job.file /\ run.info = job.info
            BY <2>0 DEF GetState
        <3>2. get' = [get EXCEPT ![n][d] = run] /\ <<job.file, job.info>> \in S
            BY <2>2, <2>5 DEF GetLock
        <3> HIDE DEF run
        <3> QED
            BY <1>2, <3>1, <3>2
    <2>6. CASE GetAnswered(n, d) \/ GetFailed(n, d)
        <3>1. get' = [get EXCEPT ![n][d] = NewGet(n)]
            BY <2>6 DEF GetAnswered, GetFailed
        <3> QED
            BY <1>2, <1>3, <3>1
    <2> QED
        BY <1>4, <2>3, <2>4, <2>5, <2>6 DEF GetStep
<1>5. CASE Crash(n)
    <2>1. OffGets(n) \in [Getter -> GetState] /\ \A d \in Getter : OffGets(n)[d].pc = "off"
        BY StateType DEF OffGets, NewGet
    <2>2. get' = [get EXCEPT ![n] = OffGets(n)]
        BY <1>5 DEF Crash
    <2> QED
        BY <1>1, <2>1, <2>2, RunsKept
<1>6. CASE \/ \E f \in File : Upload(n, f) \/ ResendError(n, f) \/ LoadQueue(n, f)
           \/ \E t \in Poster : PostStep(n, t)
           \/ ConsumeLog(n) \/ Restart(n)
    <2>1. get' = get
        BY <1>6, PostLeavesGets DEF Upload, ResendError, LoadQueue, ConsumeLog, Restart
    <2> QED
        BY <1>1, <2>1
<1> QED
    BY <1>4, <1>5, <1>6 DEF OwnStep

(* What the uploads' entries share with the goroutines that post the files. *)
LEMMA StepUploads ==
    ASSUME TypeOK, TypeOK', NEW S, Closed(S), AllIn(S), NEW n \in Node, OwnStep(n),
           \A m \in Node : \A f \in disk'[m] : <<f, Fresh(m)>> \in S
    PROVE  UploadsIn(S)'
<1>1. \A m \in Node : fileLog[m] \in Seq(LogEntry) /\ fileLog'[m] \in Seq(LogEntry)
    BY DEF TypeOK
<1>2. ASSUME \A m \in Node : \A i \in 1..Len(fileLog'[m]) :
                fileLog'[m][i].kind = "upload" =>
                    \E j \in 1..Len(fileLog[m]) : fileLog[m][j] = fileLog'[m][i],
             \A m \in Node, f \in File :
                <<f, post[m][f].info>> \in S /\ fileLog'[m] # <<>>
                    => <<f, post'[m][f].info>> \in S
      PROVE  UploadsIn(S)'
    <2> SUFFICES ASSUME NEW m \in Node, NEW i \in 1..Len(fileLog'[m]),
                        fileLog'[m][i].kind = "upload"
                 PROVE  <<fileLog'[m][i].file, post'[m][fileLog'[m][i].file].info>> \in S
        BY DEF UploadsIn
    <2>1. PICK j \in 1..Len(fileLog[m]) : fileLog[m][j] = fileLog'[m][i]
        BY <1>2
    <2>2. <<fileLog[m][j].file, post[m][fileLog[m][j].file].info>> \in S
        BY <2>1 DEF AllIn, UploadsIn
    <2>3. fileLog[m][j] \in LogEntry /\ fileLog'[m] # <<>>
        BY <1>1
    <2>4. fileLog[m][j].file \in File
        BY <2>3 DEF LogEntry
    <2> QED
        BY <1>2, <2>1, <2>2, <2>3, <2>4
<1>3. ASSUME NEW m \in Node, NEW entry \in LogEntry, entry.kind # "upload",
             LogAppend(m, entry)
      PROVE  \A k \in Node : \A i \in 1..Len(fileLog'[k]) :
                fileLog'[k][i].kind = "upload" =>
                    \E j \in 1..Len(fileLog[k]) : fileLog[k][j] = fileLog'[k][i]
    <2> SUFFICES ASSUME NEW k \in Node, NEW i \in 1..Len(fileLog'[k]),
                        fileLog'[k][i].kind = "upload"
                 PROVE  \E j \in 1..Len(fileLog[k]) : fileLog[k][j] = fileLog'[k][i]
        OBVIOUS
    <2>1. CASE k = m
        <3>1. fileLog'[k] = Append(fileLog[k], entry)
            BY <1>3, <2>1 DEF LogAppend, TypeOK
        <3> QED
            BY <1>1, <1>3, <3>1
    <2>2. CASE k # m
        <3>1. fileLog'[k] = fileLog[k]
            BY <1>3, <2>2 DEF LogAppend, TypeOK
        <3> QED
            BY <3>1
    <2> QED
        BY <2>1, <2>2
<1>4. ASSUME NEW f \in File, Upload(n, f) PROVE UploadsIn(S)'
    <2> DEFINE entry == Log("upload", f, Fresh(n))
    <2> SUFFICES ASSUME NEW m \in Node, NEW i \in 1..Len(fileLog'[m]),
                        fileLog'[m][i].kind = "upload"
                 PROVE  <<fileLog'[m][i].file, post'[m][fileLog'[m][i].file].info>> \in S
        BY DEF UploadsIn
    <2>1. f \in Poster /\ post' = [post EXCEPT ![n][f] = NewPost(n, f, Fresh(n), Peers[n])]
        BY <1>4 DEF Upload, Poster
    <2>2. post'[n][f].info = Fresh(n) /\ <<f, Fresh(n)>> \in S
        BY <1>4, <2>1 DEF Upload, TypeOK, NewPost
    <2>3. fileLog' = [fileLog EXCEPT ![n] = Append(@, entry)] /\ entry.file = f
        BY <1>4 DEF Upload, LogAppend, Log
    <2> HIDE DEF entry
    <2>4. CASE m # n
        <3>1. fileLog'[m] = fileLog[m] /\ post'[m] = post[m]
            BY <2>1, <2>3, <2>4 DEF TypeOK
        <3> QED
            BY <3>1 DEF AllIn, UploadsIn
    <2>5. CASE m = n
        <3>1. \/ fileLog'[m][i] = entry
              \/ i \in 1..Len(fileLog[n]) /\ fileLog'[m][i] = fileLog[n][i]
            BY <1>1, <2>3, <2>5
        <3>2. CASE fileLog'[m][i] = entry
            BY <2>2, <2>3, <2>5, <3>2
        <3>3. CASE i \in 1..Len(fileLog[n]) /\ fileLog'[m][i] = fileLog[n][i]
            <4> DEFINE g == fileLog[n][i].file
            <4>1. g # f
                BY <1>4, <3>3 DEF Upload
            <4>5. fileLog[n][i] \in LogEntry
                BY <1>1, <3>3
            <4>2. g \in File
                BY <4>5 DEF LogEntry
            <4>3. post'[n][g] = post[n][g]
                BY <2>1, <4>1, <4>2 DEF TypeOK, Poster
            <4>4. <<g, post[n][g].info>> \in S
                BY <3>3 DEF AllIn, UploadsIn
            <4> QED
                BY <2>5, <3>3, <4>3, <4>4
        <3> QED
            BY <3>1, <3>2, <3>3
    <2> QED
        BY <2>4, <2>5
<1>5. ASSUME NEW t \in Poster, PostStep(n, t) PROVE UploadsIn(S)'
    <2> DEFINE job == post[n][t]
    <2>0. job \in PostState
        BY DEF TypeOK
    <2>1. job.file \in File /\ job.info \in Info /\ job.to \in Node
        BY <2>0 DEF PostState
    <2>2. \A m \in Node : \A i \in 1..Len(fileLog'[m]) :
             fileLog'[m][i].kind = "upload" =>
                 \E j \in 1..Len(fileLog[m]) : fileLog[m][j] = fileLog'[m][i]
        <3>1. CASE PostDelivered(n, t)
            <4> DEFINE entry == Log("queue", job.file, job.info)
            <4>1. entry \in LogEntry /\ entry.kind # "upload"
                BY <2>1, EntryType DEF Log
            <4>2. LogAppend(job.to, entry)
                BY <3>1 DEF PostDelivered
            <4> HIDE DEF entry
            <4> QED
                BY <1>3, <2>1, <4>1, <4>2
        <3>2. CASE PostFailed(n, t)
            <4> DEFINE entry == Log("errors", job.file, Fresh(n))
            <4>1. entry \in LogEntry /\ entry.kind # "upload"
                BY <2>1, InfoType, EntryType DEF Log
            <4>2. LogAppend(n, entry)
                BY <3>2 DEF PostFailed
            <4> HIDE DEF entry
            <4> QED
                BY <1>3, <4>1, <4>2
        <3>3. CASE \/ PostTake(n, t) \/ PostLost(n, t) \/ PostOk(n, t)
                   \/ \E p \in Node : \/ PostSkip(n, t, p) \/ PostFound(n, t, p)
                                      \/ PostAbsent(n, t, p)
            <4>1. fileLog' = fileLog
                BY <3>3 DEF PostTake, PostLost, PostOk, PostSkip, PostFound, PostAbsent, chans
            <4> QED
                BY <4>1
        <3> QED
            BY <1>5, <3>1, <3>2, <3>3 DEF PostStep
    <2>3. ASSUME NEW m \in Node, NEW f \in File, <<f, post[m][f].info>> \in S
          PROVE  <<f, post'[m][f].info>> \in S
        <3>1. f \in Poster /\ post[m][f].info \in Info
            BY PostType DEF Poster
        <3>2. CASE ~ (m = n /\ t = f)
            <4>1. PICK run : post' = [post EXCEPT ![n][t] = run]
                BY <1>5 DEF PostStep, PostTake, PostSkip, PostFound, PostAbsent,
                            PostDelivered, PostLost, PostOk, PostFailed
            <4>2. post'[m][f] = post[m][f]
                BY <3>1, <3>2, <4>1 DEF TypeOK
            <4> QED
                BY <2>3, <4>2
        <3>3. CASE m = n /\ t = f
            <4>1. ~ PostTake(n, t)
                BY <3>3, WorkerAssumption DEF PostTake
            <4>3. \A run : post' = [post EXCEPT ![n][t] = run] => post'[n][t] = run
                BY DEF TypeOK
            <4>4. /\ \A p, info : Advance(n, job, p, info).info = info
                  /\ \A p : Sending(job, p).info = job.info
                  /\ \A result : Replied(job, result).info = job.info
                BY <2>0 DEF Advance, NewPost, Sending, Replied, PostState
            <4>2. \/ post'[n][t].info = job.info
                  \/ \E p \in Node : post'[n][t].info = AddPeer(job.info, p)
                  \/ post'[n][t].info = Retried(job.info)
                <5>1. ASSUME NEW p \in Node,
                             PostSkip(n, t, p) \/ PostFound(n, t, p) \/ PostAbsent(n, t, p)
                      PROVE  \/ post'[n][t].info = job.info
                             \/ post'[n][t].info = AddPeer(job.info, p)
                    <6>1. \/ post' = [post EXCEPT ![n][t] = Advance(n, job, p, job.info)]
                          \/ post' = [post EXCEPT ![n][t]
                                        = Advance(n, job, p, AddPeer(job.info, p))]
                          \/ post' = [post EXCEPT ![n][t] = Sending(job, p)]
                        BY <5>1 DEF PostSkip, PostFound, PostAbsent
                    <6>2. \/ post'[n][t] = Advance(n, job, p, job.info)
                          \/ post'[n][t] = Advance(n, job, p, AddPeer(job.info, p))
                          \/ post'[n][t] = Sending(job, p)
                        BY <4>3, <6>1
                    <6> QED
                        BY <4>4, <6>2
                <5>2. CASE PostDelivered(n, t) \/ PostLost(n, t)
                    <6>1. PICK result \in {"ok", "error", "refused"} :
                             post' = [post EXCEPT ![n][t] = Replied(job, result)]
                        BY <5>2 DEF PostDelivered, PostLost
                    <6> QED
                        BY <4>3, <4>4, <6>1
                <5>3. CASE PostOk(n, t) \/ PostFailed(n, t)
                    <6>1. \E info \in {job.info, AddPeer(job.info, job.to), Retried(job.info)} :
                             post' = [post EXCEPT ![n][t] = Advance(n, job, job.to, info)]
                        BY <5>3 DEF PostOk, PostFailed
                    <6> QED
                        BY <2>1, <4>3, <4>4, <6>1
                <5> QED
                    BY <1>5, <4>1, <5>1, <5>2, <5>3 DEF PostStep
            <4>5. post'[n][t].info \in Info
                <5>1. post'[n][t] \in PostState
                    BY DEF TypeOK
                <5> QED
                    BY <5>1 DEF PostState
            <4> QED
                BY <2>1, <2>3, <3>3, <4>2, <4>5 DEF Closed
        <3> QED
            BY <3>2, <3>3
    <2> QED
        BY <1>2, <2>2, <2>3
<1>6. ASSUME NEW d \in Getter, GetStep(n, d) PROVE UploadsIn(S)'
    <2> DEFINE job == get[n][d]
               entry == Log("files", job.file, job.info)
    <2>0. job \in GetState
        BY DEF TypeOK
    <2>1. job.file \in File /\ job.info \in Info
        BY <2>0 DEF GetState
    <2>2. entry \in LogEntry /\ entry.kind # "upload"
        BY <2>1, EntryType DEF Log
    <2>3. fileLog' = fileLog \/ LogAppend(n, entry)
        BY <1>6 DEF GetStep, GetTake, GetStart, GetLock, GetAnswered, GetFailed, chans
    <2>4. post' = post
        BY <1>6 DEF GetStep, GetTake, GetStart, GetLock, GetAnswered, GetFailed
    <2> HIDE DEF entry
    <2>5. \A m \in Node : \A i \in 1..Len(fileLog'[m]) :
             fileLog'[m][i].kind = "upload" =>
                 \E j \in 1..Len(fileLog[m]) : fileLog[m][j] = fileLog'[m][i]
        <3>1. CASE fileLog' = fileLog
            BY <3>1
        <3>2. CASE LogAppend(n, entry)
            BY <1>3, <2>2, <3>2
        <3> QED
            BY <2>3, <3>1, <3>2
    <2> QED
        BY <1>2, <2>4, <2>5
<1>7. CASE ConsumeLog(n)
    <2>1. post' = post /\ fileLog[n] # <<>> /\ fileLog' = [fileLog EXCEPT ![n] = Tail(@)]
        BY <1>7 DEF ConsumeLog
    <2>2. ASSUME NEW m \in Node, NEW i \in 1..Len(fileLog'[m])
          PROVE  \E j \in 1..Len(fileLog[m]) : fileLog[m][j] = fileLog'[m][i]
        <3>1. CASE m = n
            <4>1. fileLog'[m] = Tail(fileLog[n])
                BY <2>1, <3>1 DEF TypeOK
            <4>2. i + 1 \in 1..Len(fileLog[n]) /\ fileLog'[m][i] = fileLog[n][i + 1]
                BY <1>1, <2>1, <4>1, TailEntry
            <4> QED
                BY <3>1, <4>2
        <3>2. CASE m # n
            <4>1. fileLog'[m] = fileLog[m]
                BY <2>1, <3>2 DEF TypeOK
            <4> QED
                BY <4>1
        <3> QED
            BY <3>1, <3>2
    <2> QED
        BY <1>2, <2>1, <2>2
<1>8. CASE Crash(n)
    <2> SUFFICES ASSUME NEW m \in Node, NEW i \in 1..Len(fileLog'[m]),
                        fileLog'[m][i].kind = "upload"
                 PROVE  <<fileLog'[m][i].file, post'[m][fileLog'[m][i].file].info>> \in S
        BY DEF UploadsIn
    <2>1. CASE m = n
        <3>1. fileLog'[m] = <<>>
            BY <1>8, <2>1 DEF Crash, TypeOK
        <3> QED
            BY <3>1
    <2>2. CASE m # n
        <3>1. fileLog'[m] = fileLog[m] /\ post'[m] = post[m]
            BY <1>8, <2>2 DEF Crash, TypeOK
        <3> QED
            BY <3>1 DEF AllIn, UploadsIn
    <2> QED
        BY <2>1, <2>2
<1>9. CASE \/ \E f \in File : ResendError(n, f) \/ LoadQueue(n, f)
           \/ Restart(n)
    <2>1. fileLog' = fileLog /\ post' = post
        BY <1>9 DEF ResendError, LoadQueue, Restart, chans
    <2> QED
        BY <2>1 DEF AllIn, UploadsIn
<1> QED
    BY <1>4, <1>5, <1>6, <1>7, <1>8, <1>9 DEF OwnStep

(* Every step of a node keeps it.                                           *)
LEMMA AllKept ==
    ASSUME TypeOK, TypeOK', StoredInv, NEW S, Closed(S), AllIn(S),
           NEW n \in Node, OwnStep(n),
           \A m \in Node : \A f \in disk'[m] : <<f, Fresh(m)>> \in S
    PROVE  AllIn(S)'
<1>1. [Next]_vars
    BY DEF OwnStep, Next
<1>2. \A m \in Node : disk[m] \subseteq disk'[m]
    BY <1>1, StepEffect, EffectKeeps DEF StoredInv
<1>3. /\ TableIn(index', S) /\ TableIn(byPath', S)
      /\ TableIn(queueMd5', S) /\ TableIn(toLoad', S)
    BY StepTables
<1>4. QueueIn(fileLog', S) /\ QueueIn(toPeers', S) /\ QueueIn(fromPeers', S)
    BY <1>2, StepQueues
<1>5. RunsIn(post', Poster, S) /\ RunsIn(get', Getter, S)
    BY StepPosts, StepGets
<1>6. UploadsIn(S)'
    BY StepUploads
<1> QED
    BY <1>3, <1>4, <1>5, <1>6 DEF AllIn, TableIn, QueueIn, RunsIn

(* So does a request for a missing file, if what CheckFileExist makes up    *)
(* for a file without an entry is in S.                                     *)
LEMMA FoundKept ==
    ASSUME TypeOK, NEW S, AllIn(S),
           NEW n \in Node, NEW d \in Reader, NEW p \in Node, NEW f \in File,
           GetFound(n, d, p, f), f \in disk[p] => <<f, OfPath(p)>> \in S
    PROVE  AllIn(S)'
<1> DEFINE found == [pc |-> "found", file |-> f, src |-> p, info |-> AtPath(p, f)]
<1>1. /\ byPath \in InfoTable /\ TableIn(byPath, S)
      /\ get \in [Node -> [Getter -> GetState]] /\ RunsIn(get, Getter, S)
      /\ d \in Getter
    BY DEF TypeOK, InfoTable, AllIn, Getter
<1>2. UNCHANGED <<index, queueMd5, fileLog, toPeers, fromPeers, toLoad, post>>
    BY DEF GetFound, chans
<1>3. TableIn(byPath', S) /\ RunsIn(get', Getter, S)
    <2>1. CASE f \in disk[p]
        <3>1. byPath' = byPath /\ get' = [get EXCEPT ![n][d] = found]
            BY <2>1 DEF GetFound
        <3>2. AtPath(p, f) \in Info /\ <<f, AtPath(p, f)>> \in S
            <4>1. CASE byPath[p][f] = NoInfo
                BY <2>1, <4>1, InfoType DEF AtPath
            <4>2. CASE byPath[p][f] # NoInfo
                <5>1. byPath[p][f] \in Info /\ <<f, byPath[p][f]>> \in S
                    BY <1>1, <4>2 DEF InfoTable, TableIn
                <5> QED
                    BY <4>2, <5>1 DEF AtPath
            <4> QED
                BY <4>1, <4>2
        <3>3. found \in GetState /\ <<found.file, found.info>> \in S
            BY <3>2 DEF GetState
        <3> HIDE DEF found
        <3> QED
            BY <1>1, <3>1, <3>3, RunsKept
    <2>2. CASE f \notin disk[p]
        <3>1. get' = get /\ byPath' = [byPath EXCEPT ![p][f] = NoInfo]
            BY <2>2 DEF GetFound
        <3> QED
            BY <1>1, <3>1, TableKept
    <2> QED
        BY <2>1, <2>2
<1> QED
    BY <1>2, <1>3 DEF AllIn, TableIn, QueueIn, RunsIn, UploadsIn

-----------------------------------------------------------------------------
(* The pairs of a file and a FileInfo that names first a node that has it,  *)
(* with D the disks.                                                        *)
Held(D) == {pair \in File \X Info :
               Len(pair[2].peers) > 0 /\ pair[1] \in D[pair[2].peers[1]]}

(* What the handlers do to a FileInfo leaves the head of its peers alone.   *)
LEMMA HeldClosed ==
    ASSUME NEW D \in [Node -> SUBSET File]
    PROVE  /\ Closed(Held(D))
           /\ \A m \in Node : \A f \in D[m] : /\ <<f, Fresh(m)>> \in Held(D)
                                            /\ <<f, OfPath(m)>> \in Held(D)
<1>1. ASSUME NEW f \in File, NEW info \in Info, <<f, info>> \in Held(D), NEW p \in Node
      PROVE  <<f, AddPeer(info, p)>> \in Held(D)
    <2>1. info.peers \in Seq(Node) /\ Len(info.peers) > 0 /\ f \in D[info.peers[1]]
        BY <1>1 DEF Held, Info
    <2>2. AddPeer(info, p).peers = Append(info.peers, p)
        BY DEF AddPeer, Info
    <2>3. AddPeer(info, p).peers[1] = info.peers[1] /\ Len(AddPeer(info, p).peers) > 0
        BY <2>1, <2>2
    <2> QED
        BY <2>1, <2>3, InfoType DEF Held
<1>2. ASSUME NEW f \in File, NEW info \in Info, <<f, info>> \in Held(D),
             Retried(info) \in Info
      PROVE  <<f, Retried(info)>> \in Held(D)
    <2>1. Retried(info).peers = info.peers
        BY DEF Retried, Info
    <2> QED
        BY <1>2, <2>1 DEF Held
<1>3. ASSUME NEW m \in Node, NEW f \in D[m]
      PROVE  <<f, Fresh(m)>> \in Held(D) /\ <<f, OfPath(m)>> \in Held(D)
    BY <1>3, InfoType DEF Held, Fresh, OfPath
<1> QED
    BY <1>1, <1>2, <1>3 DEF Closed

(* The source that downloadFromPeer asks has the file as well.              *)
SourceStored ==
    \A n \in Node, d \in Getter :
        get[n][d].pc # "off" => get[n][d].file \in disk[get[n][d].src]

SourceInv == AllIn(Held(disk)) /\ SourceStored

(* Nothing names a source at the start.                                     *)
LEMMA InitSource == Init => SourceInv
<1> SUFFICES ASSUME Init PROVE SourceInv
    OBVIOUS
<1>1. /\ \A n \in Node, t \in Poster : post[n][t].pc = "off"
      /\ \A n \in Node, d \in Getter : get[n][d].pc = "off"
    BY DEF Init, OffPosts, NewPost, OffGets, NewGet
<1>2. RunsIn(post, Poster, Held(disk)) /\ RunsIn(get, Getter, Held(disk)) /\ SourceStored
    BY <1>1 DEF RunsIn, SourceStored
<1>3. /\ TableIn(index, Held(disk)) /\ TableIn(byPath, Held(disk))
      /\ TableIn(queueMd5, Held(disk)) /\ TableIn(toLoad, Held(disk))
    BY DEF Init, TableIn
<1>4. /\ QueueIn(fileLog, Held(disk)) /\ QueueIn(toPeers, Held(disk))
      /\ QueueIn(fromPeers, Held(disk)) /\ UploadsIn(Held(disk))
    BY DEF Init, QueueIn, UploadsIn
<1> QED
    BY <1>2, <1>3, <1>4 DEF AllIn, SourceInv

(* The file is not on the node's disk, so the node is not the first of the  *)
(* peers, and that one is whom it asks.                                     *)
LEMMA FirstIsSource ==
    ASSUME NEW n \in Node, NEW src \in Node, NEW f \in File, NEW info \in Info,
           NEW D, <<f, info>> \in Held(D), f \notin D[n], IsSource(src, n, info.peers)
    PROVE  f \in D[src]
<1>1. PICK i \in 1..Len(info.peers) : /\ info.peers[i] = src
                                      /\ \A j \in 1..(i - 1) : info.peers[j] = n
    BY DEF IsSource
<1>2. Len(info.peers) > 0 /\ f \in D[info.peers[1]]
    BY DEF Held
<1>3. info.peers[1] # n
    BY <1>2
<1>4. i = 1
    <2>1. CASE i > 1
        BY <1>1, <1>3, <2>1
    <2> QED
        BY <2>1
<1> QED
    BY <1>1, <1>2, <1>4

(* Nobody asks a node that cannot serve the file.                           *)
LEMMA StepSource ==
    ASSUME TypeOK, SourceInv, [Next]_vars, \A m \in Node : disk[m] \subseteq disk'[m]
    PROVE  SourceStored'
<1>1. SourceStored /\ get \in [Node -> [Getter -> GetState]]
    BY DEF SourceInv, TypeOK
<1>2. ASSUME UNCHANGED get PROVE SourceStored'
    <2> SUFFICES ASSUME NEW m \in Node, NEW e \in Getter, get[m][e].pc # "off"
                 PROVE  get[m][e].file \in disk'[get[m][e].src]
        BY <1>2 DEF SourceStored
    <2>1. get[m][e] \in GetState
        BY <1>1
    <2>2. get[m][e].src \in Node
        BY <2>1 DEF GetState
    <2> QED
        BY <1>1, <2>2 DEF SourceStored
<1>3. ASSUME NEW n \in Node, NEW d \in Getter, NEW run \in GetState,
             run.pc # "off" => run.file \in disk[run.src],
             get' = [get EXCEPT ![n][d] = run]
      PROVE  SourceStored'
    <2> SUFFICES ASSUME NEW m \in Node, NEW e \in Getter, get'[m][e].pc # "off"
                 PROVE  get'[m][e].file \in disk'[get'[m][e].src]
        BY DEF SourceStored
    <2>1. CASE m = n /\ e = d
        <3>1. get'[m][e] = run /\ run.src \in Node
            BY <1>1, <1>3, <2>1 DEF GetState
        <3> QED
            BY <1>3, <3>1
    <2>2. CASE ~ (m = n /\ e = d)
        <3>1. get'[m][e] = get[m][e]
            BY <1>1, <1>3, <2>2
        <3>2. get[m][e] \in GetState
            BY <1>1
        <3>3. get[m][e].src \in Node
            BY <3>2 DEF GetState
        <3> QED
            BY <1>1, <3>1, <3>3 DEF SourceStored
    <2> QED
        BY <2>1, <2>2
<1>4. \A n \in Node : NewGet(n) \in GetState /\ NewGet(n).pc = "off"
    BY StateType DEF NewGet
<1>5. ASSUME NEW n \in Node, NEW d \in Getter, GetStep(n, d) PROVE SourceStored'
    <2> DEFINE job == get[n][d]
    <2>0. job \in GetState
        BY <1>1
    <2>1. job.file \in File /\ job.info \in Info
        BY <2>0 DEF GetState
    <2>2. job.pc # "off" => job.file \in disk[job.src]
        BY <1>1 DEF SourceStored
    <2>3. CASE GetTake(n, d)
        <3> DEFINE head == Head(fromPeers[n])
                   taken(src) == [pc |-> "lock", file |-> head.file, src |-> src,
                                  info |-> Retried(head.info)]
        <3>1. fromPeers[n] \in Seq(JobEntry) /\ fromPeers[n] # <<>>
            BY <2>3 DEF GetTake, TypeOK
        <3>2. head \in JobEntry /\ 1 \in 1..Len(fromPeers[n]) /\ head = fromPeers[n][1]
            BY <3>1, HeadTail
        <3>3. head.file \in File /\ head.info \in Info
            BY <3>2 DEF JobEntry
        <3>4. <<head.file, head.info>> \in Held(disk)
            BY <3>2 DEF SourceInv, AllIn, QueueIn
        <3>5. \/ UNCHANGED get
              \/ /\ head.info.retry < RetryCount /\ head.file \notin disk[n]
                 /\ \E src \in Node : /\ IsSource(src, n, head.info.peers)
                                      /\ get' = [get EXCEPT ![n][d] = taken(src)]
            BY <2>3 DEF GetTake
        <3>6. ASSUME NEW src \in Node, head.info.retry < RetryCount,
                     head.file \notin disk[n], IsSource(src, n, head.info.peers),
                     get' = [get EXCEPT ![n][d] = taken(src)]
              PROVE  SourceStored'
            <4>1. head.file \in disk[src]
                BY <3>3, <3>4, <3>6, FirstIsSource
            <4>2. Retried(head.info) \in Info
                BY <3>3, <3>6, InfoType
            <4>3. taken(src) \in GetState /\ taken(src).file = head.file
                  /\ taken(src).src = src
                BY <3>3, <4>2 DEF GetState
            <4> HIDE DEF taken
            <4> QED
                BY <1>3, <3>6, <4>1, <4>3
        <3> QED
            BY <1>2, <3>5, <3>6
    <2>4. CASE GetStart(n, d)
        <3> DEFINE run == [job EXCEPT !.pc = "lock", !.info = Retried(job.info)]
        <3>1. \/ get' = [get EXCEPT ![n][d] = NewGet(n)]
              \/ /\ job.info.retry < RetryCount
                 /\ get' = [get EXCEPT ![n][d] = run]
            BY <2>4 DEF GetStart
        <3>2. job.info.retry < RetryCount => Retried(job.info) \in Info
            BY <2>1, InfoType
        <3>3. /\ job.info.retry < RetryCount => run \in GetState
              /\ run.file = job.file /\ run.src = job.src
            BY <2>0, <3>2 DEF GetState
        <3>4. job.file \in disk[job.src]
            BY <2>2, <2>4 DEF GetStart
        <3> HIDE DEF run
        <3> QED
            BY <1>3, <1>4, <3>1, <3>3, <3>4
    <2>5. CASE GetLock(n, d)
        <3> DEFINE run == [job EXCEPT !.pc = "get"]
        <3>1. run \in GetState /\ run.file = job.file /\ run.src = job.src
            BY <2>0 DEF GetState
        <3>2. get' = [get EXCEPT ![n][d] = run] /\ job.file \in disk[job.src]
            BY <2>2, <2>5 DEF GetLock
        <3> HIDE DEF run
        <3> QED
            BY <1>3, <3>1, <3>2
    <2>6. CASE GetAnswered(n, d) \/ GetFailed(n, d)
        <3>1. get' = [get EXCEPT ![n][d] = NewGet(n)]
            BY <2>6 DEF GetAnswered, GetFailed
        <3> QED
            BY <1>3, <1>4, <3>1
    <2> QED
        BY <1>5, <2>3, <2>4, <2>5, <2>6 DEF GetStep
<1>6. ASSUME NEW n \in Node, NEW d \in Reader, NEW p \in Node, NEW f \in File,
             GetFound(n, d, p, f)
      PROVE  SourceStored'
    <2> DEFINE found == [pc |-> "found", file |-> f, src |-> p, info |-> AtPath(p, f)]
    <2>1. \/ UNCHANGED get
          \/ f \in disk[p] /\ get' = [get EXCEPT ![n][d] = found]
        BY <1>6 DEF GetFound
    <2>2. AtPath(p, f) \in Info
        BY InfoType DEF AtPath, TypeOK
    <2>3. found \in GetState /\ found.file = f /\ found.src = p /\ d \in Getter
        BY <2>2 DEF GetState, Getter
    <2> HIDE DEF found
    <2> QED
        BY <1>2, <1>3, <2>1, <2>3
<1>7. ASSUME NEW n \in Node, Crash(n) PROVE SourceStored'
    <2> SUFFICES ASSUME NEW m \in Node, NEW e \in Getter, get'[m][e].pc # "off"
                 PROVE  get'[m][e].file \in disk'[get'[m][e].src]
        BY DEF SourceStored
    <2>1. m # n
        <3>1. OffGets(n)[e].pc = "off"
            BY DEF OffGets, NewGet
        <3> QED
            BY <1>1, <1>7, <3>1 DEF Crash
    <2>2. get'[m] = get[m]
        BY <1>1, <1>7, <2>1 DEF Crash
    <2>3. get[m][e] \in GetState
        BY <1>1
    <2>4. get[m][e].src \in Node
        BY <2>3 DEF GetState
    <2> QED
        BY <1>1, <2>2, <2>4 DEF SourceStored
<1>8. ASSUME NEW n \in Node,
             \/ \E f \in File : Upload(n, f) \/ ResendError(n, f) \/ LoadQueue(n, f)
             \/ \E t \in Poster : PostStep(n, t)
             \/ ConsumeLog(n) \/ Restart(n)
      PROVE  SourceStored'
    <2>1. UNCHANGED get
        BY <1>8, PostLeavesGets DEF Upload, ResendError, LoadQueue, ConsumeLog, Restart
    <2> QED
        BY <1>2, <2>1
<1>9. CASE UNCHANGED vars
    BY <1>2, <1>9 DEF vars
<1> QED
    BY <1>5, <1>6, <1>7, <1>8, <1>9 DEF Next

(* The strengthened invariant is inductive: the disks only grow, so what a  *)
(* FileInfo names keeps the file.                                           *)
LEMMA NextSource == TypeOK /\ TypeOK' /\ StoredInv /\ SourceInv /\ [Next]_vars => SourceInv'
<1> SUFFICES ASSUME TypeOK, TypeOK', StoredInv, SourceInv, [Next]_vars PROVE SourceInv'
    OBVIOUS
<1>1. \A m \in Node : disk[m] \subseteq disk'[m]
    BY StepEffect, EffectKeeps DEF StoredInv
<1>2. PICK D : D = disk'
    OBVIOUS
<1>3. D \in [Node -> SUBSET File] /\ disk \in [Node -> SUBSET File]
    BY <1>2 DEF TypeOK
<1>4. Held(disk) \subseteq Held(D)
    <2> SUFFICES ASSUME NEW f \in File, NEW info \in Info, <<f, info>> \in Held(disk)
                 PROVE  <<f, info>> \in Held(D)
        BY DEF Held
    <2>1. Len(info.peers) > 0 /\ f \in disk[info.peers[1]] /\ info.peers \in Seq(Node)
        BY DEF Held, Info
    <2>2. info.peers[1] \in Node
        BY <2>1
    <2> QED
        BY <1>1, <1>2, <2>1, <2>2 DEF Held
<1>5. AllIn(Held(D))
    BY <1>4 DEF SourceInv, AllIn, TableIn, QueueIn, RunsIn, UploadsIn
<1>6. PICK S : S = Held(D)
    OBVIOUS
<1>7. /\ Closed(S) /\ AllIn(S)
      /\ \A m \in Node : \A f \in disk'[m] : <<f, Fresh(m)>> \in S /\ <<f, OfPath(m)>> \in S
    BY <1>2, <1>3, <1>5, <1>6, HeldClosed
<1>8. AllIn(S)'
    <2>1. ASSUME NEW n \in Node, OwnStep(n) PROVE AllIn(S)'
        BY <1>7, <2>1, AllKept
    <2>2. ASSUME NEW n \in Node, NEW d \in Reader, NEW p \in Node, NEW f \in File,
                 GetFound(n, d, p, f)
          PROVE  AllIn(S)'
        BY <1>1, <1>7, <2>2, FoundKept
    <2>3. CASE UNCHANGED vars
        BY <1>7, <2>3 DEF vars, stable, chans, AllIn, TableIn, QueueIn, RunsIn, UploadsIn
    <2> QED
        BY <2>1, <2>2, <2>3 DEF Next, OwnStep
<1>9. AllIn(Held(disk))'
    BY <1>2, <1>6, <1>8 DEF AllIn, TableIn, QueueIn, RunsIn, UploadsIn
<1> QED
    BY <1>1, <1>9, StepSource DEF SourceInv

(* Whatever is lost, retried, restarted or asked for meanwhile: every       *)
(* FileInfo that travels or is kept names first a node that has the file,   *)
(* and downloads ask such a node.                                           *)
THEOREM SourceCorrect == Spec => []SourceHoldsFile
<1>1. TypeOK /\ SourceInv => SourceHoldsFile
    <2> SUFFICES ASSUME TypeOK, SourceInv PROVE SourceHoldsFile
        OBVIOUS
    <2>1. \A f, info : <<f, info>> \in Held(disk) => Holder(info, f)
        BY DEF Held, Holder
    <2> QED
        BY <2>1 DEF SourceInv, AllIn, TableIn, QueueIn, SourceStored, SourceHoldsFile
<1>2. Spec => [](TypeOK /\ SourceInv)
    BY InitTypeOK, InitSource, NextTypeOK, NextSource, TypeCorrect, StoredCorrect, PTL
    DEF Spec
<1> QED
    BY <1>1, <1>2, PTL

-----------------------------------------------------------------------------
(* RecordedDownloadGoesOn is not inductive: while the record waits in the   *)
(* log, the download may be lost; and a download whose counter is ahead of  *)
(* the lost transfers would be dropped although the record has attempts     *)
(* left.  So: of a record with the counter r, the file is there, or r and   *)
(* the lost transfers have used the attempts up, or a download with a       *)
(* counter that is not ahead of them is under way.                          *)
Loading(n, f, k) == toLoad[n][f] # NoInfo /\ toLoad[n][f].retry <= k

Waiting(n, f, k) ==
    \E i \in 1..Len(fromPeers[n]) : /\ fromPeers[n][i].file = f
                                    /\ fromPeers[n][i].info.retry <= k

Running(n, d, f, k) == /\ get[n][d].pc \in {"lock", "get"} /\ get[n][d].file = f
                       /\ get[n][d].info.retry <= k + 1

UnderWay(n, f, k) == \/ Loading(n, f, k) \/ Waiting(n, f, k)
                     \/ \E d \in Getter : Running(n, d, f, k)

Chance(n, f, r) == \/ f \in disk[n]
                   \/ r + faults >= RetryCount
                   \/ UnderWay(n, f, r + faults)

OnlyCrashed(n) == \A i \in 1..Len(crashes) : crashes[i] = n

Recorded(n, f) == queueMd5[n][f] # NoInfo => Chance(n, f, queueMd5[n][f].retry)
ToRecord(n, i) == fileLog[n][i].kind = "queue" =>
                      Chance(n, fileLog[n][i].file, fileLog[n][i].info.retry)

RecordInv ==
    \A n \in Node :
        alive[n] /\ OnlyCrashed(n) => /\ \A f \in File : Recorded(n, f)
                                     /\ \A i \in 1..Len(fileLog[n]) : ToRecord(n, i)

(* A node that is down has crashed, and with it its log.                    *)
DeadInv == \A n \in Node : ~ alive[n] => Contains(n, crashes) /\ fileLog[n] = <<>>

(* The network never takes back a loss, and a crash is not undone.          *)
LEMMA Faulty ==
    ASSUME TypeOK, TypeOK', [Next]_vars
    PROVE  /\ faults \in Nat /\ faults' \in Nat /\ faults <= faults'
           /\ \/ crashes' = crashes /\ \A n \in Node : alive[n] => alive'[n]
              \/ \E n \in Node : Crash(n)
<1>1. faults \in Nat /\ faults' \in Nat
    BY DEF TypeOK
<1>2. ASSUME faults' = faults \/ Fault PROVE faults <= faults'
    BY <1>1, <1>2 DEF Fault
<1> DEFINE Calm == crashes' = crashes /\ \A n \in Node : alive[n] => alive'[n]
<1>3. ASSUME NEW n \in Node, NEW t \in Poster, PostStep(n, t)
      PROVE  (faults' = faults \/ Fault) /\ Calm
    <2>1. ASSUME NEW p \in Node, PostSkip(n, t, p) \/ PostFound(n, t, p) \/ PostAbsent(n, t, p)
          PROVE  (faults' = faults \/ Fault) /\ Calm
        BY <2>1 DEF PostSkip, PostFound, PostAbsent, env
    <2>2. CASE \/ PostTake(n, t) \/ PostDelivered(n, t) \/ PostLost(n, t)
               \/ PostOk(n, t) \/ PostFailed(n, t)
        BY <2>2 DEF PostTake, PostDelivered, PostLost, PostOk, PostFailed, env
    <2> QED
        BY <1>3, <2>1, <2>2 DEF PostStep
<1>4. ASSUME NEW n \in Node, NEW d \in Getter, GetStep(n, d)
      PROVE  (faults' = faults \/ Fault) /\ Calm
    BY <1>4 DEF GetStep, GetTake, GetStart, GetLock, GetAnswered, GetFailed, env
<1>5. ASSUME NEW n \in Node,
             \/ \E f \in File : Upload(n, f) \/ ResendError(n, f) \/ LoadQueue(n, f)
             \/ \E d \in Reader, p \in Node, f \in File : GetFound(n, d, p, f)
             \/ ConsumeLog(n)
      PROVE  faults' = faults /\ Calm
    BY <1>5 DEF Upload, ResendError, LoadQueue, GetFound, ConsumeLog, env
<1>6. ASSUME NEW n \in Node, Crash(n) PROVE faults' = faults
    BY <1>6 DEF Crash
<1>7. ASSUME NEW n \in Node, Restart(n) PROVE faults' = faults /\ Calm
    BY <1>7 DEF Restart, env, TypeOK
<1>8. CASE UNCHANGED vars
    BY <1>1, <1>8 DEF vars, env
<1> QED
    BY <1>1, <1>2, <1>3, <1>4, <1>5, <1>6, <1>7, <1>8 DEF Next

(* Who is down has crashed.                                                 *)
LEMMA NextDead == TypeOK /\ TypeOK' /\ DeadInv /\ [Next]_vars => DeadInv'
<1> SUFFICES ASSUME TypeOK, TypeOK', DeadInv, [Next]_vars, NEW n \in Node, ~ alive'[n]
             PROVE  Contains(n, crashes') /\ fileLog'[n] = <<>>
    BY DEF DeadInv, Contains
<1>1. ASSUME NEW m \in Node, Crash(m)
      PROVE  Contains(n, crashes') /\ fileLog'[n] = <<>>
    <2>0. crashes \in Seq(Node) /\ crashes' = Append(crashes, m)
        BY <1>1 DEF Crash, TypeOK
    <2>1. CASE m = n
        <3>1. fileLog'[n] = <<>>
            BY <1>1, <2>1 DEF Crash, TypeOK
        <3>2. Len(crashes') \in 1..Len(crashes') /\ crashes'[Len(crashes')] = n
            BY <2>0, <2>1
        <3> QED
            BY <3>1, <3>2 DEF Contains
    <2>2. CASE m # n
        <3>1. ~ alive[n] /\ fileLog'[n] = fileLog[n]
            BY <1>1, <2>2 DEF Crash, TypeOK
        <3>2. PICK i \in 1..Len(crashes) : crashes[i] = n
            BY <3>1 DEF DeadInv, Contains
        <3>3. i \in 1..Len(crashes') /\ crashes'[i] = n
            BY <2>0, <3>2
        <3> QED
            BY <3>1, <3>3 DEF DeadInv, Contains
    <2> QED
        BY <2>1, <2>2
<1>2. CASE ~ \E m \in Node : Crash(m)
    <2>1. ~ alive[n] /\ crashes' = crashes
        BY <1>2, Faulty
    <2>2. Contains(n, crashes') /\ fileLog[n] = <<>>
        BY <2>1 DEF DeadInv, Contains
    <2>3. fileLog'[n] = fileLog[n]
        <3>1. ASSUME NEW m \in Node, alive[m], NEW entry, LogAppend(m, entry)
              PROVE  fileLog'[n] = fileLog[n]
            BY <2>1, <3>1 DEF LogAppend, TypeOK
        <3>2. ASSUME NEW m \in Node, NEW f \in File, Upload(m, f)
              PROVE  fileLog'[n] = fileLog[n]
            BY <3>1, <3>2 DEF Upload
        <3>3. ASSUME NEW m \in Node, NEW t \in Poster, PostStep(m, t)
              PROVE  fileLog'[n] = fileLog[n]
            <4>1. CASE PostDelivered(m, t)
                BY <3>1, <4>1, PostType DEF PostDelivered
            <4>2. CASE PostFailed(m, t)
                BY <3>1, <4>2 DEF PostFailed
            <4>3. CASE \/ PostTake(m, t) \/ PostLost(m, t) \/ PostOk(m, t)
                       \/ \E p \in Node : \/ PostSkip(m, t, p) \/ PostFound(m, t, p)
                                          \/ PostAbsent(m, t, p)
                BY <4>3 DEF PostTake, PostLost, PostOk, PostSkip, PostFound, PostAbsent, chans
            <4> QED
                BY <3>3, <4>1, <4>2, <4>3 DEF PostStep
        <3>4. ASSUME NEW m \in Node, NEW d \in Getter, GetStep(m, d)
              PROVE  fileLog'[n] = fileLog[n]
            <4>1. CASE GetAnswered(m, d)
                BY <3>1, <4>1 DEF GetAnswered
            <4>2. CASE GetTake(m, d) \/ GetStart(m, d) \/ GetLock(m, d) \/ GetFailed(m, d)
                BY <4>2 DEF GetTake, GetStart, GetLock, GetFailed, chans
            <4> QED
                BY <3>4, <4>1, <4>2 DEF GetStep
        <3>5. ASSUME NEW m \in Node, ConsumeLog(m)
              PROVE  fileLog'[n] = fileLog[n]
            BY <2>1, <3>5 DEF ConsumeLog, TypeOK
        <3>6. ASSUME NEW m \in Node,
                     \/ \E f \in File : ResendError(m, f) \/ LoadQueue(m, f)
                     \/ \E d \in Reader, p \in Node, f \in File : GetFound(m, d, p, f)
                     \/ Restart(m)
              PROVE  fileLog'[n] = fileLog[n]
            BY <3>6 DEF ResendError, LoadQueue, GetFound, Restart, chans
        <3>7. CASE UNCHANGED vars
            BY <3>7 DEF vars, chans
        <3> QED
            BY <1>2, <3>2, <3>3, <3>4, <3>5, <3>6, <3>7 DEF Next
    <2> QED
        BY <2>2, <2>3
<1> QED
    BY <1>1, <1>2

(* A download that the step leaves where it is stays under way.             *)
LEMMA UnderWayKept ==
    ASSUME TypeOK, NEW n \in Node, NEW f \in File, NEW k \in Nat, NEW h \in Nat, k <= h
    PROVE  /\ toLoad'[n][f] = toLoad[n][f] /\ Loading(n, f, k) => Loading(n, f, h)'
           /\ /\ \/ fromPeers'[n] = fromPeers[n]
                 \/ \E job : fromPeers'[n] = Append(fromPeers[n], job)
              /\ Waiting(n, f, k)
              => Waiting(n, f, h)'
           /\ \A d \in Getter :
                 get'[n][d] = get[n][d] /\ Running(n, d, f, k) => Running(n, d, f, h)'
<1>1. ASSUME Loading(n, f, k), toLoad'[n][f] = toLoad[n][f]
      PROVE  Loading(n, f, h)'
    <2>1. toLoad[n][f] \in Info
        BY <1>1 DEF Loading, TypeOK
    <2>2. toLoad[n][f].retry \in Nat
        BY <2>1 DEF Info
    <2> QED
        BY <1>1, <2>2 DEF Loading
<1>2. ASSUME Waiting(n, f, k), \/ fromPeers'[n] = fromPeers[n]
                               \/ \E job : fromPeers'[n] = Append(fromPeers[n], job)
      PROVE  Waiting(n, f, h)'
    <2>1. PICK i \in 1..Len(fromPeers[n]) : /\ fromPeers[n][i].file = f
                                           /\ fromPeers[n][i].info.retry <= k
        BY <1>2 DEF Waiting
    <2>2. fromPeers[n] \in Seq(JobEntry)
        BY DEF TypeOK
    <2>3. i \in 1..Len(fromPeers'[n]) /\ fromPeers'[n][i] = fromPeers[n][i]
        BY <1>2, <2>2
    <2>4. fromPeers[n][i] \in JobEntry
        BY <2>2
    <2>5. fromPeers[n][i].info \in Info
        BY <2>4 DEF JobEntry
    <2>6. fromPeers[n][i].info.retry \in Nat
        BY <2>5 DEF Info
    <2>7. fromPeers[n][i].info.retry <= h
        BY <2>1, <2>6
    <2> QED
        BY <2>1, <2>3, <2>7 DEF Waiting
<1>3. ASSUME NEW d \in Getter, Running(n, d, f, k), get'[n][d] = get[n][d]
      PROVE  Running(n, d, f, h)'
    <2>1. get[n][d].info \in Info
        BY GetType
    <2>2. get[n][d].info.retry \in Nat
        BY <2>1 DEF Info
    <2>3. get[n][d].info.retry <= h + 1
        BY <1>3, <2>2 DEF Running
    <2> QED
        BY <1>3, <2>3 DEF Running
<1> QED
    BY <1>1, <1>2, <1>3

(* What a step leaves of the downloads of a node that stays up.             *)
Leaves(n) == /\ toLoad'[n] = toLoad[n] /\ get'[n] = get[n]
             /\ \/ fromPeers'[n] = fromPeers[n]
                \/ \E job : fromPeers'[n] = Append(fromPeers[n], job)

LEMMA OthersLeave ==
    ASSUME TypeOK, [Next]_vars, NEW n \in Node, alive[n], alive'[n]
    PROVE  \/ Leaves(n)
           \/ \E f \in File : LoadQueue(n, f)
           \/ \E d \in Getter : GetStep(n, d)
           \/ \E d \in Reader, p \in Node, f \in File : GetFound(n, d, p, f)
<1>1. ASSUME NEW m \in Node, NEW t \in Poster, PostStep(m, t) PROVE Leaves(n)
    <2>0. get' = get
        BY <1>1, PostLeavesGets
    <2>1. CASE PostDelivered(m, t)
        <3>1. post[m][t].to \in Node
            BY PostType
        <3>2. toLoad' = toLoad
            BY <2>1 DEF PostDelivered
        <3>3. \/ fromPeers'[n] = fromPeers[n]
              \/ fromPeers'[n] = Append(fromPeers[n], Job(post[m][t].file, post[m][t].info))
            BY <2>1, <3>1 DEF PostDelivered, TypeOK
        <3> QED
            BY <2>0, <3>2, <3>3 DEF Leaves
    <2>2. CASE \/ PostTake(m, t) \/ PostLost(m, t) \/ PostOk(m, t) \/ PostFailed(m, t)
               \/ \E p \in Node : PostSkip(m, t, p) \/ PostFound(m, t, p)
                                                   \/ PostAbsent(m, t, p)
        <3>1. toLoad' = toLoad /\ fromPeers' = fromPeers
            BY <2>2 DEF PostTake, PostLost, PostOk, PostFailed, PostSkip, PostFound,
                        PostAbsent, chans
        <3> QED
            BY <2>0, <3>1 DEF Leaves
    <2> QED
        BY <1>1, <2>1, <2>2 DEF PostStep
<1>2. ASSUME NEW m \in Node,
             \/ \E f \in File : Upload(m, f) \/ ResendError(m, f)
             \/ ConsumeLog(m)
      PROVE  Leaves(n)
    BY <1>2 DEF Upload, ResendError, ConsumeLog, Leaves
<1>3. ASSUME NEW m \in Node, m # n,
             \/ \E f \in File : LoadQueue(m, f)
             \/ \E d \in Getter : GetStep(m, d)
             \/ \E d \in Reader, p \in Node, f \in File : GetFound(m, d, p, f)
      PROVE  Leaves(n)
    <2>1. ASSUME NEW f \in File, LoadQueue(m, f) PROVE Leaves(n)
        BY <1>3, <2>1 DEF LoadQueue, TypeOK, Leaves
    <2>2. ASSUME NEW d \in Getter, GetStep(m, d) PROVE Leaves(n)
        <3>1. toLoad' = toLoad
            BY <2>2 DEF GetStep, GetTake, GetStart, GetLock, GetAnswered, GetFailed
        <3>2. get'[n] = get[n]
            <4>1. get' = get \/ \E run : get' = [get EXCEPT ![m][d] = run]
                BY <2>2 DEF GetStep, GetTake, GetStart, GetLock, GetAnswered, GetFailed
            <4> QED
                BY <1>3, <4>1 DEF TypeOK
        <3>3. fromPeers'[n] = fromPeers[n]
            BY <1>3, <2>2 DEF GetStep, GetTake, GetStart, GetLock, GetAnswered, GetFailed,
                              QueuedAgain, chans, TypeOK
        <3> QED
            BY <3>1, <3>2, <3>3 DEF Leaves
    <2>3. ASSUME NEW d \in Reader, NEW p \in Node, NEW f \in File, GetFound(m, d, p, f)
          PROVE  Leaves(n)
        BY <1>3, <2>3 DEF GetFound, chans, TypeOK, Leaves
    <2> QED
        BY <1>3, <2>1, <2>2, <2>3
<1>4. ASSUME NEW m \in Node, Crash(m) \/ Restart(m) PROVE Leaves(n)
    <2>1. m # n
        BY <1>4 DEF Crash, Restart, TypeOK
    <2> QED
        BY <1>4, <2>1 DEF Crash, Restart, chans, TypeOK, Leaves
<1>5. CASE UNCHANGED vars
    BY <1>5 DEF vars, chans, Leaves
<1> QED
    BY <1>1, <1>2, <1>3, <1>4, <1>5 DEF Next

(* The retries of a FileInfo are a number. *)
LEMMA RetryType == \A info \in Info : info.retry \in Nat
    BY DEF Info

(* A source that is down has crashed, so a node that nobody but itself      *)
(* crashed beside asks one that is up.                                      *)
LEMMA OthersAlive ==
    ASSUME DeadInv, NEW n \in Node, OnlyCrashed(n), alive[n]
    PROVE  \A m \in Node : alive[m]
    BY DEF DeadInv, OnlyCrashed, Contains

(* A step of a download leaves one with attempts left under way: what it    *)
(* drops is there, what it takes is running, and a transfer is queued again *)
(* only when the network lost it.                                           *)
LEMMA GetKeepsUnderWay ==
    ASSUME TypeOK, TypeOK', SourceInv, NEW n \in Node, NEW d \in Getter, GetStep(n, d),
           \A m \in Node : alive[m],
           NEW f \in File, NEW k \in Nat, NEW h \in Nat, k <= h, Fault => h = k + 1,
           k < RetryCount, f \notin disk'[n], disk[n] \subseteq disk'[n], UnderWay(n, f, k)
    PROVE  UnderWay(n, f, h)'
<1> DEFINE job == get[n][d]
<1>1. /\ job \in GetState /\ job.file \in File /\ job.info \in Info /\ job.src \in Node
      /\ job.info.retry \in Nat
    BY GetType, RetryType
<1>2. toLoad' = toLoad /\ \A e \in Getter \ {d} : get'[n][e] = get[n][e]
    <2>1. toLoad' = toLoad
        BY DEF GetStep, GetTake, GetStart, GetLock, GetAnswered, GetFailed
    <2>2. get' = get \/ \E run : get' = [get EXCEPT ![n][d] = run]
        BY DEF GetStep, GetTake, GetStart, GetLock, GetAnswered, GetFailed
    <2> QED
        BY <2>1, <2>2 DEF TypeOK
<1>3. CASE Loading(n, f, k)
    BY <1>2, <1>3, UnderWayKept DEF UnderWay
<1>4. ASSUME NEW e \in Getter, Running(n, e, f, k), e # d
      PROVE  UnderWay(n, f, h)'
    BY <1>2, <1>4, UnderWayKept DEF UnderWay
<1>5. ASSUME Running(n, d, f, k)
      PROVE  UnderWay(n, f, h)'
    <2>1. job.pc \in {"lock", "get"} /\ job.file = f /\ job.info.retry <= k + 1
        BY <1>5 DEF Running
    <2>2. GetLock(n, d) \/ GetAnswered(n, d) \/ GetFailed(n, d)
        BY <2>1 DEF GetStep, GetTake, GetStart
    <2>3. CASE GetLock(n, d)
        <3>1. get'[n][d] = [job EXCEPT !.pc = "get"]
            BY <2>3 DEF GetLock, TypeOK
        <3>2. get'[n][d].pc = "get" /\ get'[n][d].file = f /\ get'[n][d].info = job.info
            BY <1>1, <2>1, <3>1 DEF GetState
        <3>3. job.info.retry <= h + 1
            BY <1>1, <2>1
        <3> QED
            BY <3>2, <3>3 DEF Running, UnderWay
    <2>4. CASE GetAnswered(n, d)
        <3>1. f \in disk[job.src]
            BY <2>1 DEF SourceInv, SourceStored
        <3>2. f \in disk'[n]
            BY <2>1, <2>4, <3>1 DEF GetAnswered, Renamed, TypeOK
        <3> QED
            BY <3>2
    <2>5. CASE GetFailed(n, d)
        <3>1. Fault
            BY <1>1, <2>5 DEF GetFailed
        <3>3. h = k + 1
            BY <3>1
        <3>4. fromPeers[n] \in Seq(JobEntry) /\ fromPeers'[n] = Append(fromPeers[n], Job(f, job.info))
            BY <2>1, <2>5 DEF GetFailed, QueuedAgain, TypeOK
        <3>5. Len(fromPeers'[n]) \in 1..Len(fromPeers'[n])
              /\ fromPeers'[n][Len(fromPeers'[n])] = Job(f, job.info)
            BY <3>4
        <3>6. Job(f, job.info).file = f /\ Job(f, job.info).info.retry <= h
            BY <1>1, <2>1, <3>3 DEF Job
        <3> QED
            BY <3>5, <3>6 DEF Waiting, UnderWay
    <2> QED
        BY <2>2, <2>3, <2>4, <2>5
<1>6. CASE Waiting(n, f, k)
    <2>1. CASE ~ GetTake(n, d)
        <3>1. \/ fromPeers'[n] = fromPeers[n]
              \/ \E new : fromPeers'[n] = Append(fromPeers[n], new)
            <4>1. fromPeers' = fromPeers \/ QueuedAgain(n, job)
                BY <2>1 DEF GetStep, GetStart, GetLock, GetAnswered, GetFailed, chans
            <4>2. fromPeers' = fromPeers
                  \/ fromPeers' = [fromPeers EXCEPT ![n] = Append(@, Job(job.file, job.info))]
                BY <4>1 DEF QueuedAgain
            <4> QED
                BY <4>2 DEF TypeOK
        <3> QED
            BY <1>6, <3>1, UnderWayKept DEF UnderWay
    <2>2. CASE GetTake(n, d)
        <3> DEFINE head == Head(fromPeers[n])
                   taken(src) == [pc |-> "lock", file |-> head.file, src |-> src,
                                  info |-> Retried(head.info)]
        <3>1. fromPeers[n] \in Seq(JobEntry) /\ fromPeers[n] # <<>>
            BY <2>2 DEF GetTake, TypeOK
        <3>2. fromPeers'[n] = Tail(fromPeers[n])
            BY <2>2 DEF GetTake, TypeOK
        <3>3. PICK i \in 1..Len(fromPeers[n]) : /\ fromPeers[n][i].file = f
                                               /\ fromPeers[n][i].info.retry <= k
            BY <1>6 DEF Waiting
        <3>4. fromPeers[n][i] \in JobEntry
            BY <3>1
        <3>5. fromPeers[n][i].info \in Info
            BY <3>4 DEF JobEntry
        <3>6. fromPeers[n][i].info.retry \in Nat
            BY <3>5, RetryType
        <3>7. CASE i # 1
            <4>1. i - 1 \in 1..Len(fromPeers'[n]) /\ fromPeers'[n][i - 1] = fromPeers[n][i]
                BY <3>1, <3>2, <3>7
            <4>2. fromPeers[n][i].info.retry <= h
                BY <3>3, <3>6
            <4> QED
                BY <3>3, <4>1, <4>2 DEF Waiting, UnderWay
        <3>8. CASE i = 1
            <4>1. head = fromPeers[n][i]
                BY <3>1, <3>8
            <4>2. head.file = f /\ head.info \in Info /\ head.info.retry \in Nat
                  /\ head.info.retry <= k
                BY <3>3, <3>5, <3>6, <4>1
            <4>3. <<f, head.info>> \in Held(disk)
                BY <3>3, <4>1 DEF SourceInv, AllIn, QueueIn
            <4>4. f \notin disk[n] /\ head.info.retry < RetryCount
                BY <4>2
            <4>5. \E src \in Node : IsSource(src, n, head.info.peers)
                <5>1. head.info.peers \in Seq(Node) /\ Len(head.info.peers) > 0
                      /\ f \in disk[head.info.peers[1]]
                    BY <4>2, <4>3 DEF Held, Info
                <5>2. head.info.peers[1] # n
                    BY <4>4, <5>1
                <5>3. PICK src \in Node : src = head.info.peers[1]
                    BY <5>1
                <5>4. 1 \in 1..Len(head.info.peers) /\ \A j \in 1..(1 - 1) : FALSE
                    BY <5>1
                <5> QED
                    BY <5>2, <5>3, <5>4 DEF IsSource
            <4>6. PICK src \in Node : get' = [get EXCEPT ![n][d] = taken(src)]
                <5>1. \/ \A src \in Node : ~ IsSource(src, n, head.info.peers)
                      \/ head.info.retry >= RetryCount
                      \/ head.file \in disk[n]
                      \/ \E src \in Node : get' = [get EXCEPT ![n][d] = taken(src)]
                    BY <2>2 DEF GetTake
                <5>2. ~ head.info.retry >= RetryCount
                    BY <4>2, <4>4
                <5> QED
                    BY <4>2, <4>4, <4>5, <5>1, <5>2
            <4>7. get'[n][d] = taken(src)
                BY <4>6 DEF TypeOK
            <4>8. get'[n][d].pc = "lock" /\ get'[n][d].file = f
                  /\ get'[n][d].info = Retried(head.info)
                BY <4>2, <4>7
            <4>9. Retried(head.info).retry = head.info.retry + 1
                BY <4>2 DEF Retried, Info
            <4>10. Retried(head.info).retry <= h + 1
                BY <4>2, <4>9
            <4> HIDE DEF head, taken
            <4> QED
                BY <4>8, <4>10 DEF Running, UnderWay
        <3> QED
            BY <3>7, <3>8
    <2> QED
        BY <2>1, <2>2
<1> QED
    BY <1>3, <1>4, <1>5, <1>6 DEF UnderWay

(* So does any step while all nodes are up.                                 *)
LEMMA UnderWayStays ==
    ASSUME TypeOK, TypeOK', StoredInv, SourceInv, [Next]_vars, \A m \in Node : alive[m],
           NEW n \in Node, alive'[n], NEW f \in File,
           NEW k \in Nat, NEW h \in Nat, k <= h, Fault => h = k + 1,
           k < RetryCount, f \notin disk'[n], UnderWay(n, f, k)
    PROVE  UnderWay(n, f, h)'
<1>1. disk[n] \subseteq disk'[n]
    BY StepEffect, EffectKeeps DEF StoredInv
<1>2. CASE Leaves(n)
    BY <1>2, UnderWayKept DEF Leaves, UnderWay
<1>3. ASSUME NEW g \in File, LoadQueue(n, g) PROVE UnderWay(n, f, h)'
    <2>1. get' = get /\ toLoad' = [toLoad EXCEPT ![n][g] = NoInfo]
        BY <1>3 DEF LoadQueue
    <2>2. fromPeers[n] \in Seq(JobEntry)
          /\ fromPeers'[n] = Append(fromPeers[n], Job(g, toLoad[n][g]))
        BY <1>3 DEF LoadQueue, TypeOK
    <2>3. CASE Loading(n, f, k) /\ g = f
        <3>1. toLoad[n][f] \in Info /\ toLoad[n][f].retry <= k
            BY <2>3 DEF Loading, TypeOK
        <3>2. toLoad[n][f].retry <= h
            BY <3>1, RetryType
        <3>3. Len(fromPeers'[n]) \in 1..Len(fromPeers'[n])
              /\ fromPeers'[n][Len(fromPeers'[n])] = Job(f, toLoad[n][f])
            BY <2>2, <2>3
        <3>4. Job(f, toLoad[n][f]).file = f /\ Job(f, toLoad[n][f]).info.retry <= h
            BY <3>2 DEF Job
        <3> QED
            BY <3>3, <3>4 DEF Waiting, UnderWay
    <2>4. CASE Loading(n, f, k) /\ g # f
        <3>1. toLoad'[n][f] = toLoad[n][f]
            BY <2>1, <2>4 DEF TypeOK
        <3> QED
            BY <2>4, <3>1, UnderWayKept DEF UnderWay
    <2>5. CASE Waiting(n, f, k) \/ \E d \in Getter : Running(n, d, f, k)
        BY <2>1, <2>2, <2>5, UnderWayKept DEF UnderWay
    <2> QED
        BY <2>3, <2>4, <2>5 DEF UnderWay
<1>4. ASSUME NEW d \in Getter, GetStep(n, d) PROVE UnderWay(n, f, h)'
    BY <1>1, <1>4, GetKeepsUnderWay
<1>5. ASSUME NEW d \in Reader, NEW p \in Node, NEW g \in File, GetFound(n, d, p, g)
      PROVE  UnderWay(n, f, h)'
    <2>1. fromPeers' = fromPeers /\ toLoad' = toLoad /\ get[n][d].pc = "off"
        BY <1>5 DEF GetFound, chans
    <2>2. \A e \in Getter \ {d} : get'[n][e] = get[n][e]
        <3>1. CASE get' = get
            BY <3>1
        <3>2. ASSUME NEW run, get' = [get EXCEPT ![n][d] = run]
              PROVE  \A e \in Getter \ {d} : get'[n][e] = get[n][e]
            BY <3>2 DEF TypeOK
        <3>3. get' = get \/ \E run : get' = [get EXCEPT ![n][d] = run]
            BY <1>5 DEF GetFound
        <3> QED
            BY <3>1, <3>2, <3>3
    <2>3. \A e \in Getter : Running(n, e, f, k) => get'[n][e] = get[n][e]
        BY <2>1, <2>2 DEF Running
    <2> QED
        BY <2>1, <2>3, UnderWayKept DEF UnderWay
<1> QED
    BY <1>2, <1>3, <1>4, <1>5, OthersLeave

(* While the node is up and only it ever crashed, a record keeps its chance.*)
LEMMA ChanceKept ==
    ASSUME TypeOK, TypeOK', StoredInv, SourceInv, DeadInv, [Next]_vars,
           NEW n \in Node, alive[n], alive'[n], OnlyCrashed(n),
           NEW f \in File, NEW r \in Nat, Chance(n, f, r)
    PROVE  Chance(n, f, r)'
<1>1. PICK k \in Nat : k = r + faults
    BY Faulty
<1>2. PICK h \in Nat : h = r + faults'
    BY Faulty
<1>3. k <= h
    BY <1>1, <1>2, Faulty
<1>4. disk[n] \subseteq disk'[n]
    BY StepEffect, EffectKeeps DEF StoredInv
<1> SUFFICES ASSUME f \notin disk'[n], ~ h >= RetryCount
             PROVE  UnderWay(n, f, h)'
    BY <1>2 DEF Chance, UnderWay, Loading, Waiting, Running
<1>5. k < RetryCount /\ UnderWay(n, f, k)
    BY <1>1, <1>3, <1>4 DEF Chance
<1>6. Fault => h = k + 1
    BY <1>1, <1>2, Faulty DEF Fault
<1>7. \A m \in Node : alive[m]
    BY OthersAlive
<1> QED
    BY <1>3, <1>5, <1>6, <1>7, UnderWayStays

(* What the next state records, it records with a chance.                   *)
LEMMA RecordsChance ==
    ASSUME NEW n \in Node, NEW f \in File, NEW info \in Info, Chance(n, f, info.retry)'
    PROVE  /\ queueMd5'[n][f] = info => Recorded(n, f)'
           /\ \A i : fileLog'[n][i].file = f /\ fileLog'[n][i].info = info => ToRecord(n, i)'
    BY DEF Recorded, ToRecord, Chance, UnderWay, Loading, Waiting, Running

(* A record, and an entry of the log that will be one, starts with its      *)
(* download queued or to be loaded.                                         *)
LEMMA NextRecord ==
    TypeOK /\ TypeOK' /\ StoredInv /\ SourceInv /\ DeadInv /\ RecordInv /\ [Next]_vars
        => RecordInv'
<1> SUFFICES ASSUME TypeOK, TypeOK', StoredInv, SourceInv, DeadInv, RecordInv, [Next]_vars,
                    NEW n \in Node, alive'[n], OnlyCrashed(n)'
             PROVE  /\ \A f \in File : Recorded(n, f)'
                    /\ \A i \in 1..Len(fileLog'[n]) : ToRecord(n, i)'
    BY DEF RecordInv, OnlyCrashed
<1>0. fileLog[n] \in Seq(LogEntry) /\ fileLog'[n] \in Seq(LogEntry)
    BY DEF TypeOK
<1>1. OnlyCrashed(n)
    <2>1. CASE \E m \in Node : Crash(m)
        <3>1. PICK m \in Node : crashes' = Append(crashes, m)
            BY <2>1 DEF Crash
        <3>2. crashes \in Seq(Node)
            BY DEF TypeOK
        <3>3. \A i \in 1..Len(crashes) : i \in 1..Len(crashes') /\ crashes'[i] = crashes[i]
            BY <3>1, <3>2
        <3> QED
            BY <3>3 DEF OnlyCrashed
    <2>2. CASE crashes' = crashes
        BY <2>2 DEF OnlyCrashed
    <2> QED
        BY <2>1, <2>2, Faulty
<1>2. CASE ~ alive[n]
    <2>1. PICK m \in Node : Restart(m)
        <3>1. \A m \in Node : alive[m] /\ alive' = alive => m # n /\ alive'[n] = alive[n]
            BY <1>2
        <3>2. alive' # alive
            BY <1>2
        <3>3. ASSUME NEW m \in Node, Crash(m) PROVE FALSE
            <4>1. alive'[n] = alive[n] \/ alive'[n] = FALSE
                BY <3>3 DEF Crash, TypeOK
            <4> QED
                BY <1>2, <4>1
        <3>4. ASSUME NEW m \in Node, NEW t \in Poster, PostStep(m, t) PROVE FALSE
            <4>1. alive' = alive
                BY <3>4 DEF PostStep, PostTake, PostSkip, PostFound, PostAbsent,
                            PostDelivered, PostLost, PostOk, PostFailed
            <4> QED
                BY <3>2, <4>1
        <3>5. ASSUME NEW m \in Node,
                     \/ \E f \in File : Upload(m, f) \/ ResendError(m, f) \/ LoadQueue(m, f)
                     \/ \E d \in Reader, p \in Node, f \in File : GetFound(m, d, p, f)
                     \/ \E d \in Getter : GetStep(m, d)
                     \/ ConsumeLog(m)
              PROVE  FALSE
            <4>1. alive' = alive
                BY <3>5 DEF Upload, ResendError, LoadQueue, GetFound, GetStep, GetTake,
                            GetStart, GetLock, GetAnswered, GetFailed, ConsumeLog
            <4> QED
                BY <3>2, <4>1
        <3>6. CASE UNCHANGED vars
            BY <3>2, <3>6 DEF vars
        <3> QED
            BY <3>3, <3>4, <3>5, <3>6 DEF Next
    <2>2. m = n
        BY <1>2, <2>1 DEF Restart, TypeOK
    <2>3. toLoad'[n] = queueMd5[n] /\ queueMd5' = queueMd5 /\ fileLog' = fileLog
        BY <2>1, <2>2 DEF Restart, TodaysQueue, TypeOK, stable, chans
    <2>4. fileLog[n] = <<>>
        BY <1>2 DEF DeadInv
    <2>5. ASSUME NEW f \in File, queueMd5'[n][f] # NoInfo
          PROVE  Recorded(n, f)'
        <3>1. queueMd5[n][f] \in Info
            BY <2>3, <2>5 DEF TypeOK
        <3>2. PICK info \in Info : info = queueMd5[n][f]
            BY <3>1
        <3>3. info.retry <= info.retry + faults'
            BY RetryType, Faulty
        <3>4. toLoad'[n][f] # NoInfo /\ toLoad'[n][f].retry <= info.retry + faults'
            BY <2>3, <2>5, <3>2, <3>3
        <3>5. Chance(n, f, info.retry)'
            BY <3>4 DEF Loading, UnderWay, Chance
        <3> QED
            BY <2>3, <3>2, <3>5, RecordsChance
    <2>6. \A f \in File : Recorded(n, f)'
        BY <2>5 DEF Recorded
    <2>7. fileLog'[n] = <<>>
        BY <2>3, <2>4
    <2> QED
        BY <2>6, <2>7
<1>3. CASE alive[n]
    <2>1. ASSUME NEW f \in File, NEW info \in Info, Chance(n, f, info.retry)
          PROVE  Chance(n, f, info.retry)'
        <3>1. PICK r \in Nat : r = info.retry
            BY RetryType
        <3>2. Chance(n, f, r)
            BY <2>1, <3>1
        <3>3. Chance(n, f, r)'
            BY <1>1, <1>3, <3>2, ChanceKept
        <3> QED
            BY <3>1, <3>3
    <2>2. \A i \in 1..Len(fileLog[n]) :
             /\ fileLog[n][i] \in LogEntry
             /\ fileLog[n][i].file \in File /\ fileLog[n][i].info \in Info
             /\ fileLog[n][i].kind = "queue" =>
                   Chance(n, fileLog[n][i].file, fileLog[n][i].info.retry)
        <3>1. \A i \in 1..Len(fileLog[n]) : fileLog[n][i] \in LogEntry
            BY <1>0
        <3> QED
            BY <1>1, <1>3, <3>1 DEF RecordInv, ToRecord, LogEntry
    <2>3. ASSUME NEW f \in File, queueMd5'[n][f] # NoInfo
          PROVE  Recorded(n, f)'
        <3>1. CASE queueMd5'[n][f] = queueMd5[n][f]
            <4>1. queueMd5[n][f] \in Info /\ Chance(n, f, queueMd5[n][f].retry)
                BY <1>1, <1>3, <2>3, <3>1 DEF RecordInv, Recorded, TypeOK
            <4>2. PICK info \in Info : info = queueMd5[n][f]
                BY <4>1
            <4>3. Chance(n, f, info.retry)'
                BY <2>1, <4>1, <4>2
            <4> QED
                BY <3>1, <4>2, <4>3, RecordsChance
        <3>2. CASE queueMd5'[n][f] # queueMd5[n][f]
            <4>1. PICK m \in Node : ConsumeLog(m)
                <5>1. queueMd5' # queueMd5
                    BY <3>2
                <5>2. ASSUME NEW m \in Node, NEW t \in Poster, PostStep(m, t) PROVE FALSE
                    <6>1. queueMd5' = queueMd5
                        BY <5>2 DEF PostStep, PostTake, PostSkip, PostFound, PostAbsent,
                                    PostDelivered, PostLost, PostOk, PostFailed, stable
                    <6> QED
                        BY <5>1, <6>1
                <5>3. ASSUME NEW m \in Node,
                             \/ \E g \in File : \/ Upload(m, g) \/ ResendError(m, g)
                                               \/ LoadQueue(m, g)
                             \/ \E d \in Reader, p \in Node, g \in File : GetFound(m, d, p, g)
                             \/ \E d \in Getter : GetStep(m, d)
                             \/ Crash(m) \/ Restart(m)
                      PROVE  FALSE
                    <6>1. queueMd5' = queueMd5
                        BY <5>3 DEF Upload, ResendError, LoadQueue, GetFound, GetStep, GetTake,
                                    GetStart, GetLock, GetAnswered, GetFailed, Crash, Restart,
                                    stable
                    <6> QED
                        BY <5>1, <6>1
                <5>4. CASE UNCHANGED vars
                    BY <5>1, <5>4 DEF vars, stable
                <5> QED
                    BY <5>2, <5>3, <5>4 DEF Next
            <4> DEFINE entry == Head(fileLog[m])
            <4>2. fileLog[m] \in Seq(LogEntry) /\ fileLog[m] # <<>>
                BY <4>1 DEF ConsumeLog, TypeOK
            <4>3. entry \in LogEntry /\ entry = fileLog[m][1] /\ 1 \in 1..Len(fileLog[m])
                BY <4>2, HeadTail
            <4>4. entry.file \in File
                BY <4>3 DEF LogEntry
            <4>5. /\ entry.kind = "queue"
                  /\ queueMd5' = [queueMd5 EXCEPT ![m][entry.file] = entry.info]
                BY <3>2, <4>1 DEF ConsumeLog
            <4> HIDE DEF entry
            <4>6. m = n /\ f = entry.file /\ queueMd5'[n][f] = entry.info
                BY <3>2, <4>4, <4>5 DEF TypeOK
            <4>7. entry.info \in Info /\ Chance(n, f, entry.info.retry)
                BY <2>2, <4>3, <4>5, <4>6
            <4>8. PICK info \in Info : info = entry.info
                BY <4>7
            <4>9. Chance(n, f, info.retry)'
                BY <2>1, <4>7, <4>8
            <4> QED
                BY <4>6, <4>8, <4>9, RecordsChance
        <3> QED
            BY <3>1, <3>2
    <2>4. ASSUME NEW i \in 1..Len(fileLog'[n]), fileLog'[n][i].kind = "queue"
          PROVE  ToRecord(n, i)'
        <3>1. ASSUME NEW j \in 1..Len(fileLog[n]), fileLog[n][j] = fileLog'[n][i]
              PROVE  ToRecord(n, i)'
            <4>1. PICK info \in Info : info = fileLog[n][j].info
                BY <2>2
            <4>2. PICK f \in File : f = fileLog[n][j].file
                BY <2>2
            <4>3. Chance(n, f, info.retry)
                BY <2>2, <2>4, <3>1, <4>1, <4>2
            <4>4. Chance(n, f, info.retry)'
                BY <2>1, <4>3
            <4> QED
                BY <3>1, <4>1, <4>2, <4>4, RecordsChance
        <3>2. CASE \E m \in Node, t \in Poster : PostDelivered(m, t) /\ post[m][t].to = n
            <4>1. PICK m \in Node, t \in Poster : PostDelivered(m, t) /\ post[m][t].to = n
                BY <3>2
            <4> DEFINE job == post[m][t]
                       entry == Log("queue", job.file, job.info)
            <4>2. job.file \in File /\ job.info \in Info
                BY PostType
            <4>3. fileLog'[n] = Append(fileLog[n], entry)
                BY <4>1 DEF PostDelivered, LogAppend, TypeOK
            <4>4. fromPeers[n] \in Seq(JobEntry)
                  /\ fromPeers'[n] = Append(fromPeers[n], Job(job.file, job.info))
                BY <4>1 DEF PostDelivered, TypeOK
            <4>5. \/ i \in 1..Len(fileLog[n]) /\ fileLog'[n][i] = fileLog[n][i]
                  \/ fileLog'[n][i] = entry
                <5> HIDE DEF entry
                <5> QED
                    BY <1>0, <4>3
            <4>6. CASE fileLog'[n][i] = entry
                <5>1. PICK info \in Info : info = job.info
                    BY <4>2
                <5>2. PICK f \in File : f = job.file
                    BY <4>2
                <5>3. entry.file = f /\ entry.info = info
                    BY <5>1, <5>2 DEF Log
                <5>4. Len(fromPeers'[n]) \in 1..Len(fromPeers'[n])
                      /\ fromPeers'[n][Len(fromPeers'[n])] = Job(f, info)
                    BY <4>4, <5>1, <5>2
                <5>5. info.retry <= info.retry + faults'
                    BY RetryType, Faulty
                <5>6. Job(f, info).file = f /\ Job(f, info).info.retry <= info.retry + faults'
                    BY <5>5 DEF Job
                <5>7. Chance(n, f, info.retry)'
                    BY <5>4, <5>6 DEF Waiting, UnderWay, Chance
                <5> QED
                    BY <4>6, <5>3, <5>7, RecordsChance
            <4> QED
                BY <3>1, <4>5, <4>6
        <3>3. CASE ~ \E m \in Node, t \in Poster : PostDelivered(m, t) /\ post[m][t].to = n
            <4>1. \E j \in 1..Len(fileLog[n]) : fileLog[n][j] = fileLog'[n][i]
                <5>1. ASSUME NEW m \in Node, NEW entry \in LogEntry, entry.kind # "queue",
                             LogAppend(m, entry)
                      PROVE  \E j \in 1..Len(fileLog[n]) : fileLog[n][j] = fileLog'[n][i]
                    <6>1. fileLog'[n] = fileLog[n] \/ fileLog'[n] = Append(fileLog[n], entry)
                        BY <5>1 DEF LogAppend, TypeOK
                    <6> QED
                        BY <1>0, <2>4, <5>1, <6>1
                <5>2. CASE fileLog'[n] = fileLog[n]
                    BY <5>2
                <5>3. ASSUME NEW m \in Node, NEW f \in File, Upload(m, f)
                      PROVE  \E j \in 1..Len(fileLog[n]) : fileLog[n][j] = fileLog'[n][i]
                    <6>1. Log("upload", f, Fresh(m)) \in LogEntry
                          /\ Log("upload", f, Fresh(m)).kind # "queue"
                        BY InfoType, EntryType DEF Log
                    <6> QED
                        BY <5>1, <5>3, <6>1 DEF Upload
                <5>4. ASSUME NEW m \in Node, NEW t \in Poster, PostStep(m, t)
                      PROVE  \E j \in 1..Len(fileLog[n]) : fileLog[n][j] = fileLog'[n][i]
                    <6>1. CASE PostDelivered(m, t)
                        <7>1. post[m][t].to # n /\ post[m][t].to \in Node
                            BY <3>3, <6>1, PostType
                        <7>2. fileLog'[n] = fileLog[n]
                            BY <6>1, <7>1 DEF PostDelivered, LogAppend, TypeOK
                        <7> QED
                            BY <5>2, <7>2
                    <6>2. CASE PostFailed(m, t)
                        <7>1. Log("errors", post[m][t].file, Fresh(m)) \in LogEntry
                              /\ Log("errors", post[m][t].file, Fresh(m)).kind # "queue"
                            BY PostType, InfoType, EntryType DEF Log
                        <7>2. LogAppend(m, Log("errors", post[m][t].file, Fresh(m)))
                            BY <6>2 DEF PostFailed
                        <7> QED
                            BY <5>1, <7>1, <7>2
                    <6>3. CASE \/ PostTake(m, t) \/ PostLost(m, t) \/ PostOk(m, t)
                               \/ \E p \in Node : \/ PostSkip(m, t, p) \/ PostFound(m, t, p)
                                                  \/ PostAbsent(m, t, p)
                        <7>1. fileLog' = fileLog
                            BY <6>3 DEF PostTake, PostLost, PostOk, PostSkip, PostFound,
                                        PostAbsent, chans
                        <7> QED
                            BY <5>2, <7>1
                    <6> QED
                        BY <5>4, <6>1, <6>2, <6>3 DEF PostStep
                <5>5. ASSUME NEW m \in Node, NEW d \in Getter, GetStep(m, d)
                      PROVE  \E j \in 1..Len(fileLog[n]) : fileLog[n][j] = fileLog'[n][i]
                    <6>1. Log("files", get[m][d].file, get[m][d].info) \in LogEntry
                          /\ Log("files", get[m][d].file, get[m][d].info).kind # "queue"
                        BY GetType, EntryType DEF Log
                    <6>2. \/ fileLog' = fileLog
                          \/ LogAppend(m, Log("files", get[m][d].file, get[m][d].info))
                        BY <5>5 DEF GetStep, GetTake, GetStart, GetLock, GetAnswered,
                                    GetFailed, chans
                    <6> QED
                        BY <5>1, <5>2, <6>1, <6>2
                <5>6. ASSUME NEW m \in Node, ConsumeLog(m)
                      PROVE  \E j \in 1..Len(fileLog[n]) : fileLog[n][j] = fileLog'[n][i]
                    <6>1. fileLog[m] # <<>> /\ fileLog' = [fileLog EXCEPT ![m] = Tail(@)]
                        BY <5>6 DEF ConsumeLog
                    <6>2. CASE m = n
                        <7>1. fileLog'[n] = Tail(fileLog[n]) /\ fileLog[n] # <<>>
                            BY <6>1, <6>2 DEF TypeOK
                        <7>2. i + 1 \in 1..Len(fileLog[n]) /\ fileLog'[n][i] = fileLog[n][i + 1]
                            BY <1>0, <7>1, TailEntry
                        <7> QED
                            BY <7>2
                    <6>3. CASE m # n
                        <7>1. fileLog'[n] = fileLog[n]
                            BY <6>1, <6>3 DEF TypeOK
                        <7> QED
                            BY <5>2, <7>1
                    <6> QED
                        BY <6>2, <6>3
                <5>7. ASSUME NEW m \in Node, Crash(m)
                      PROVE  \E j \in 1..Len(fileLog[n]) : fileLog[n][j] = fileLog'[n][i]
                    <6>1. fileLog'[n] = <<>> \/ fileLog'[n] = fileLog[n]
                        BY <5>7 DEF Crash, TypeOK
                    <6> QED
                        BY <5>2, <6>1
                <5>8. ASSUME NEW m \in Node,
                             \/ \E f \in File : ResendError(m, f) \/ LoadQueue(m, f)
                             \/ \E d \in Reader, p \in Node, f \in File : GetFound(m, d, p, f)
                             \/ Restart(m)
                      PROVE  \E j \in 1..Len(fileLog[n]) : fileLog[n][j] = fileLog'[n][i]
                    <6>1. fileLog' = fileLog
                        BY <5>8 DEF ResendError, LoadQueue, GetFound, Restart, chans
                    <6> QED
                        BY <5>2, <6>1
                <5>9. CASE UNCHANGED vars
                    BY <5>2, <5>9 DEF vars, chans
                <5> QED
                    BY <5>3, <5>4, <5>5, <5>6, <5>7, <5>8, <5>9 DEF Next
            <4> QED
                BY <3>1, <4>1
        <3> QED
            BY <3>2, <3>3
    <2> QED
        BY <2>3, <2>4 DEF Recorded, ToRecord
<1> QED
    BY <1>2, <1>3

(* What queue.md5 recorded is fetched, also across restarts of the node, as *)
(* long as the recorded counter leaves more attempts than transfers were    *)
(* lost, and no other node crashed.                                         *)
THEOREM RecordCorrect == Spec => []RecordedDownloadGoesOn
<1>1. Init => DeadInv /\ RecordInv
    BY DEF Init, DeadInv, RecordInv, Recorded, ToRecord
<1>2. TypeOK /\ RecordInv => RecordedDownloadGoesOn
    <2> SUFFICES ASSUME TypeOK, RecordInv, NEW n \in Node, NEW f \in File,
                        alive[n], queueMd5[n][f] # NoInfo,
                        \A i \in 1..Len(crashes) : crashes[i] = n,
                        queueMd5[n][f].retry + faults < RetryCount
                 PROVE  f \in disk[n] \/ Fetching(n, f)
        BY DEF RecordedDownloadGoesOn
    <2>1. Chance(n, f, queueMd5[n][f].retry)
        BY DEF RecordInv, Recorded, OnlyCrashed
    <2>2. queueMd5[n][f] \in Info /\ faults \in Nat
        BY DEF TypeOK
    <2>3. queueMd5[n][f].retry \in Nat
        BY <2>2, RetryType
    <2>4. ~ (queueMd5[n][f].retry + faults >= RetryCount)
        BY <2>2, <2>3
    <2> QED
        BY <2>1, <2>4 DEF Chance, UnderWay, Loading, Waiting, Running, Fetching
<1>3. Spec => [](TypeOK /\ StoredInv /\ SourceInv /\ DeadInv /\ RecordInv)
    BY <1>1, InitTypeOK, InitStored, InitSource, NextTypeOK, NextStored, NextSource, NextDead,
       NextRecord, PTL DEF Spec
<1> QED
    BY <1>2, <1>3, PTL
-----------------------------------------------------------------------------
(* ListedPeerHasFile: whoever a FileInfo lists has the file or a chance of  *)
(* it, and that takes counters that stay below RetryCount.  A counter grows *)
(* with every lost request, and with every download: one when the node that *)
(* has posted the file got it from another.  A node posts what it has       *)
(* downloaded only when it has failed to post that file before, so that     *)
(* failure pays for the download.  Marks are the nodes with such a failure. *)
(*                                                                          *)
(* The premise: nobody crashes, clients' requests bring no counters along   *)
(* (GetFound), and the network loses less than the retries allow.           *)
Undisturbed == /\ Reader = {} /\ MaxCrashes = 0 /\ MaxFaults < RetryCount
               /\ IsFiniteSet(Node)

ErrorIn(log, f) == \E i \in 1..Len(log) : log[i].kind = "errors" /\ log[i].file = f
Failing(job, f) == job.pc = "reply" /\ job.file = f /\ ~ Accepted(job.result)
Marked(n, f) == \/ f \in errorsMd5[n]
                \/ ErrorIn(fileLog[n], f)
                \/ \E t \in Poster : Failing(post[n][t], f)
Marks(f) == {n \in Node : Marked(n, f)}

(* The counter, and the failures that may still add to it.                  *)
Unlisted(f, info) == {n \in Marks(f) : ~ Contains(n, info.peers)}
Cost(f, info) == info.retry + Cardinality(Unlisted(f, info))

Good(f, info) == \A p \in Node : Contains(p, info.peers) => Chance(p, f, 0)

(* A FileInfo that n has made or has listed itself in, one that was posted  *)
(* to n, and one that n has begun to download.                              *)
Own(n, f, info) ==
    Good(f, info) /\ Contains(n, info.peers) /\ Cost(f, info) <= faults
Received(n, f, info) ==
    Good(f, info) /\ ~ Contains(n, info.peers) /\ Cost(f, info) <= faults
Loaded(n, f, info) ==
    Good(f, info) /\ ~ Contains(n, info.peers) /\ Cost(f, info) <= faults + 1

IndexTally ==
    \A n \in Node, f \in File : index[n][f] # NoInfo =>
        Own(n, f, index[n][f]) \/ Loaded(n, f, index[n][f])

(* What the channels carry.                                                 *)
ToPost  == [n \in Node |-> {job \in JobEntry : Own(n, job.file, job.info)}]
ToFetch == [n \in Node |-> {job \in JobEntry : Received(n, job.file, job.info)}]
ToSave  == [n \in Node |-> {entry \in LogEntry :
               entry.kind = "files" => Loaded(n, entry.file, entry.info)}]

Carries(Q, A) == \A n \in Node : \A i \in 1..Len(Q[n]) : Q[n][i] \in A[n]

QueueTally ==
    Carries(toPeers, ToPost) /\ Carries(fromPeers, ToFetch) /\ Carries(fileLog, ToSave)

(* The FileInfo of an upload is in use until it is logged.                  *)
UploadIn(log, t) == \E i \in 1..Len(log) : log[i].kind = "upload" /\ log[i].file = t

Posted(n, t, job) ==
    /\ t \in File => job.file = t
    /\ job.pc # "off" \/ UploadIn(fileLog[n], t) => Own(n, job.file, job.info)
    /\ job.pc = "send" => ~ Contains(job.to, job.info.peers)
    /\ job.pc = "reply" /\ job.result = "ok" => Chance(job.to, job.file, 0)
    /\ job.pc = "reply" /\ job.result = "error" => Cost(job.file, job.info) + 1 <= faults

PostTally == \A n \in Node, t \in Poster : Posted(n, t, post[n][t])

GetTally ==
    \A n \in Node, d \in Getter :
        get[n][d].pc # "off" => Loaded(n, get[n][d].file, get[n][d].info)

MarkTally == \A f \in File : Cardinality(Marks(f)) <= faults

(* Without a crash nothing is loaded again, without readers nothing found.  *)
CalmInv == /\ \A n \in Node, f \in File : toLoad[n][f] = NoInfo
           /\ \A n \in Node, d \in Getter : get[n][d].pc # "found"

BaseInv == TypeOK /\ StoredInv /\ SourceInv /\ DeadInv /\ CalmInv
TallyInv == IndexTally /\ QueueTally /\ PostTally /\ GetTally /\ MarkTally

LEMMA AllUp ==
    ASSUME Undisturbed, BaseInv
    PROVE  crashes = <<>> /\ \A n \in Node : alive[n]
<1>1. crashes = <<>>
    BY DEF Undisturbed, BaseInv, TypeOK
<1> QED
    BY <1>1 DEF BaseInv, DeadInv, Contains

(* The steps that are left.                                                 *)
CalmStep(n) == \/ \E f \in File : Upload(n, f) \/ ResendError(n, f)
               \/ \E t \in Poster : PostStep(n, t)
               \/ \E d \in Getter : GetTake(n, d) \/ GetLock(n, d) \/ GetAnswered(n, d)
                                                 \/ GetFailed(n, d)
               \/ ConsumeLog(n)

LEMMA CalmSteps ==
    ASSUME Undisturbed, BaseInv, [Next]_vars
    PROVE  UNCHANGED vars \/ \E n \in Node : CalmStep(n)
<1>1. \A n \in Node : ~ Crash(n) /\ ~ Restart(n)
    BY AllUp DEF Undisturbed, Crash, Restart
<1>2. \A n \in Node, f \in File : ~ LoadQueue(n, f)
    BY DEF BaseInv, CalmInv, LoadQueue
<1>3. \A n \in Node, d \in Getter : ~ GetStart(n, d)
    BY DEF BaseInv, CalmInv, GetStart
<1>4. ~ \E n \in Node, d \in Reader, p \in Node, f \in File : GetFound(n, d, p, f)
    BY DEF Undisturbed
<1> QED
    BY <1>1, <1>2, <1>3, <1>4 DEF Next, GetStep, CalmStep

LEMMA NextCalm ==
    ASSUME Undisturbed, BaseInv, [Next]_vars
    PROVE  CalmInv'
<1>1. CASE UNCHANGED vars
    BY <1>1 DEF vars, BaseInv, CalmInv
<1>2. ASSUME NEW n \in Node, CalmStep(n) PROVE CalmInv'
    <2>1. toLoad' = toLoad
        <3>1. ASSUME NEW t \in Poster, PostStep(n, t) PROVE toLoad' = toLoad
            BY <3>1 DEF PostStep, PostTake, PostSkip, PostFound, PostAbsent, PostDelivered,
                        PostLost, PostOk, PostFailed
        <3>2. ASSUME NEW d \in Getter,
                     GetTake(n, d) \/ GetLock(n, d) \/ GetAnswered(n, d) \/ GetFailed(n, d)
              PROVE  toLoad' = toLoad
            BY <3>2 DEF GetTake, GetLock, GetAnswered, GetFailed
        <3>3. CASE ConsumeLog(n) \/ \E f \in File : Upload(n, f) \/ ResendError(n, f)
            BY <3>3 DEF ConsumeLog, Upload, ResendError
        <3> QED
            BY <1>2, <3>1, <3>2, <3>3 DEF CalmStep
    <2>2. \/ get' = get
          \/ \E d \in Getter : \E run : run.pc # "found" /\ get' = [get EXCEPT ![n][d] = run]
        <3>1. CASE \E t \in Poster : PostStep(n, t)
            BY <3>1, PostLeavesGets
        <3>2. CASE ConsumeLog(n) \/ \E f \in File : Upload(n, f) \/ ResendError(n, f)
            BY <3>2 DEF ConsumeLog, Upload, ResendError
        <3>3. ASSUME NEW d \in Getter, GetTake(n, d)
              PROVE  get' = get \/ \E run : run.pc # "found" /\ get' = [get EXCEPT ![n][d] = run]
            <4>1. ASSUME NEW src
                  PROVE  [pc |-> "lock", file |-> Head(fromPeers[n]).file, src |-> src,
                          info |-> Retried(Head(fromPeers[n]).info)].pc # "found"
                OBVIOUS
            <4> QED
                BY <3>3, <4>1 DEF GetTake
        <3>4. ASSUME NEW d \in Getter, GetLock(n, d)
              PROVE  \E run : run.pc # "found" /\ get' = [get EXCEPT ![n][d] = run]
            <4>1. [get[n][d] EXCEPT !.pc = "get"].pc # "found"
                BY GetType DEF BaseInv, GetState
            <4> QED
                BY <3>4, <4>1 DEF GetLock
        <3>5. ASSUME NEW d \in Getter, GetAnswered(n, d) \/ GetFailed(n, d)
              PROVE  \E run : run.pc # "found" /\ get' = [get EXCEPT ![n][d] = run]
            BY <3>5 DEF GetAnswered, GetFailed, NewGet
        <3> QED
            BY <1>2, <3>1, <3>2, <3>3, <3>4, <3>5 DEF CalmStep
    <2>3. CASE get' = get
        BY <2>1, <2>3 DEF BaseInv, CalmInv
    <2>4. ASSUME NEW d \in Getter, NEW run, run.pc # "found",
                 get' = [get EXCEPT ![n][d] = run]
          PROVE  CalmInv'
        <3>1. \A m \in Node, e \in Getter : get'[m][e] = run \/ get'[m][e] = get[m][e]
            BY <2>4 DEF BaseInv, TypeOK
        <3> QED
            BY <2>1, <2>4, <3>1 DEF BaseInv, CalmInv
    <2> QED
        BY <2>2, <2>3, <2>4
<1> QED
    BY <1>1, <1>2, CalmSteps

(* What a channel says of errors and uploads, as entries come and go.       *)
LEMMA LogEntries ==
    ASSUME NEW s \in Seq(LogEntry), NEW f
    PROVE  /\ \A entry \in LogEntry :
                 /\ ErrorIn(Append(s, entry), f) =>
                       ErrorIn(s, f) \/ (entry.kind = "errors" /\ entry.file = f)
                 /\ UploadIn(Append(s, entry), f) =>
                       UploadIn(s, f) \/ (entry.kind = "upload" /\ entry.file = f)
           /\ s # <<>> => /\ ErrorIn(Tail(s), f) => ErrorIn(s, f)
                          /\ UploadIn(Tail(s), f) => UploadIn(s, f)
                          /\ Head(s).kind = "errors" => ErrorIn(s, Head(s).file)
                          /\ Head(s).kind = "upload" => UploadIn(s, Head(s).file)
<1>1. ASSUME NEW entry \in LogEntry
      PROVE  \A i \in 1..Len(Append(s, entry)) :
                \/ i \in 1..Len(s) /\ Append(s, entry)[i] = s[i]
                \/ Append(s, entry)[i] = entry
    OBVIOUS
<1>2. ASSUME s # <<>>
      PROVE  /\ \A i \in 1..Len(Tail(s)) : i + 1 \in 1..Len(s) /\ Tail(s)[i] = s[i + 1]
             /\ 1 \in 1..Len(s) /\ Head(s) = s[1]
    BY <1>2, TailEntry
<1> QED
    BY <1>1, <1>2 DEF ErrorIn, UploadIn

(* The log of a node, and what it is to be consumed.                        *)
LEMMA LogChange ==
    ASSUME TypeOK, NEW n \in Node, CalmStep(n)
    PROVE  \/ fileLog' = fileLog
           \/ \E m \in Node, entry \in LogEntry :
                 /\ fileLog' = [fileLog EXCEPT ![m] = Append(@, entry)]
                 /\ entry.kind = "upload" => /\ m = n /\ Upload(n, entry.file)
                 /\ entry.kind = "errors" =>
                       m = n /\ \E t \in Poster : Failing(post[n][t], entry.file)
           \/ /\ ConsumeLog(n) /\ fileLog[n] # <<>>
              /\ fileLog' = [fileLog EXCEPT ![n] = Tail(@)]
<1> DEFINE Appended == \E m \in Node, entry \in LogEntry :
               /\ fileLog' = [fileLog EXCEPT ![m] = Append(@, entry)]
               /\ entry.kind = "upload" => /\ m = n /\ Upload(n, entry.file)
               /\ entry.kind = "errors" =>
                     m = n /\ \E t \in Poster : Failing(post[n][t], entry.file)
<1>0. \A kind, f, info : /\ Log(kind, f, info).kind = kind
                         /\ Log(kind, f, info).file = f
    BY DEF Log
<1>1. ASSUME NEW f \in File, Upload(n, f) PROVE Appended
    <2> DEFINE entry == Log("upload", f, Fresh(n))
    <2>1. entry \in LogEntry
        BY EntryType, InfoType
    <2>2. fileLog' = [fileLog EXCEPT ![n] = Append(@, entry)]
        BY <1>1 DEF Upload, LogAppend
    <2>3. entry.kind = "upload" /\ entry.file = f
        BY <1>0
    <2>4. Upload(n, entry.file)
        BY <1>1, <2>3
    <2> HIDE DEF entry
    <2> QED
        BY <2>1, <2>2, <2>3, <2>4
<1>2. ASSUME NEW t \in Poster, PostDelivered(n, t) PROVE Appended
    <2> DEFINE entry == Log("queue", post[n][t].file, post[n][t].info)
    <2>1. entry \in LogEntry /\ post[n][t].to \in Node
        BY EntryType, PostType
    <2>2. fileLog' = [fileLog EXCEPT ![post[n][t].to] = Append(@, entry)]
        BY <1>2 DEF PostDelivered, LogAppend
    <2>3. entry.kind = "queue"
        BY <1>0
    <2> QED
        BY <2>1, <2>2, <2>3
<1>3. ASSUME NEW t \in Poster, PostFailed(n, t) PROVE Appended
    <2> DEFINE entry == Log("errors", post[n][t].file, Fresh(n))
    <2>1. entry \in LogEntry
        BY EntryType, PostType, InfoType
    <2>2. fileLog' = [fileLog EXCEPT ![n] = Append(@, entry)] /\ Failing(post[n][t], post[n][t].file)
        BY <1>3 DEF PostFailed, LogAppend, Failing
    <2>3. entry.kind = "errors" /\ entry.file = post[n][t].file
        BY <1>0
    <2> QED
        BY <2>1, <2>2, <2>3
<1>4. ASSUME NEW d \in Getter, GetAnswered(n, d) PROVE fileLog' = fileLog \/ Appended
    <2> DEFINE entry == Log("files", get[n][d].file, get[n][d].info)
    <2>1. entry \in LogEntry
        BY EntryType, GetType
    <2>2. \/ fileLog' = fileLog
          \/ fileLog' = [fileLog EXCEPT ![n] = Append(@, entry)]
        BY <1>4 DEF GetAnswered, LogAppend
    <2>3. entry.kind = "files"
        BY <1>0
    <2> QED
        BY <2>1, <2>2, <2>3
<1>5. ASSUME ConsumeLog(n)
      PROVE  fileLog[n] # <<>> /\ fileLog' = [fileLog EXCEPT ![n] = Tail(@)]
    BY <1>5 DEF ConsumeLog
<1>6. ASSUME NEW t \in Poster,
             \/ PostTake(n, t) \/ PostLost(n, t) \/ PostOk(n, t)
             \/ \E p \in Node : PostSkip(n, t, p) \/ PostFound(n, t, p) \/ PostAbsent(n, t, p)
      PROVE  fileLog' = fileLog
    BY <1>6 DEF PostTake, PostLost, PostOk, PostSkip, PostFound, PostAbsent, chans
<1>7. ASSUME \/ \E f \in File : ResendError(n, f)
             \/ \E d \in Getter : GetTake(n, d) \/ GetLock(n, d) \/ GetFailed(n, d)
      PROVE  fileLog' = fileLog
    BY <1>7 DEF ResendError, GetTake, GetLock, GetFailed, chans
<1> QED
    BY <1>1, <1>2, <1>3, <1>4, <1>5, <1>6, <1>7 DEF CalmStep, PostStep

(* Only a fault marks a node for a file: the node whose request failed.     *)
LEMMA NewMarks ==
    ASSUME Undisturbed, BaseInv, NEW n \in Node, CalmStep(n), NEW f \in File
    PROVE  /\ faults \in Nat /\ (faults' = faults \/ faults' = faults + 1)
           /\ faults' = faults => Marks(f)' \subseteq Marks(f)
           /\ Marks(f)' \subseteq Marks(f) \cup {n}
<1>1. TypeOK /\ \A m \in Node : alive[m]
    BY AllUp DEF BaseInv
<1>2. faults \in Nat /\ (faults' = faults \/ faults' = faults + 1)
    <2>1. ASSUME NEW t \in Poster, PostDelivered(n, t) \/ PostLost(n, t)
          PROVE  faults' = faults \/ faults' = faults + 1
        BY <1>1, <2>1, PostType DEF PostDelivered, PostLost, Fault
    <2>2. ASSUME NEW d \in Getter, GetFailed(n, d) PROVE faults' = faults + 1
        BY <1>1, <2>2, GetType DEF GetFailed, Fault
    <2>3. ASSUME NEW t \in Poster, NEW p \in Node, PostAbsent(n, t, p)
          PROVE  faults' = faults \/ faults' = faults + 1
        BY <2>3 DEF PostAbsent, Fault
    <2>4. ASSUME \/ \E g \in File : Upload(n, g) \/ ResendError(n, g)
                 \/ \E t \in Poster : \/ PostTake(n, t) \/ PostOk(n, t) \/ PostFailed(n, t)
                                      \/ \E p \in Node : PostSkip(n, t, p) \/ PostFound(n, t, p)
                 \/ \E d \in Getter : GetTake(n, d) \/ GetLock(n, d) \/ GetAnswered(n, d)
                 \/ ConsumeLog(n)
          PROVE  faults' = faults
        BY <2>4 DEF Upload, ResendError, PostTake, PostOk, PostFailed, PostSkip, PostFound,
                    GetTake, GetLock, GetAnswered, ConsumeLog, env
    <2> QED
        BY <1>1, <2>1, <2>2, <2>3, <2>4 DEF CalmStep, PostStep, TypeOK
<1>3. ASSUME NEW m \in Node, ErrorIn(fileLog[m], f)'
      PROVE  Marked(m, f)
    <2>1. fileLog[m] \in Seq(LogEntry) /\ fileLog \in [Node -> Seq(LogEntry)]
        BY <1>1 DEF TypeOK
    <2>2. CASE fileLog' = fileLog
        BY <1>3, <2>2 DEF Marked, ErrorIn
    <2>3. ASSUME NEW k \in Node, NEW entry \in LogEntry,
                 fileLog' = [fileLog EXCEPT ![k] = Append(@, entry)],
                 entry.kind = "errors" =>
                    k = n /\ \E t \in Poster : Failing(post[n][t], entry.file)
          PROVE  Marked(m, f)
        <3>1. ErrorIn(fileLog'[m], f)
            BY <1>3 DEF ErrorIn
        <3>2. CASE m = k
            <4>1. fileLog'[m] = Append(fileLog[m], entry)
                BY <2>1, <2>3, <3>2
            <4>2. ErrorIn(fileLog[m], f) \/ (entry.kind = "errors" /\ entry.file = f)
                BY <2>1, <3>1, <4>1, LogEntries
            <4> QED
                BY <2>3, <3>2, <4>2 DEF Marked
        <3>3. CASE m # k
            BY <2>1, <2>3, <3>1, <3>3 DEF Marked
        <3> QED
            BY <3>2, <3>3
    <2>4. CASE fileLog[n] # <<>> /\ fileLog' = [fileLog EXCEPT ![n] = Tail(@)]
        <3>1. ErrorIn(fileLog'[m], f)
            BY <1>3 DEF ErrorIn
        <3>2. fileLog'[m] = fileLog[m] \/ (m = n /\ fileLog'[m] = Tail(fileLog[m]))
            BY <2>1, <2>4
        <3>3. ErrorIn(fileLog[m], f)
            BY <2>1, <2>4, <3>1, <3>2, LogEntries
        <3> QED
            BY <3>3 DEF Marked
    <2> QED
        BY <1>1, <2>2, <2>3, <2>4, LogChange
<1>4. ASSUME NEW m \in Node, f \in errorsMd5'[m]
      PROVE  Marked(m, f)
    <2>1. CASE errorsMd5' = errorsMd5
        BY <1>4, <2>1 DEF Marked
    <2>2. CASE errorsMd5' # errorsMd5
        <3>1. /\ fileLog[n] # <<>> /\ Head(fileLog[n]).kind = "errors"
              /\ errorsMd5' = [errorsMd5 EXCEPT ![n] = @ \cup {Head(fileLog[n]).file}]
            <4>1. ASSUME NEW t \in Poster, PostStep(n, t) PROVE errorsMd5' = errorsMd5
                BY <4>1 DEF PostStep, PostTake, PostSkip, PostFound, PostAbsent, PostDelivered,
                            PostLost, PostOk, PostFailed, stable
            <4>2. ASSUME NEW d \in Getter,
                         GetTake(n, d) \/ GetLock(n, d) \/ GetAnswered(n, d) \/ GetFailed(n, d)
                  PROVE  errorsMd5' = errorsMd5
                BY <4>2 DEF GetTake, GetLock, GetAnswered, GetFailed, stable
            <4>3. ASSUME NEW g \in File, Upload(n, g) \/ ResendError(n, g)
                  PROVE  errorsMd5' = errorsMd5
                BY <4>3 DEF Upload, ResendError, stable
            <4>4. ConsumeLog(n)
                BY <2>2, <4>1, <4>2, <4>3 DEF CalmStep
            <4> QED
                BY <2>2, <4>4 DEF ConsumeLog
        <3>2. f \in errorsMd5[m] \/ (m = n /\ f = Head(fileLog[n]).file)
            BY <1>1, <1>4, <3>1 DEF TypeOK
        <3>3. fileLog[n] \in Seq(LogEntry)
            BY <1>1 DEF TypeOK
        <3>4. ErrorIn(fileLog[n], Head(fileLog[n]).file)
            BY <3>1, <3>3, LogEntries
        <3> QED
            BY <3>2, <3>4 DEF Marked
    <2> QED
        BY <2>1, <2>2
<1>5. ASSUME NEW m \in Node, NEW u \in Poster, Failing(post[m][u], f)'
      PROVE  Marked(m, f) \/ (m = n /\ faults' # faults)
    <2>0. /\ post \in [Node -> [Poster -> PostState]]
          /\ Failing(post'[m][u], f)
        BY <1>1, <1>5 DEF TypeOK, Failing
    <2>1. ASSUME NEW t \in Poster, NEW job, post' = [post EXCEPT ![n][t] = job],
                 ~ Failing(job, f)
          PROVE  Marked(m, f)
        <3>1. post'[m][u] = post[m][u] \/ post'[m][u] = job
            BY <2>0, <2>1
        <3> QED
            BY <2>0, <2>1, <3>1 DEF Marked
    <2>2. \A g, info, todo : ~ Failing(NewPost(n, g, info, todo), f)
        BY DEF Failing, NewPost
    <2>3. ASSUME NEW g \in File, Upload(n, g) PROVE Marked(m, f)
        BY <2>1, <2>2, <2>3 DEF Upload, Poster
    <2>4. ASSUME NEW t \in Poster, PostStep(n, t)
          PROVE  Marked(m, f) \/ (m = n /\ faults' # faults)
        <3>0. post[n][t] \in PostState
            BY <1>1, PostType
        <3>1. CASE \/ PostTake(n, t) \/ PostOk(n, t) \/ PostFailed(n, t)
                   \/ \E p \in Node : PostSkip(n, t, p) \/ PostFound(n, t, p)
            <4>1. \E g, info, todo : post' = [post EXCEPT ![n][t] = NewPost(n, g, info, todo)]
                <5>1. CASE PostTake(n, t)
                    BY <5>1 DEF PostTake
                <5>2. CASE PostOk(n, t)
                    BY <5>2 DEF PostOk, Advance
                <5>3. CASE PostFailed(n, t)
                    BY <5>3 DEF PostFailed, Advance
                <5>4. CASE \E p \in Node : PostSkip(n, t, p) \/ PostFound(n, t, p)
                    BY <5>4 DEF PostSkip, PostFound, Advance
                <5> QED
                    BY <3>1, <5>1, <5>2, <5>3, <5>4
            <4> QED
                BY <2>1, <2>2, <4>1
        <3>2. ASSUME NEW p \in Node, PostAbsent(n, t, p) PROVE Marked(m, f)
            <4>1. ~ Failing(Sending(post[n][t], p), f)
                BY <3>0 DEF Failing, Sending, PostState
            <4> QED
                BY <2>1, <3>2, <4>1 DEF PostAbsent
        <3>3. CASE PostDelivered(n, t) \/ PostLost(n, t)
            <4>1. ~ Failing(Replied(post[n][t], "ok"), f)
                BY <3>0 DEF Failing, Replied, Accepted, PostState
            <4>2. CASE post' = [post EXCEPT ![n][t] = Replied(post[n][t], "ok")]
                BY <2>1, <4>1, <4>2
            <4>3. CASE /\ Fault
                       /\ \E result : post' = [post EXCEPT ![n][t] = Replied(post[n][t], result)]
                <5>1. CASE m = n
                    BY <1>2, <4>3, <5>1 DEF Fault
                <5>2. CASE m # n
                    <6>1. post'[m][u] = post[m][u]
                        BY <2>0, <4>3, <5>2
                    <6> QED
                        BY <2>0, <6>1 DEF Marked
                <5> QED
                    BY <5>1, <5>2
            <4> QED
                BY <1>1, <3>0, <3>3, <4>2, <4>3 DEF PostDelivered, PostLost, PostState
        <3> QED
            BY <2>4, <3>1, <3>2, <3>3 DEF PostStep
    <2>5. CASE post' = post
        BY <2>0, <2>5 DEF Marked
    <2> QED
        BY <2>3, <2>4, <2>5 DEF CalmStep, ResendError, GetTake, GetLock, GetAnswered, GetFailed,
                                ConsumeLog
<1>6. \A m \in Node : Marked(m, f)' => Marked(m, f) \/ (m = n /\ faults' # faults)
    BY <1>3, <1>4, <1>5 DEF Marked
<1> QED
    BY <1>2, <1>6 DEF Marks

(* What a smaller set of marks, or one of one more, costs.                  *)
LEMMA MarkCount ==
    ASSUME NEW S, IsFiniteSet(S), NEW T, NEW n, T \subseteq S \cup {n}
    PROVE  /\ Cardinality(S) \in Nat /\ Cardinality(T) \in Nat
           /\ Cardinality(T) <= Cardinality(S) + 1
           /\ T \subseteq S => Cardinality(T) <= Cardinality(S)
<1>1. IsFiniteSet(S \cup {n}) /\ Cardinality(S \cup {n}) <= Cardinality(S) + 1
    <2>1. /\ IsFiniteSet(S \cup {n})
          /\ Cardinality(S \cup {n}) =
                IF n \in S THEN Cardinality(S) ELSE Cardinality(S) + 1
        BY FS_AddElement
    <2>2. Cardinality(S) \in Nat
        BY FS_CardinalityType
    <2> QED
        BY <2>1, <2>2
<1>2. IsFiniteSet(T) /\ Cardinality(T) <= Cardinality(S \cup {n})
    BY <1>1, FS_Subset
<1>3. /\ Cardinality(S) \in Nat /\ Cardinality(T) \in Nat
      /\ Cardinality(S \cup {n}) \in Nat
    BY <1>1, <1>2, FS_CardinalityType
<1>4. T \subseteq S => Cardinality(T) <= Cardinality(S)
    BY FS_Subset
<1> QED
    BY <1>1, <1>2, <1>3, <1>4

(* What a step costs a FileInfo, it has paid for with a fault.              *)
LEMMA CostKept ==
    ASSUME Undisturbed, BaseInv, NEW n \in Node, CalmStep(n), NEW f \in File, NEW info \in Info
    PROVE  /\ faults \in Nat /\ (faults' = faults \/ faults' = faults + 1)
           /\ Cost(f, info) \in Nat /\ Cost(f, info)' \in Nat
           /\ Cost(f, info)' + faults <= Cost(f, info) + faults'
           /\ Contains(n, info.peers) => Cost(f, info)' <= Cost(f, info)
           /\ Marks(f)' \subseteq Marks(f) => Cost(f, info)' <= Cost(f, info)
<1> DEFINE U == Unlisted(f, info)
           V == Unlisted(f, info)'
<1>1. IsFiniteSet(U) /\ info.retry \in Nat
    <2>1. U \in SUBSET Node
        BY DEF Unlisted, Marks
    <2> QED
        BY <2>1, FS_Subset, RetryType DEF Undisturbed
<1>2. /\ faults' = faults => V \subseteq U
      /\ V \subseteq U \cup {n}
      /\ Contains(n, info.peers) => V \subseteq U
      /\ Marks(f)' \subseteq Marks(f) => V \subseteq U
    BY NewMarks DEF Unlisted, Contains
<1>3. Cost(f, info) = info.retry + Cardinality(U) /\ Cost(f, info)' = info.retry + Cardinality(V)
    BY DEF Cost
<1> HIDE DEF U, V
<1>4. faults \in Nat /\ (faults' = faults \/ faults' = faults + 1)
    BY NewMarks
<1>5. /\ Cardinality(U) \in Nat /\ Cardinality(V) \in Nat
      /\ Cardinality(V) <= Cardinality(U) + 1
      /\ V \subseteq U => Cardinality(V) <= Cardinality(U)
    BY <1>1, <1>2, MarkCount
<1> QED
    BY <1>1, <1>2, <1>3, <1>4, <1>5

LEMMA IsStep == ASSUME NEW n \in Node, CalmStep(n) PROVE [Next]_vars
    BY DEF CalmStep, Next, GetStep

(* What is said of a FileInfo stays true of it, wherever it is.             *)
LEMMA Steady ==
    ASSUME Undisturbed, BaseInv, BaseInv', NEW n \in Node, CalmStep(n), NEW f \in File
    PROVE  /\ \A p \in Node : Chance(p, f, 0) => Chance(p, f, 0)'
           /\ \A info \in Info, m \in Node :
                 /\ Own(m, f, info) => Own(m, f, info)'
                 /\ Received(m, f, info) => Received(m, f, info)'
                 /\ Loaded(m, f, info) => Loaded(m, f, info)'
<1>1. crashes = <<>> /\ \A p \in Node : alive[p]
    BY AllUp
<1>2. \A p \in Node : alive'[p]
    <2>1. crashes' = <<>>
        BY DEF Undisturbed, BaseInv, TypeOK
    <2> QED
        BY <2>1 DEF BaseInv, DeadInv, Contains
<1>3. ASSUME NEW p \in Node, Chance(p, f, 0) PROVE Chance(p, f, 0)'
    <2>1. alive[p] /\ alive'[p] /\ OnlyCrashed(p)
        BY <1>1, <1>2 DEF OnlyCrashed
    <2> QED
        BY <1>3, <2>1, IsStep, ChanceKept DEF BaseInv
<1>4. ASSUME NEW info \in Info, Good(f, info) PROVE Good(f, info)'
    BY <1>3, <1>4 DEF Good, Contains
<1>5. ASSUME NEW info \in Info
      PROVE  /\ Cost(f, info) <= faults => Cost(f, info)' <= faults'
             /\ Cost(f, info) <= faults + 1 => Cost(f, info)' <= faults' + 1
    BY CostKept
<1>6. \A info \in Info, m \in Node : Contains(m, info.peers) <=> Contains(m, info.peers)'
    BY DEF Contains
<1> QED
    BY <1>3, <1>4, <1>5, <1>6 DEF Own, Received, Loaded

(* A node that is listed, be it one that failed, has the file or a chance.  *)
LEMMA Listed ==
    ASSUME Undisturbed, NEW f \in File, NEW info \in Info, Good(f, info),
           NEW p \in Node, Chance(p, f, 0)
    PROVE  /\ AddPeer(info, p) \in Info /\ Good(f, AddPeer(info, p))
           /\ Contains(p, AddPeer(info, p).peers)
           /\ \A m \in Node : Contains(m, info.peers) => Contains(m, AddPeer(info, p).peers)
           /\ Cost(f, AddPeer(info, p)) \in Nat /\ Cost(f, info) \in Nat
           /\ Cost(f, AddPeer(info, p)) <= Cost(f, info)
           /\ p \in Marks(f) /\ ~ Contains(p, info.peers) =>
                 Cost(f, AddPeer(info, p)) + 1 <= Cost(f, info)
<1> DEFINE more == AddPeer(info, p)
           U == Unlisted(f, info)
           V == Unlisted(f, more)
<1>1. /\ info.peers \in Seq(Node) /\ more \in Info
      /\ more.peers = Append(info.peers, p) /\ more.retry = info.retry /\ info.retry \in Nat
    <2>1. more \in Info
        BY InfoType
    <2> QED
        BY <2>1 DEF AddPeer, Info
<1>2. \A m \in Node : Contains(m, more.peers) <=> Contains(m, info.peers) \/ m = p
    <2>1. \A i \in 1..Len(info.peers) : i \in 1..Len(more.peers) /\ more.peers[i] = info.peers[i]
        BY <1>1
    <2>2. Len(more.peers) \in 1..Len(more.peers) /\ more.peers[Len(more.peers)] = p
        BY <1>1
    <2>3. \A i \in 1..Len(more.peers) :
              (i \in 1..Len(info.peers) /\ more.peers[i] = info.peers[i]) \/ more.peers[i] = p
        BY <1>1
    <2> QED
        BY <2>1, <2>2, <2>3 DEF Contains
<1>3. V = U \ {p} /\ (p \in Marks(f) /\ ~ Contains(p, info.peers) => p \in U)
    BY <1>2 DEF Unlisted, Marks
<1>4. IsFiniteSet(U)
    <2>1. U \in SUBSET Node
        BY DEF Unlisted, Marks
    <2> QED
        BY <2>1, FS_Subset DEF Undisturbed
<1>5. /\ Cost(f, more) = info.retry + Cardinality(V)
      /\ Cost(f, info) = info.retry + Cardinality(U)
    BY <1>1 DEF Cost
<1>6. Good(f, more)
    BY <1>2 DEF Good
<1> HIDE DEF more, U, V
<1>7. /\ IsFiniteSet(V)
      /\ Cardinality(V) = IF p \in U THEN Cardinality(U) - 1 ELSE Cardinality(U)
    BY <1>3, <1>4, FS_RemoveElement
<1>8. Cardinality(U) \in Nat /\ Cardinality(V) \in Nat
    BY <1>4, <1>7, FS_CardinalityType
<1>9. /\ Cost(f, more) \in Nat /\ Cost(f, info) \in Nat
      /\ Cost(f, more) <= Cost(f, info)
      /\ p \in U => Cost(f, more) + 1 <= Cost(f, info)
    BY <1>1, <1>5, <1>7, <1>8
<1> QED
    BY <1>1, <1>2, <1>3, <1>6, <1>9 DEF more

(* A retry counts one more.                                                 *)
LEMMA RetriedCost ==
    ASSUME Undisturbed, NEW f \in File, NEW info \in Info
    PROVE  /\ Cost(f, info) \in Nat /\ Cost(f, Retried(info)) = Cost(f, info) + 1
           /\ Good(f, info) => Good(f, Retried(info))
           /\ \A m \in Node : Contains(m, Retried(info).peers) <=> Contains(m, info.peers)
<1>1. /\ Retried(info).peers = info.peers /\ Retried(info).retry = info.retry + 1
      /\ info.retry \in Nat
    BY DEF Retried, Info
<1>2. Unlisted(f, Retried(info)) = Unlisted(f, info)
    BY <1>1 DEF Unlisted
<1>3. Cardinality(Unlisted(f, info)) \in Nat
    <2>1. Unlisted(f, info) \in SUBSET Node
        BY DEF Unlisted, Marks
    <2> QED
        BY <2>1, FS_Subset, FS_CardinalityType DEF Undisturbed
<1> QED
    BY <1>1, <1>2, <1>3 DEF Cost, Good

(* What a goroutine of postFileToPeer lists, and queues again, is its own.  *)
LEMMA PostLists ==
    ASSUME Undisturbed, BaseInv, TallyInv, NEW n \in Node, NEW t \in Poster
    PROVE  LET job == post[n][t] IN
           /\ job.pc # "off" => Own(n, job.file, job.info)
           /\ \A p \in Node :
                 \/ PostFound(n, t, p)
                 \/ PostOk(n, t) /\ p = job.to
                 => Own(n, job.file, AddPeer(job.info, p))
           /\ PostFailed(n, t) /\ job.result = "error" => Own(n, job.file, Retried(job.info))
<1> DEFINE job == post[n][t]
<1>1. /\ job.file \in File /\ job.info \in Info /\ job.to \in Node
      /\ Posted(n, t, job) /\ faults \in Nat
    BY PostType DEF BaseInv, TallyInv, PostTally, TypeOK
<1>2. job.pc # "off" => Own(n, job.file, job.info)
    BY <1>1 DEF Posted
<1>3. ASSUME NEW p \in Node, PostFound(n, t, p) \/ (PostOk(n, t) /\ p = job.to)
      PROVE  Own(n, job.file, AddPeer(job.info, p))
    <2>1. job.pc # "off"
        BY <1>3 DEF PostFound, PostOk
    <2>2. Chance(p, job.file, 0)
        BY <1>1, <1>3 DEF PostFound, PostOk, Answers, Accepted, Posted, Chance
    <2> HIDE DEF job
    <2> QED
        BY <1>1, <1>2, <2>1, <2>2, Listed DEF Own
<1>4. ASSUME PostFailed(n, t), job.result = "error"
      PROVE  Own(n, job.file, Retried(job.info))
    <2>1. job.pc = "reply"
        BY <1>4 DEF PostFailed
    <2>2. Cost(job.file, job.info) + 1 <= faults /\ Own(n, job.file, job.info)
        BY <1>1, <1>4, <2>1 DEF Posted
    <2> HIDE DEF job
    <2> QED
        BY <1>1, <2>2, RetriedCost DEF Own
<1> QED
    BY <1>2, <1>3, <1>4

(* ldb has what a node listed itself in, or downloaded.                     *)
LEMMA StepIndexTally ==
    ASSUME Undisturbed, BaseInv, BaseInv', TallyInv, NEW n \in Node, CalmStep(n)
    PROVE  IndexTally'
<1>1. IndexTally /\ index \in [Node -> [File -> Info \cup {NoInfo}]]
    BY DEF TallyInv, BaseInv, TypeOK
<1>2. ASSUME NEW m \in Node, NEW f \in File, NEW info \in Info \cup {NoInfo},
             info # NoInfo => Own(m, f, info) \/ Loaded(m, f, info),
             index' = [index EXCEPT ![m][f] = info]
      PROVE  IndexTally'
    <2> SUFFICES ASSUME NEW k \in Node, NEW g \in File, index'[k][g] # NoInfo
                 PROVE  Own(k, g, index[k][g])' \/ Loaded(k, g, index[k][g])'
        BY DEF IndexTally
    <2>1. PICK entry \in Info : entry = index'[k][g]
        BY <1>1, <1>2
    <2>2. Own(k, g, entry) \/ Loaded(k, g, entry)
        <3>1. CASE k = m /\ g = f
            BY <1>1, <1>2, <2>1, <3>1
        <3>2. CASE ~ (k = m /\ g = f)
            <4>1. entry = index[k][g]
                BY <1>1, <1>2, <2>1, <3>2
            <4> QED
                BY <1>1, <2>1, <4>1 DEF IndexTally
        <3> QED
            BY <3>1, <3>2
    <2>3. Own(k, g, entry)' \/ Loaded(k, g, entry)'
        BY <2>2, Steady
    <2> QED
        BY <2>1, <2>3 DEF Own, Loaded, Good, Cost, Unlisted, Contains
<1>3. CASE index' = index
    <2> SUFFICES ASSUME NEW k \in Node, NEW g \in File, index'[k][g] # NoInfo
                 PROVE  Own(k, g, index[k][g])' \/ Loaded(k, g, index[k][g])'
        BY DEF IndexTally
    <2>1. PICK entry \in Info : entry = index[k][g]
        BY <1>1, <1>3
    <2>2. Own(k, g, entry)' \/ Loaded(k, g, entry)'
        BY <1>1, <1>3, <2>1, Steady DEF IndexTally
    <2> QED
        BY <1>3, <2>1, <2>2 DEF Own, Loaded, Good, Cost, Unlisted, Contains
<1>4. ASSUME NEW t \in Poster, PostStep(n, t) PROVE IndexTally'
    <2> DEFINE job == post[n][t]
    <2>1. job.file \in File /\ job.info \in Info /\ job.to \in Node
        BY PostType DEF BaseInv
    <2>2. ASSUME NEW p \in Node, PostFound(n, t, p) \/ (PostOk(n, t) /\ p = job.to)
          PROVE  IndexTally'
        <3>1. Own(n, job.file, AddPeer(job.info, p)) /\ AddPeer(job.info, p) \in Info
            BY <2>1, <2>2, PostLists, InfoType
        <3>2. index' = [index EXCEPT ![n][job.file] = AddPeer(job.info, p)]
            BY <2>2 DEF PostFound, PostOk, SaveInfo
        <3> HIDE DEF job
        <3> QED
            BY <1>2, <2>1, <3>1, <3>2
    <2>3. ASSUME NEW p \in Node, PostAbsent(n, t, p) PROVE IndexTally'
        <3>1. index' = index \/ index' = [index EXCEPT ![p][job.file] = NoInfo]
            BY <2>3 DEF PostAbsent, SaveInfo
        <3> HIDE DEF job
        <3> QED
            BY <1>2, <1>3, <2>1, <3>1
    <2>4. CASE \/ PostTake(n, t) \/ PostDelivered(n, t) \/ PostLost(n, t) \/ PostFailed(n, t)
               \/ \E p \in Node : PostSkip(n, t, p)
        BY <1>3, <2>4 DEF PostTake, PostDelivered, PostLost, PostFailed, PostSkip, stable
    <2> QED
        BY <1>4, <2>1, <2>2, <2>3, <2>4 DEF PostStep
<1>5. CASE ConsumeLog(n)
    <2> DEFINE entry == Head(fileLog[n])
               f     == entry.file
               saved == IF entry.kind = "upload" THEN post[n][f].info ELSE entry.info
    <2>1. /\ fileLog[n] \in Seq(LogEntry) /\ fileLog[n] # <<>> /\ entry \in LogEntry
          /\ 1 \in 1..Len(fileLog[n]) /\ entry = fileLog[n][1]
        BY <1>5, HeadTail DEF ConsumeLog, BaseInv, TypeOK
    <2>2. f \in File /\ f \in Poster /\ saved \in Info
        BY <2>1, PostType DEF LogEntry, Poster, BaseInv
    <2>3. CASE entry.kind = "upload"
        <3>1. UploadIn(fileLog[n], f)
            BY <2>1, <2>3 DEF UploadIn
        <3>2. Own(n, f, saved)
            BY <2>2, <2>3, <3>1 DEF TallyInv, PostTally, Posted
        <3>3. index' = index \/ index' = [index EXCEPT ![n][f] = saved]
            BY <1>5, <2>3 DEF ConsumeLog, SaveLogged, SaveInfo
        <3> HIDE DEF f, saved
        <3> QED
            BY <1>2, <1>3, <2>2, <3>2, <3>3
    <2>4. CASE entry.kind = "files"
        <3>1. entry \in ToSave[n]
            BY <2>1 DEF TallyInv, QueueTally, Carries
        <3>2. Loaded(n, f, saved)
            BY <2>4, <3>1 DEF ToSave
        <3>3. index' = index \/ index' = [index EXCEPT ![n][f] = saved]
            BY <1>5, <2>4 DEF ConsumeLog, SaveLogged, SaveInfo
        <3> HIDE DEF f, saved
        <3> QED
            BY <1>2, <1>3, <2>2, <3>2, <3>3
    <2>5. CASE entry.kind \notin {"upload", "files"}
        BY <1>3, <1>5, <2>5 DEF ConsumeLog, SavedInLdb
    <2> QED
        BY <2>3, <2>4, <2>5
<1>6. CASE \/ \E f \in File : Upload(n, f) \/ ResendError(n, f)
           \/ \E d \in Getter : GetTake(n, d) \/ GetLock(n, d) \/ GetAnswered(n, d)
                                             \/ GetFailed(n, d)
    BY <1>3, <1>6 DEF Upload, ResendError, GetTake, GetLock, GetAnswered, GetFailed, stable
<1> QED
    BY <1>4, <1>5, <1>6 DEF CalmStep

(* A channel after a send or a receive: A is what its entries were, B what  *)
(* they have become.                                                        *)
Within(A, B, S) == \A m \in Node : A[m] \cap S \subseteq B[m]

LEMMA CarriesOn ==
    ASSUME NEW S, NEW Q \in [Node -> Seq(S)], NEW A, NEW B, Carries(Q, A),
           Within(A, B, S)
    PROVE  /\ Carries(Q, B)
           /\ \A n \in Node : \A e \in S :
                 e \in B[n] => Carries([Q EXCEPT ![n] = Append(@, e)], B)
           /\ \A n \in Node : Q[n] # <<>> => /\ Carries([Q EXCEPT ![n] = Tail(@)], B)
                                             /\ Head(Q[n]) \in A[n]
<1>1. \A m \in Node : Q[m] \in Seq(S) /\ \A i \in 1..Len(Q[m]) : Q[m][i] \in A[m] \cap S
    BY DEF Carries
<1>2. Carries(Q, B)
    BY <1>1 DEF Carries, Within
<1>3. ASSUME NEW n \in Node, NEW q, \A i \in 1..Len(q) : q[i] \in B[n]
      PROVE  Carries([Q EXCEPT ![n] = q], B)
    BY <1>2, <1>3 DEF Carries
<1>4. ASSUME NEW n \in Node, NEW e \in S, e \in B[n]
      PROVE  Carries([Q EXCEPT ![n] = Append(@, e)], B)
    <2> DEFINE q == Append(Q[n], e)
    <2>1. \A i \in 1..Len(q) : q[i] = e \/ (i \in 1..Len(Q[n]) /\ q[i] = Q[n][i])
        BY <1>1
    <2>2. [Q EXCEPT ![n] = Append(@, e)] = [Q EXCEPT ![n] = q]
        OBVIOUS
    <2> HIDE DEF q
    <2>3. \A i \in 1..Len(q) : q[i] \in B[n]
        BY <1>2, <1>4, <2>1 DEF Carries
    <2> QED
        BY <1>3, <2>2, <2>3
<1>5. ASSUME NEW n \in Node, Q[n] # <<>>
      PROVE  Carries([Q EXCEPT ![n] = Tail(@)], B) /\ Head(Q[n]) \in A[n]
    <2> DEFINE q == Tail(Q[n])
    <2>1. \A i \in 1..Len(q) : i + 1 \in 1..Len(Q[n]) /\ q[i] = Q[n][i + 1]
        BY <1>1, <1>5, TailEntry
    <2>2. [Q EXCEPT ![n] = Tail(@)] = [Q EXCEPT ![n] = q]
        OBVIOUS
    <2>3. 1 \in 1..Len(Q[n]) /\ Head(Q[n]) = Q[n][1]
        BY <1>1, <1>5
    <2>5. Head(Q[n]) \in A[n]
        BY <1>1, <2>3
    <2> HIDE DEF q
    <2>4. \A i \in 1..Len(q) : q[i] \in B[n]
        BY <1>2, <2>1 DEF Carries
    <2> QED
        BY <1>3, <2>2, <2>4, <2>5
<1> QED
    BY <1>2, <1>4, <1>5

(* What waits in a channel.                                                 *)
LEMMA StepQueueTally ==
    ASSUME Undisturbed, BaseInv, BaseInv', TallyInv, NEW n \in Node, CalmStep(n)
    PROVE  QueueTally'
<1>1. /\ toPeers \in [Node -> Seq(JobEntry)] /\ fromPeers \in [Node -> Seq(JobEntry)]
      /\ fileLog \in [Node -> Seq(LogEntry)]
    BY DEF BaseInv, TypeOK
<1>2. Carries(toPeers, ToPost) /\ Carries(fromPeers, ToFetch) /\ Carries(fileLog, ToSave)
    BY DEF TallyInv, QueueTally
<1>3. \A m \in Node : /\ ToPost[m] \subseteq ToPost'[m]
                      /\ ToFetch[m] \subseteq ToFetch'[m]
                      /\ ToSave[m] \subseteq ToSave'[m]
    BY Steady DEF ToPost, ToFetch, ToSave, JobEntry, LogEntry
<1>4. ASSUME NEW m \in Node, NEW f \in File, NEW info \in Info
      PROVE  /\ Own(m, f, info) => Job(f, info) \in ToPost[m]
             /\ Own(m, f, info)' => Job(f, info) \in ToPost'[m]
             /\ Received(m, f, info)' => Job(f, info) \in ToFetch'[m]
    <2>1. Job(f, info) \in JobEntry /\ Job(f, info).file = f /\ Job(f, info).info = info
        BY EntryType DEF Job
    <2> QED
        BY <2>1 DEF ToPost, ToFetch
<1>5. /\ Carries(toPeers, ToPost') /\ Carries(fromPeers, ToFetch') /\ Carries(fileLog, ToSave')
      /\ \A m \in Node : \A job \in JobEntry :
            /\ job \in ToPost'[m] => Carries([toPeers EXCEPT ![m] = Append(@, job)], ToPost')
            /\ job \in ToFetch'[m] => Carries([fromPeers EXCEPT ![m] = Append(@, job)], ToFetch')
      /\ \A m \in Node : \A entry \in LogEntry :
            entry \in ToSave'[m] => Carries([fileLog EXCEPT ![m] = Append(@, entry)], ToSave')
      /\ toPeers[n] # <<>> => Carries([toPeers EXCEPT ![n] = Tail(@)], ToPost')
      /\ fromPeers[n] # <<>> => Carries([fromPeers EXCEPT ![n] = Tail(@)], ToFetch')
      /\ fileLog[n] # <<>> => Carries([fileLog EXCEPT ![n] = Tail(@)], ToSave')
    <2>1. /\ Within(ToPost, ToPost', JobEntry)
          /\ Within(ToFetch, ToFetch', JobEntry)
          /\ Within(ToSave, ToSave', LogEntry)
        BY <1>3 DEF Within
    <2>2. /\ Carries(toPeers, ToPost')
          /\ \A m \in Node : \A job \in JobEntry :
                job \in ToPost'[m] => Carries([toPeers EXCEPT ![m] = Append(@, job)], ToPost')
          /\ toPeers[n] # <<>> => Carries([toPeers EXCEPT ![n] = Tail(@)], ToPost')
        BY <1>1, <1>2, <2>1, CarriesOn
    <2>3. /\ Carries(fromPeers, ToFetch')
          /\ \A m \in Node : \A job \in JobEntry :
                job \in ToFetch'[m] => Carries([fromPeers EXCEPT ![m] = Append(@, job)], ToFetch')
          /\ fromPeers[n] # <<>> => Carries([fromPeers EXCEPT ![n] = Tail(@)], ToFetch')
        BY <1>1, <1>2, <2>1, CarriesOn
    <2>4. /\ Carries(fileLog, ToSave')
          /\ \A m \in Node : \A entry \in LogEntry :
                entry \in ToSave'[m] => Carries([fileLog EXCEPT ![m] = Append(@, entry)], ToSave')
          /\ fileLog[n] # <<>> => Carries([fileLog EXCEPT ![n] = Tail(@)], ToSave')
        BY <1>1, <1>2, <2>1, CarriesOn
    <2> QED
        BY <2>2, <2>3, <2>4
<1>6. Carries(toPeers', ToPost')
    <2>1. ASSUME NEW t \in Poster, PostFailed(n, t) PROVE Carries(toPeers', ToPost')
        <3> DEFINE job == post[n][t]
        <3>1. job.file \in File /\ job.info \in Info
            BY PostType DEF BaseInv
        <3>2. CASE toPeers' = toPeers
            BY <1>5, <3>2
        <3>3. CASE toPeers' # toPeers
            <4>1. /\ job.result = "error" /\ MayRepost(job.info)
                  /\ toPeers' = [toPeers EXCEPT ![n] = Append(@, Job(job.file, Retried(job.info)))]
                BY <2>1, <3>3 DEF PostFailed
            <4>2. Own(n, job.file, Retried(job.info)) /\ Retried(job.info) \in Info
                BY <2>1, <3>1, <4>1, PostLists, InfoType
            <4> HIDE DEF job
            <4>3. Job(job.file, Retried(job.info)) \in ToPost[n]
                BY <1>4, <3>1, <4>2
            <4> QED
                BY <1>3, <1>5, <3>1, <4>1, <4>2, <4>3, EntryType
        <3> QED
            BY <3>2, <3>3
    <2>2. ASSUME NEW f \in File, ResendError(n, f) PROVE Carries(toPeers', ToPost')
        <3> DEFINE info == index[n][f]
                   sent == IF Contains(n, info.peers) THEN info ELSE AddPeer(info, n)
        <3>1. /\ info # NoInfo /\ f \in errorsMd5[n]
              /\ toPeers' = [toPeers EXCEPT ![n] = Append(@, Job(f, sent))]
            BY <2>2 DEF ResendError
        <3>2. info \in Info /\ f \in disk[n] /\ faults \in Nat
            BY <3>1 DEF BaseInv, TypeOK, StoredInv, IndexedIsStored
        <3>3. Own(n, f, info) \/ Loaded(n, f, info)
            BY <3>1 DEF TallyInv, IndexTally
        <3>4. Chance(n, f, 0) /\ n \in Marks(f)
            BY <3>1, <3>2 DEF Chance, Marks, Marked
        <3> HIDE DEF info
        <3>5. Own(n, f, sent) /\ sent \in Info
            <4>1. CASE Contains(n, info.peers)
                BY <3>2, <3>3, <4>1 DEF Own, Loaded
            <4>2. CASE ~ Contains(n, info.peers)
                <5>1. Good(f, info) /\ Cost(f, info) <= faults + 1
                    BY <3>3, <4>2 DEF Own, Loaded
                <5>2. /\ AddPeer(info, n) \in Info /\ Good(f, AddPeer(info, n))
                      /\ Contains(n, AddPeer(info, n).peers)
                      /\ Cost(f, AddPeer(info, n)) \in Nat /\ Cost(f, info) \in Nat
                      /\ Cost(f, AddPeer(info, n)) + 1 <= Cost(f, info)
                    BY <3>2, <3>4, <4>2, <5>1, Listed
                <5> QED
                    BY <3>2, <4>2, <5>1, <5>2 DEF Own
            <4> QED
                BY <4>1, <4>2
        <3> HIDE DEF sent
        <3>6. Job(f, sent) \in ToPost[n]
            BY <1>4, <3>5
        <3> QED
            BY <1>3, <1>5, <3>1, <3>5, <3>6, EntryType
    <2>3. ASSUME NEW t \in Poster, PostTake(n, t) PROVE Carries(toPeers', ToPost')
        BY <1>5, <2>3 DEF PostTake
    <2>4. ASSUME NEW f \in File, Upload(n, f) PROVE toPeers' = toPeers
        BY <2>4 DEF Upload
    <2>5. ASSUME NEW t \in Poster,
                 \/ PostDelivered(n, t) \/ PostLost(n, t) \/ PostOk(n, t)
                 \/ \E p \in Node : PostSkip(n, t, p) \/ PostFound(n, t, p) \/ PostAbsent(n, t, p)
          PROVE  toPeers' = toPeers
        BY <2>5 DEF PostDelivered, PostLost, PostOk, PostSkip, PostFound, PostAbsent, chans
    <2>6. ASSUME \/ \E d \in Getter : \/ GetTake(n, d) \/ GetLock(n, d) \/ GetAnswered(n, d)
                                      \/ GetFailed(n, d)
                 \/ ConsumeLog(n)
          PROVE  toPeers' = toPeers
        BY <2>6 DEF GetTake, GetLock, GetAnswered, GetFailed, ConsumeLog, chans
    <2> QED
        BY <1>5, <2>1, <2>2, <2>3, <2>4, <2>5, <2>6 DEF CalmStep, PostStep
<1>7. Carries(fromPeers', ToFetch')
    <2>1. ASSUME NEW t \in Poster, PostDelivered(n, t) PROVE Carries(fromPeers', ToFetch')
        <3> DEFINE job == post[n][t]
        <3>1. /\ job.file \in File /\ job.info \in Info /\ job.to \in Node
              /\ Posted(n, t, job)
            BY PostType DEF BaseInv, TallyInv, PostTally
        <3>2. /\ job.pc = "send"
              /\ fromPeers' = [fromPeers EXCEPT ![job.to] = Append(@, Job(job.file, job.info))]
            BY <2>1 DEF PostDelivered
        <3>3. Received(job.to, job.file, job.info)
            BY <3>1, <3>2 DEF Posted, Own, Received
        <3> HIDE DEF job
        <3>4. Received(job.to, job.file, job.info) => Job(job.file, job.info) \in ToFetch[job.to]
            BY <3>1, EntryType DEF ToFetch, Job
        <3> QED
            BY <1>3, <1>5, <3>1, <3>2, <3>3, <3>4, EntryType
    <2>2. ASSUME NEW d \in Getter, GetFailed(n, d) PROVE Carries(fromPeers', ToFetch')
        <3> DEFINE job == get[n][d]
        <3>1. job.file \in File /\ job.info \in Info
            BY GetType DEF BaseInv
        <3>2. /\ job.pc = "get"
              /\ fromPeers' = [fromPeers EXCEPT ![n] = Append(@, Job(job.file, job.info))]
              /\ UNCHANGED <<post, fileLog, errorsMd5>>
            BY <2>2 DEF GetFailed, QueuedAgain, stable
        <3>3. faults' = faults + 1 /\ faults \in Nat
            <4>1. get[n][d].src \in Node
                BY GetType DEF BaseInv
            <4>2. alive[get[n][d].src]
                BY <4>1, AllUp
            <4>3. faults \in Nat
                BY DEF BaseInv, TypeOK
            <4> QED
                BY <2>2, <4>2, <4>3 DEF GetFailed, Fault
        <3>4. Loaded(n, job.file, job.info)
            BY <3>2 DEF TallyInv, GetTally
        <3> HIDE DEF job
        <3>5. PICK f \in File, info \in Info : f = job.file /\ info = job.info
            BY <3>1
        <3>6. Loaded(n, f, info)'
            BY <3>4, <3>5, Steady
        <3>7. Marks(f)' = Marks(f)
            BY <3>2 DEF Marks, Marked, ErrorIn, Failing
        <3>8. /\ Cost(f, info)' <= Cost(f, info) /\ Cost(f, info) <= faults + 1
              /\ Cost(f, info)' \in Nat /\ Cost(f, info) \in Nat
            BY <3>4, <3>5, <3>7, CostKept DEF Loaded
        <3>9. Received(n, f, info)'
            BY <3>3, <3>6, <3>8 DEF Loaded, Received
        <3> QED
            BY <1>4, <1>5, <3>2, <3>5, <3>9, EntryType
    <2>3. ASSUME NEW d \in Getter, GetTake(n, d) PROVE Carries(fromPeers', ToFetch')
        BY <1>5, <2>3 DEF GetTake
    <2>4. ASSUME NEW f \in File, Upload(n, f) \/ ResendError(n, f) PROVE fromPeers' = fromPeers
        BY <2>4 DEF Upload, ResendError
    <2>5. ASSUME NEW t \in Poster,
                 \/ PostTake(n, t) \/ PostLost(n, t) \/ PostOk(n, t) \/ PostFailed(n, t)
                 \/ \E p \in Node : PostSkip(n, t, p) \/ PostFound(n, t, p) \/ PostAbsent(n, t, p)
          PROVE  fromPeers' = fromPeers
        BY <2>5 DEF PostTake, PostLost, PostOk, PostFailed, PostSkip, PostFound, PostAbsent, chans
    <2>6. ASSUME \/ \E d \in Getter : GetLock(n, d) \/ GetAnswered(n, d)
                 \/ ConsumeLog(n)
          PROVE  fromPeers' = fromPeers
        BY <2>6 DEF GetLock, GetAnswered, ConsumeLog, chans
    <2> QED
        BY <1>5, <2>1, <2>2, <2>3, <2>4, <2>5, <2>6 DEF CalmStep, PostStep
<1>8. Carries(fileLog', ToSave')
    <2>1. ASSUME NEW d \in Getter, GetAnswered(n, d) PROVE Carries(fileLog', ToSave')
        <3> DEFINE job   == get[n][d]
                   entry == Log("files", job.file, job.info)
        <3>1. entry \in LogEntry
            BY EntryType, GetType DEF BaseInv
        <3>2. Loaded(n, job.file, job.info)
            BY <2>1 DEF GetAnswered, TallyInv, GetTally
        <3>3. entry \in ToSave[n]
            BY <3>1, <3>2 DEF ToSave, Log
        <3>4. fileLog' = fileLog \/ fileLog' = [fileLog EXCEPT ![n] = Append(@, entry)]
            BY <2>1 DEF GetAnswered, LogAppend
        <3> HIDE DEF entry
        <3> QED
            BY <1>3, <1>5, <3>1, <3>3, <3>4
    <2>2. ASSUME NEW m \in Node, NEW entry \in LogEntry, entry.kind # "files",
                 LogAppend(m, entry)
          PROVE  Carries(fileLog', ToSave')
        BY <1>5, <2>2 DEF LogAppend, ToSave
    <2>3. ASSUME NEW f \in File, Upload(n, f) PROVE Carries(fileLog', ToSave')
        <3>1. Log("upload", f, Fresh(n)) \in LogEntry /\ Log("upload", f, Fresh(n)).kind # "files"
            BY EntryType, InfoType DEF Log
        <3> QED
            BY <2>2, <2>3, <3>1 DEF Upload
    <2>4. ASSUME NEW t \in Poster, PostDelivered(n, t) \/ PostFailed(n, t)
          PROVE  Carries(fileLog', ToSave')
        <3> DEFINE job == post[n][t]
        <3>1. job.file \in File /\ job.info \in Info /\ job.to \in Node
            BY PostType DEF BaseInv
        <3>2. /\ Log("queue", job.file, job.info) \in LogEntry
              /\ Log("errors", job.file, Fresh(n)) \in LogEntry
              /\ Log("queue", job.file, job.info).kind # "files"
              /\ Log("errors", job.file, Fresh(n)).kind # "files"
            BY <3>1, EntryType, InfoType DEF Log
        <3>3. \/ LogAppend(job.to, Log("queue", job.file, job.info))
              \/ LogAppend(n, Log("errors", job.file, Fresh(n)))
            BY <2>4 DEF PostDelivered, PostFailed
        <3> HIDE DEF job
        <3> QED
            BY <2>2, <3>1, <3>2, <3>3
    <2>5. CASE ConsumeLog(n)
        BY <1>5, <2>5 DEF ConsumeLog
    <2>6. ASSUME NEW t \in Poster,
                 \/ PostTake(n, t) \/ PostLost(n, t) \/ PostOk(n, t)
                 \/ \E p \in Node : PostSkip(n, t, p) \/ PostFound(n, t, p) \/ PostAbsent(n, t, p)
          PROVE  fileLog' = fileLog
        BY <2>6 DEF PostTake, PostLost, PostOk, PostSkip, PostFound, PostAbsent, chans
    <2>7. ASSUME \/ \E f \in File : ResendError(n, f)
                 \/ \E d \in Getter : GetTake(n, d) \/ GetLock(n, d) \/ GetFailed(n, d)
          PROVE  fileLog' = fileLog
        BY <2>7 DEF ResendError, GetTake, GetLock, GetFailed, chans
    <2> QED
        BY <1>5, <2>1, <2>3, <2>4, <2>5, <2>6, <2>7 DEF CalmStep, PostStep
<1> QED
    BY <1>6, <1>7, <1>8 DEF QueueTally, Carries

(* What waits in the log for its upload, was there or is this upload's.     *)
LEMMA UploadsLogged ==
    ASSUME TypeOK, NEW n \in Node, CalmStep(n), NEW m \in Node, NEW u,
           UploadIn(fileLog'[m], u)
    PROVE  UploadIn(fileLog[m], u) \/ (m = n /\ Upload(n, u))
<1>1. fileLog[m] \in Seq(LogEntry) /\ fileLog[n] \in Seq(LogEntry)
      /\ fileLog \in [Node -> Seq(LogEntry)]
    BY DEF TypeOK
<1>2. CASE fileLog' = fileLog
    BY <1>2
<1>3. ASSUME NEW k \in Node, NEW entry \in LogEntry,
             fileLog' = [fileLog EXCEPT ![k] = Append(@, entry)],
             entry.kind = "upload" => k = n /\ Upload(n, entry.file)
      PROVE  UploadIn(fileLog[m], u) \/ (m = n /\ Upload(n, u))
    <2>1. CASE m = k
        <3>1. fileLog'[m] = Append(fileLog[m], entry)
            BY <1>1, <1>3, <2>1
        <3>2. UploadIn(fileLog[m], u) \/ (entry.kind = "upload" /\ entry.file = u)
            BY <1>1, <3>1, LogEntries
        <3> QED
            BY <1>3, <2>1, <3>2
    <2>2. CASE m # k
        BY <1>1, <1>3, <2>2
    <2> QED
        BY <2>1, <2>2
<1>4. CASE fileLog[n] # <<>> /\ fileLog' = [fileLog EXCEPT ![n] = Tail(@)]
    <2>1. fileLog'[m] = fileLog[m] \/ (m = n /\ fileLog'[m] = Tail(fileLog[m]))
        BY <1>1, <1>4
    <2> QED
        BY <1>1, <1>4, <2>1, LogEntries
<1> QED
    BY <1>2, <1>3, <1>4, LogChange

(* The marks of a file are no more than the faults.                         *)
LEMMA StepMarkTally ==
    ASSUME Undisturbed, BaseInv, TallyInv, NEW n \in Node, CalmStep(n)
    PROVE  MarkTally'
<1> SUFFICES ASSUME NEW f \in File PROVE Cardinality(Marks(f)') <= faults'
    BY DEF MarkTally
<1>1. /\ faults \in Nat /\ (faults' = faults \/ faults' = faults + 1)
      /\ faults' = faults => Marks(f)' \subseteq Marks(f)
      /\ Marks(f)' \subseteq Marks(f) \cup {n}
    BY NewMarks
<1>2. Cardinality(Marks(f)) <= faults
    BY DEF TallyInv, MarkTally
<1>3. IsFiniteSet(Marks(f))
    <2>1. Marks(f) \in SUBSET Node
        BY DEF Marks
    <2> QED
        BY <2>1, FS_Subset DEF Undisturbed
<1>4. /\ Cardinality(Marks(f)) \in Nat /\ Cardinality(Marks(f)') \in Nat
      /\ Cardinality(Marks(f)') <= Cardinality(Marks(f)) + 1
      /\ Marks(f)' \subseteq Marks(f) => Cardinality(Marks(f)') <= Cardinality(Marks(f))
    BY <1>1, <1>3, MarkCount
<1> QED
    BY <1>1, <1>2, <1>4

(* What downloads work on.                                                  *)
LEMMA StepGetTally ==
    ASSUME Undisturbed, BaseInv, BaseInv', TallyInv, NEW n \in Node, CalmStep(n)
    PROVE  GetTally'
<1> SUFFICES ASSUME NEW m \in Node, NEW e \in Getter, get'[m][e].pc # "off"
             PROVE  Loaded(m, get[m][e].file, get[m][e].info)'
    BY DEF GetTally
<1>1. get \in [Node -> [Getter -> GetState]]
    BY DEF BaseInv, TypeOK
<1>2. PICK f \in File, info \in Info : f = get'[m][e].file /\ info = get'[m][e].info
    <2>1. get'[m][e] \in GetState
        BY DEF BaseInv, TypeOK
    <2> QED
        BY <2>1 DEF GetState
<1>3. ASSUME Loaded(m, f, info) PROVE Loaded(m, get[m][e].file, get[m][e].info)'
    <2>1. Loaded(m, f, info)'
        BY <1>3, Steady
    <2> QED
        BY <1>2, <2>1 DEF Loaded, Good, Cost, Unlisted, Contains
<1>4. CASE get'[m][e] = get[m][e]
    BY <1>2, <1>3, <1>4 DEF TallyInv, GetTally
<1>5. ASSUME NEW d \in Getter, GetTake(n, d) PROVE Loaded(m, get[m][e].file, get[m][e].info)'
    <2> DEFINE job == Head(fromPeers[n])
    <2>1. fromPeers \in [Node -> Seq(JobEntry)] /\ fromPeers[n] # <<>>
        BY <1>5 DEF GetTake, BaseInv, TypeOK
    <2>2. job \in ToFetch[n]
        <3>1. 1 \in 1..Len(fromPeers[n]) /\ job = fromPeers[n][1]
            BY <2>1
        <3> QED
            BY <3>1 DEF TallyInv, QueueTally, Carries
    <2>3. job.file \in File /\ job.info \in Info /\ Received(n, job.file, job.info)
        BY <2>2 DEF ToFetch, JobEntry
    <2>4. faults \in Nat
        BY DEF BaseInv, TypeOK
    <2>5. Loaded(n, job.file, Retried(job.info))
        BY <2>3, <2>4, RetriedCost DEF Received, Loaded
    <2>6. \/ get' = get
          \/ \E src \in Node : get' = [get EXCEPT ![n][d] =
                [pc |-> "lock", file |-> job.file, src |-> src, info |-> Retried(job.info)]]
        BY <1>5 DEF GetTake
    <2> HIDE DEF job
    <2>7. \/ get'[m][e] = get[m][e]
          \/ m = n /\ get'[m][e].file = job.file /\ get'[m][e].info = Retried(job.info)
        BY <1>1, <2>6
    <2> QED
        BY <1>2, <1>3, <1>4, <2>5, <2>7
<1>6. ASSUME NEW d \in Getter, GetLock(n, d) PROVE Loaded(m, get[m][e].file, get[m][e].info)'
    <2>1. get[n][d].pc = "lock" /\ get' = [get EXCEPT ![n][d] = [@ EXCEPT !.pc = "get"]]
        BY <1>6 DEF GetLock
    <2>2. get[n][d] \in GetState
        BY <1>1
    <2>3. \/ get'[m][e] = get[m][e]
          \/ /\ m = n /\ e = d
             /\ get'[m][e].file = get[n][d].file /\ get'[m][e].info = get[n][d].info
        BY <1>1, <2>1, <2>2 DEF GetState
    <2>4. Loaded(n, get[n][d].file, get[n][d].info)
        BY <2>1 DEF TallyInv, GetTally
    <2> QED
        BY <1>2, <1>3, <1>4, <2>3, <2>4
<1>7. ASSUME NEW d \in Getter, GetAnswered(n, d) \/ GetFailed(n, d)
      PROVE  get'[m][e] = get[m][e]
    <2>1. get' = [get EXCEPT ![n][d] = NewGet(n)]
        BY <1>7 DEF GetAnswered, GetFailed
    <2> QED
        BY <1>1, <2>1 DEF NewGet
<1>8. CASE get' = get
    BY <1>4, <1>8
<1>9. ASSUME \/ \E g \in File : Upload(n, g) \/ ResendError(n, g)
             \/ \E t \in Poster : PostStep(n, t)
             \/ ConsumeLog(n)
      PROVE  get' = get
    BY <1>9, PostLeavesGets DEF Upload, ResendError, ConsumeLog
<1> QED
    BY <1>4, <1>5, <1>6, <1>7, <1>8, <1>9 DEF CalmStep

(* What posts work on.                                                      *)
LEMMA StepPostTally ==
    ASSUME Undisturbed, BaseInv, BaseInv', TallyInv, NEW n \in Node, CalmStep(n), MarkTally'
    PROVE  PostTally'
<1> SUFFICES ASSUME NEW m \in Node, NEW u \in Poster PROVE Posted(m, u, post[m][u])'
    BY DEF PostTally
<1>1. post \in [Node -> [Poster -> PostState]] /\ faults \in Nat
    BY DEF BaseInv, TypeOK
<1>2. PICK next \in PostState : next = post'[m][u]
    BY SMTT(30) DEF BaseInv, TypeOK
<1>3. next.file \in File /\ next.info \in Info /\ next.to \in Node
    BY DEF PostState
<1>4. ASSUME Posted(m, u, next)' PROVE Posted(m, u, post[m][u])'
    BY <1>2, <1>4 DEF Posted, Own, Good, Cost, Unlisted, Contains
<1>5. CASE post'[m][u] = post[m][u] /\ ~ (m = n /\ Upload(n, u))
    <2>1. Posted(m, u, next)
        BY <1>2, <1>5 DEF TallyInv, PostTally
    <2>2. UploadIn(fileLog[m], u)' => UploadIn(fileLog[m], u)
        BY <1>5, UploadsLogged DEF BaseInv, UploadIn
    <2>3. /\ Own(m, next.file, next.info) => Own(m, next.file, next.info)'
          /\ Chance(next.to, next.file, 0) => Chance(next.to, next.file, 0)'
        BY <1>3, Steady
    <2>4. Cost(next.file, next.info) + 1 <= faults => Cost(next.file, next.info)' + 1 <= faults'
        BY <1>3, CostKept
    <2>5. Posted(m, u, next)'
        BY <2>1, <2>2, <2>3, <2>4 DEF Posted, Contains
    <2> QED
        BY <1>4, <2>5
<1>6. ASSUME NEW f \in File, m = n, u = f, Upload(n, f)
      PROVE  Posted(m, u, post[m][u])'
    <2>1. next = NewPost(n, f, Fresh(n), Peers[n])
        BY <1>1, <1>2, <1>6 DEF Upload
    <2>2. /\ next.file = f /\ next.info = Fresh(n) /\ next.pc \in {"off", "peer"}
        BY <2>1 DEF NewPost
    <2>3. f \in disk'[n]
        BY <1>6 DEF Upload, BaseInv, TypeOK
    <2>4. next.info.peers = <<n>> /\ next.info.retry = 0
        BY <2>2 DEF Fresh
    <2>5. \A p : Contains(p, next.info.peers) <=> p = n
        BY <2>4 DEF Contains
    <2>6. Good(f, next.info)'
        BY <2>3, <2>5 DEF Good, Chance, Contains
    <2>7. Cost(f, next.info)' <= faults'
        <3>1. Unlisted(f, next.info)' \subseteq Marks(f)'
            BY DEF Unlisted
        <3>2. IsFiniteSet(Marks(f)')
            <4>1. Marks(f)' \in SUBSET Node
                BY DEF Marks
            <4> QED
                BY <4>1, FS_Subset DEF Undisturbed
        <3>3. Cardinality(Unlisted(f, next.info)') <= Cardinality(Marks(f)')
            BY <3>1, <3>2, FS_Subset
        <3>4. Cardinality(Unlisted(f, next.info)') \in Nat /\ Cardinality(Marks(f)') \in Nat
            BY <3>1, <3>2, FS_Subset, FS_CardinalityType
        <3>5. Cardinality(Marks(f)') <= faults' /\ faults' \in Nat
            BY DEF MarkTally, BaseInv, TypeOK
        <3> QED
            BY <2>4, <3>3, <3>4, <3>5 DEF Cost
    <2>8. Own(n, f, next.info)'
        BY <2>5, <2>6, <2>7 DEF Own, Contains
    <2>9. Posted(m, u, next)'
        BY <1>6, <2>2, <2>8 DEF Posted
    <2> QED
        BY <1>4, <2>9
<1>7. ASSUME NEW t \in Poster, PostStep(n, t), m = n, u = t
      PROVE  Posted(m, u, post[m][u])'
    <2> DEFINE job == post[n][t]
    <2>1. /\ job.file \in File /\ job.info \in Info /\ job.to \in Node /\ job \in PostState
          /\ Posted(n, t, job)
        BY PostType DEF BaseInv, TallyInv, PostTally
    <2>2. ASSUME Own(n, next.file, next.info), next.pc \in {"off", "peer"},
                 t \in File => next.file = t
          PROVE  Posted(m, u, post[m][u])'
        <3>1. Own(n, next.file, next.info)'
            BY <1>3, <2>2, Steady
        <3>2. Posted(m, u, next)'
            BY <1>7, <2>2, <3>1 DEF Posted
        <3> QED
            BY <1>4, <3>2
    <2>3. \A f, info, todo : next = NewPost(n, f, info, todo) =>
              next.file = f /\ next.info = info /\ next.pc \in {"off", "peer"}
        BY DEF NewPost
    <2>4. CASE PostTake(n, t)
        <3> DEFINE taken == Head(toPeers[n])
        <3>1. toPeers[n] \in Seq(JobEntry) /\ toPeers[n] # <<>>
            BY <2>4 DEF PostTake, BaseInv, TypeOK
        <3>2. taken \in ToPost[n]
            <4>1. 1 \in 1..Len(toPeers[n]) /\ taken = toPeers[n][1]
                BY <3>1
            <4> QED
                BY <4>1 DEF TallyInv, QueueTally, Carries
        <3>3. Own(n, taken.file, taken.info)
            BY <3>2 DEF ToPost
        <3>4. next = NewPost(n, taken.file, taken.info, Peers[n]) /\ t \in PostWorker
            BY <1>1, <1>2, <1>7, <2>4 DEF PostTake
        <3> HIDE DEF taken
        <3> QED
            BY <2>2, <2>3, <3>3, <3>4, WorkerAssumption
    <2>5. ASSUME NEW p \in Node, PostSkip(n, t, p) PROVE Posted(m, u, post[m][u])'
        <3>1. job.pc = "peer" /\ next = NewPost(n, job.file, job.info, job.todo \ {p})
            BY <1>1, <1>2, <1>7, <2>5 DEF PostSkip, Advance
        <3> HIDE DEF job
        <3> QED
            BY <2>1, <2>2, <2>3, <3>1 DEF Posted
    <2>6. ASSUME NEW p \in Node, PostFound(n, t, p) \/ (PostOk(n, t) /\ p = job.to)
          PROVE  Posted(m, u, post[m][u])'
        <3>1. next = NewPost(n, job.file, AddPeer(job.info, p), job.todo \ {p})
            <4>1. CASE PostFound(n, t, p)
                BY <1>1, <1>2, <1>7, <4>1 DEF PostFound, Advance
            <4>2. CASE PostOk(n, t) /\ p = job.to
                BY <1>1, <1>2, <1>7, <4>2 DEF PostOk, Advance
            <4> QED
                BY <2>6, <4>1, <4>2
        <3>2. Own(n, job.file, AddPeer(job.info, p))
            BY <2>6, PostLists
        <3> HIDE DEF job
        <3> QED
            BY <2>1, <2>2, <2>3, <3>1, <3>2 DEF Posted
    <2>7. CASE PostFailed(n, t)
        <3>1. /\ job.pc = "reply"
              /\ \/ next = NewPost(n, job.file, job.info, job.todo \ {job.to})
                 \/ /\ next = NewPost(n, job.file, Retried(job.info), job.todo \ {job.to})
                    /\ job.result = "error"
            BY <1>1, <1>2, <1>7, <2>7 DEF PostFailed, Advance
        <3>2. job.result = "error" => Own(n, job.file, Retried(job.info))
            BY <2>7, PostLists
        <3> HIDE DEF job
        <3> QED
            BY <2>1, <2>2, <2>3, <3>1, <3>2 DEF Posted
    <2>8. ASSUME next.file = job.file, next.info = job.info, job.pc # "off"
          PROVE  /\ t \in File => next.file = t
                 /\ Own(n, next.file, next.info)'
        BY <1>3, <2>1, <2>8, Steady DEF Posted
    <2>9. ASSUME NEW p \in Node, PostAbsent(n, t, p) PROVE Posted(m, u, post[m][u])'
        <3>1. /\ job.pc = "peer" /\ ~ Contains(p, job.info.peers)
              /\ next = Sending(job, p)
            BY <1>1, <1>2, <1>7, <2>9 DEF PostAbsent
        <3>2. /\ next.file = job.file /\ next.info = job.info /\ next.pc = "send"
              /\ next.to = p
            BY <2>1, <3>1 DEF Sending, PostState
        <3> HIDE DEF job
        <3>3. Posted(m, u, next)'
            BY <1>7, <2>8, <3>1, <3>2 DEF Posted, Contains
        <3> QED
            BY <1>4, <3>3
    <2>10. CASE PostDelivered(n, t) \/ PostLost(n, t)
        <3>1. /\ job.pc = "send"
              /\ \/ next = Replied(job, "ok") /\ PostDelivered(n, t)
                 \/ next = Replied(job, "error") /\ faults' = faults + 1
                 \/ next = Replied(job, "refused")
            <4>1. alive[job.to]
                BY <2>1, AllUp
            <4>2. next = post'[n][t]
                BY <1>2, <1>7
            <4>3. CASE PostDelivered(n, t)
                BY <1>1, <4>2, <4>3 DEF PostDelivered, Fault
            <4>4. CASE PostLost(n, t)
                BY <1>1, <4>1, <4>2, <4>4 DEF PostLost, Fault
            <4> QED
                BY <2>10, <4>3, <4>4
        <3>2. /\ next.file = job.file /\ next.info = job.info /\ next.to = job.to
              /\ next.pc = "reply"
              /\ \/ next.result = "ok" /\ PostDelivered(n, t)
                 \/ next.result = "error" /\ faults' = faults + 1
                 \/ next.result = "refused"
            BY <2>1, <3>1 DEF Replied, PostState
        <3>3. Own(n, next.file, next.info)
            BY <2>1, <3>1, <3>2 DEF Posted
        <3>4. ASSUME PostDelivered(n, t) PROVE Chance(next.to, next.file, 0)'
            <4>1. fromPeers[job.to] \in Seq(JobEntry)
                  /\ fromPeers'[job.to] = Append(fromPeers[job.to], Job(job.file, job.info))
                BY <2>1, <3>4 DEF PostDelivered, BaseInv, TypeOK
            <4>2. Len(fromPeers'[job.to]) \in 1..Len(fromPeers'[job.to])
                  /\ fromPeers'[job.to][Len(fromPeers'[job.to])] = Job(job.file, job.info)
                <5>1. Job(job.file, job.info) \in JobEntry
                    BY <2>1, EntryType
                <5> HIDE DEF job
                <5> QED
                    BY <4>1, <5>1
            <4>3. next.info.retry <= 0 + faults'
                <5>1. Cost(next.file, next.info)' <= faults'
                    BY <1>3, <3>3, Steady DEF Own
                <5>2. /\ Cost(next.file, next.info)' = next.info.retry
                            + Cardinality(Unlisted(next.file, next.info)')
                      /\ Cost(next.file, next.info)' \in Nat
                    BY <1>3, CostKept DEF Cost
                <5>3. Cardinality(Unlisted(next.file, next.info)') \in Nat
                    <6>1. Unlisted(next.file, next.info)' \in SUBSET Node
                        BY DEF Unlisted, Marks
                    <6> QED
                        BY <6>1, FS_Subset, FS_CardinalityType DEF Undisturbed
                <5>4. next.info.retry \in Nat /\ faults' \in Nat
                    <6>1. next.info.retry \in Nat
                        BY <1>3, RetryType
                    <6>2. faults' \in Nat
                        BY DEF BaseInv, TypeOK
                    <6> QED
                        BY <6>1, <6>2
                <5> QED
                    BY <5>1, <5>2, <5>3, <5>4
            <4>4. Job(job.file, job.info).file = next.file /\ Job(job.file, job.info).info = next.info
                BY <3>2 DEF Job
            <4> HIDE DEF job
            <4> QED
                BY <3>2, <4>2, <4>3, <4>4 DEF Chance, UnderWay, Waiting
        <3>5. ASSUME faults' = faults + 1
              PROVE  Cost(next.file, next.info)' + 1 <= faults'
            <4>1. Contains(n, next.info.peers) /\ Cost(next.file, next.info) <= faults
                BY <3>3 DEF Own
            <4>2. /\ Cost(next.file, next.info)' <= Cost(next.file, next.info)
                  /\ Cost(next.file, next.info) \in Nat /\ Cost(next.file, next.info)' \in Nat
                BY <1>3, <4>1, CostKept
            <4> QED
                BY <1>1, <3>5, <4>1, <4>2
        <3>6. Own(n, next.file, next.info)' /\ (t \in File => next.file = t)
            BY <2>8, <3>1, <3>2
        <3> HIDE DEF job
        <3>7. Posted(m, u, next)'
            BY <1>7, <3>2, <3>4, <3>5, <3>6 DEF Posted
        <3> QED
            BY <1>4, <3>7
    <2> QED
        BY <1>7, <2>1, <2>4, <2>5, <2>6, <2>7, <2>9, <2>10 DEF PostStep
<1>8. CASE m = n /\ Upload(n, u)
    <2>1. u \in File
        BY <1>8 DEF Upload
    <2> QED
        BY <1>6, <1>8, <2>1
<1>9. CASE ~ (m = n /\ Upload(n, u)) /\ ~ (m = n /\ PostStep(n, u))
    <2>1. post'[m][u] = post[m][u]
        <3>1. ASSUME NEW t, ~ (m = n /\ u = t), \E job : post' = [post EXCEPT ![n][t] = job]
              PROVE  post'[m][u] = post[m][u]
            BY <1>1, <3>1
        <3>2. ASSUME NEW t \in Poster, PostStep(n, t) PROVE post'[m][u] = post[m][u]
            <4>1. \E job : post' = [post EXCEPT ![n][t] = job]
                BY <3>2 DEF PostStep, PostTake, PostSkip, PostFound, PostAbsent, PostDelivered,
                            PostLost, PostOk, PostFailed
            <4>2. ~ (m = n /\ u = t)
                BY <1>9, <3>2
            <4> QED
                BY <3>1, <4>1, <4>2
        <3>3. ASSUME NEW g \in File, Upload(n, g) PROVE post'[m][u] = post[m][u]
            <4>1. \E job : post' = [post EXCEPT ![n][g] = job]
                BY <3>3 DEF Upload
            <4>2. ~ (m = n /\ u = g)
                BY <1>9, <3>3
            <4> QED
                BY <3>1, <4>1, <4>2
        <3>4. ASSUME \/ \E g \in File : ResendError(n, g)
                     \/ \E d \in Getter : \/ GetTake(n, d) \/ GetLock(n, d)
                                          \/ GetAnswered(n, d) \/ GetFailed(n, d)
                     \/ ConsumeLog(n)
              PROVE  post' = post
            BY <3>4 DEF ResendError, GetTake, GetLock, GetAnswered, GetFailed, ConsumeLog
        <3> QED
            BY <3>2, <3>3, <3>4 DEF CalmStep
    <2> QED
        BY <1>5, <1>9, <2>1
<1> QED
    BY <1>7, <1>8, <1>9

LEMMA InitTally == Undisturbed /\ Init => BaseInv /\ TallyInv
<1> SUFFICES ASSUME Undisturbed, Init PROVE BaseInv /\ TallyInv
    OBVIOUS
<1>1. TypeOK /\ StoredInv /\ SourceInv
    BY InitTypeOK, InitStored, InitSource
<1>2. DeadInv
    BY DEF Init, DeadInv
<1>3. /\ \A n \in Node, t \in Poster : post[n][t].pc = "off"
      /\ \A n \in Node, t \in File : post[n][t].file = t
      /\ \A n \in Node, d \in Getter : get[n][d].pc = "off"
    BY DEF Init, OffPosts, NewPost, OffGets, NewGet, Poster
<1>4. CalmInv
    BY <1>3 DEF Init, CalmInv
<1> DEFINE empty == <<>>
<1>9. Len(empty) = 0 /\ \A i : i \notin 1..Len(empty)
    OBVIOUS
<1>10. \A n \in Node : toPeers[n] = empty /\ fromPeers[n] = empty /\ fileLog[n] = empty
    BY DEF Init
<1> HIDE DEF empty
<1>5. IndexTally /\ GetTally
    BY <1>3 DEF Init, IndexTally, GetTally
<1>6. QueueTally
    BY <1>9, <1>10 DEF QueueTally, Carries
<1>7. PostTally
    <2>1. \A n \in Node, t \in Poster : ~ UploadIn(fileLog[n], t)
        BY <1>9, <1>10 DEF UploadIn
    <2> SUFFICES ASSUME NEW n \in Node, NEW t \in Poster PROVE Posted(n, t, post[n][t])
        BY DEF PostTally
    <2>2. post[n][t].pc = "off" /\ (t \in File => post[n][t].file = t)
        BY <1>3
    <2> QED
        BY <2>1, <2>2 DEF Posted
<1>8. ASSUME NEW f \in File PROVE Cardinality(Marks(f)) <= faults
    <2>1. Marks(f) = {}
        <3>1. \A n \in Node : ~ ErrorIn(fileLog[n], f)
            BY <1>9, <1>10 DEF ErrorIn
        <3>2. \A n \in Node : errorsMd5[n] = {}
            BY DEF Init
        <3>3. \A n \in Node, t \in Poster : ~ Failing(post[n][t], f)
            BY <1>3 DEF Failing
        <3> QED
            BY <3>1, <3>2, <3>3 DEF Marks, Marked
    <2> QED
        BY <2>1, FS_EmptySet DEF Init
<1> QED
    BY <1>1, <1>2, <1>4, <1>5, <1>6, <1>7, <1>8 DEF BaseInv, TallyInv, MarkTally

LEMMA NextTally ==
    Undisturbed /\ BaseInv /\ TallyInv /\ [Next]_vars => BaseInv' /\ TallyInv'
<1> SUFFICES ASSUME Undisturbed, BaseInv, TallyInv, [Next]_vars PROVE BaseInv' /\ TallyInv'
    OBVIOUS
<1>1. TypeOK' /\ StoredInv'
    BY NextTypeOK, NextStored DEF BaseInv
<1>2. SourceInv' /\ DeadInv'
    BY <1>1, NextSource, NextDead DEF BaseInv
<1>3. BaseInv'
    BY <1>1, <1>2, NextCalm DEF BaseInv
<1>4. CASE UNCHANGED vars
    <2>1. UNCHANGED <<disk, index, errorsMd5, fileLog, toPeers, fromPeers, toLoad, post, get,
                      faults>>
        BY <1>4 DEF vars, stable, chans, env
    <2>2. \A p \in Node, f \in File : Chance(p, f, 0) <=> Chance(p, f, 0)'
        BY <2>1 DEF Chance, UnderWay, Loading, Waiting, Running
    <2>3. \A f \in File : Marks(f)' = Marks(f)
        BY <2>1 DEF Marks, Marked, ErrorIn, Failing
    <2>4. \A f \in File : \A info : Good(f, info)' = Good(f, info) /\ Cost(f, info)' = Cost(f, info)
        BY <2>2, <2>3 DEF Good, Cost, Unlisted, Contains
    <2>5. \A n \in Node, f \in File : \A info :
              /\ Own(n, f, info)' <=> Own(n, f, info)
              /\ Received(n, f, info)' <=> Received(n, f, info)
              /\ Loaded(n, f, info)' <=> Loaded(n, f, info)
        BY <2>1, <2>4 DEF Own, Received, Loaded, Contains
    <2>6. IndexTally' /\ GetTally'
        <3>1. ASSUME NEW n \in Node, NEW f \in File, index[n][f] # NoInfo
              PROVE  Own(n, f, index[n][f])' \/ Loaded(n, f, index[n][f])'
            <4>1. PICK info : info = index[n][f]
                OBVIOUS
            <4>2. Own(n, f, info)' \/ Loaded(n, f, info)'
                BY <2>5, <3>1, <4>1 DEF TallyInv, IndexTally
            <4> QED
                BY <2>1, <4>1, <4>2 DEF Own, Loaded, Good, Cost, Unlisted, Contains
        <3>2. ASSUME NEW n \in Node, NEW d \in Getter, get[n][d].pc # "off"
              PROVE  Loaded(n, get[n][d].file, get[n][d].info)'
            <4>1. PICK f \in File, info \in Info : f = get[n][d].file /\ info = get[n][d].info
                BY GetType DEF BaseInv
            <4>2. Loaded(n, f, info)'
                BY <2>5, <3>2, <4>1 DEF TallyInv, GetTally
            <4> QED
                BY <2>1, <4>1, <4>2 DEF Loaded, Good, Cost, Unlisted, Contains
        <3> QED
            BY <2>1, <3>1, <3>2 DEF IndexTally, GetTally
    <2>7. ToPost' = ToPost /\ ToFetch' = ToFetch /\ ToSave' = ToSave
        <3>1. /\ \A job \in JobEntry : job.file \in File
              /\ \A entry \in LogEntry : entry.file \in File
            BY DEF JobEntry, LogEntry
        <3> QED
            BY <2>5, <3>1 DEF ToPost, ToFetch, ToSave
    <2>8. QueueTally'
        BY <2>1, <2>7 DEF TallyInv, QueueTally, Carries
    <2>9. MarkTally'
        BY <2>1, <2>3 DEF TallyInv, MarkTally
    <2>10. PostTally'
        <3> SUFFICES ASSUME NEW n \in Node, NEW t \in Poster PROVE Posted(n, t, post[n][t])'
            BY DEF PostTally
        <3>1. /\ Posted(n, t, post[n][t])
              /\ post[n][t].file \in File /\ post[n][t].to \in Node
            BY PostType DEF BaseInv, TallyInv, PostTally
        <3>2. PICK job : job = post[n][t]
            OBVIOUS
        <3>3. /\ Own(n, job.file, job.info)' <=> Own(n, job.file, job.info)
              /\ Chance(job.to, job.file, 0) <=> Chance(job.to, job.file, 0)'
              /\ Cost(job.file, job.info)' = Cost(job.file, job.info)
              /\ UploadIn(fileLog[n], t) <=> UploadIn(fileLog[n], t)'
            BY <2>1, <2>2, <2>4, <2>5, <3>1, <3>2 DEF UploadIn
        <3>4. Posted(n, t, job)'
            BY <2>1, <3>1, <3>2, <3>3 DEF Posted, Contains
        <3> QED
            BY <2>1, <3>2, <3>4 DEF Posted, Own, Good, Cost, Unlisted, Contains, UploadIn
    <2> QED
        BY <1>3, <2>6, <2>8, <2>9, <2>10 DEF TallyInv
<1>5. ASSUME NEW n \in Node, CalmStep(n) PROVE TallyInv'
    BY <1>3, <1>5, StepIndexTally, StepQueueTally, StepPostTally, StepGetTally, StepMarkTally
       DEF TallyInv
<1> QED
    BY <1>3, <1>4, <1>5, CalmSteps

(* Without a crash or a request for a file that a node lacks, and with fewer*)
(* faults than retries, whoever a node lists for a file has it or is about  *)
(* to fetch it.                                                             *)
THEOREM ListedCorrect == Undisturbed => (Spec => []ListedPeerHasFile)
<1> SUFFICES ASSUME Undisturbed PROVE Spec => []ListedPeerHasFile
    OBVIOUS
<1>1. Init => BaseInv /\ TallyInv
    BY InitTally
<1>2. BaseInv /\ TallyInv /\ [Next]_vars => BaseInv' /\ TallyInv'
    BY NextTally
<1>3. BaseInv /\ TallyInv => ListedPeerHasFile
    <2> SUFFICES ASSUME BaseInv, TallyInv, NEW n \in Node, NEW p \in Node, NEW f \in File,
                        index[n][f] # NoInfo, Contains(p, index[n][f].peers)
                 PROVE  f \in disk[p] \/ Fetching(p, f)
        BY DEF ListedPeerHasFile
    <2>1. Chance(p, f, 0)
        BY DEF TallyInv, IndexTally, Own, Loaded, Good
    <2>2. ~ (0 + faults >= RetryCount)
        BY DEF BaseInv, TypeOK, Undisturbed
    <2> QED
        BY <2>1, <2>2 DEF Chance, UnderWay, Loading, Waiting, Running, Fetching
<1> QED
    BY <1>1, <1>2, <1>3, PTL DEF Spec

-----------------------------------------------------------------------------
(* AutoRepair: what replication promises still holds while nodes repair,    *)
(* and the count that they compare accounts for what they have.             *)
USE ForcesAssumption, AutoAssumption, NoneAssumption

(* A step of autoRepair, of the goroutines it makes queue files, or of the  *)
(* count that it compares.                                                  *)
OfRepair(n) == RepairStep(n) \/ CountLog(n)
               \/ \E f \in File : Resend(n, f) \/ ResendForced(n, f)

(* A step of replication beside the repairs.                                *)
OfReplication(n) == UploadStep(n) \/ ReplicationStep(n) \/ SaveLog(n)
                    \/ CrashWithRepair(n) \/ RestartWithStat(n)

(* Every step is the one or the other, and the latter is one of the steps   *)
(* of Replication that look for no file at a peer.                          *)
LEMMA RepairSteps ==
    /\ RepairNext => \E n \in Node : OfRepair(n) \/ OfReplication(n)
    /\ \A n \in Node : OfReplication(n) => OwnStep(n) /\ [Next]_vars
<1>1. RepairNext => \E n \in Node : OfRepair(n) \/ OfReplication(n)
    BY DEF RepairNext, OfRepair, OfReplication
<1>2. ASSUME NEW n \in Node, OfReplication(n) PROVE OwnStep(n)
    BY <1>2 DEF OfReplication, UploadStep, ReplicationStep, SaveLog, CrashWithRepair,
                RestartWithStat, OwnStep
<1>3. \A n \in Node : OwnStep(n) => [Next]_vars
    BY DEF OwnStep, Next
<1> QED
    BY <1>1, <1>2, <1>3

(* All that a repair does to the state of replication is to queue, at a     *)
(* node, a FileInfo of that node's ldb, its peers forgotten or not, and to  *)
(* lose a request.                                                          *)
Requeues(n, f) ==
    /\ index[n][f] # NoInfo
    /\ \/ Queued(n, f, index[n][f])
       \/ Queued(n, f, Forget(n, index[n][f]))

Apart(n) ==
    /\ UNCHANGED <<alive, stable, fileLog, fromPeers, toLoad, post, get, crashes>>
    /\ faults' = faults \/ Fault
    /\ UNCHANGED toPeers \/ \E f \in File : Requeues(n, f)

LEMMA RepairEffect ==
    ASSUME RepairTypeOK, NEW n \in Node, OfRepair(n)
    PROVE  Apart(n)
<1>1. ASSUME RepairStart(n) PROVE Apart(n)
    BY <1>1 DEF RepairStart, Apart, vars, chans, env
<1>2. ASSUME \/ \E p \in Node : RepairStat(n, p)
             \/ RepairSync(n) \/ RepairDiff(n) \/ RepairGive(n)
      PROVE  Apart(n)
    BY <1>2 DEF RepairStat, RepairSync, RepairDiff, RepairGive, Fails, Answered, Apart, chans
<1>3. \A f \in File : Sent(n, f) => UNCHANGED toPeers \/ Requeues(n, f)
    BY DEF Sent, Requeues
<1>4. ASSUME RepairSend(n) PROVE Apart(n)
    <2>1. repair[n].send \subseteq File
        <3>1. repair[n] \in RepairState
            BY DEF RepairTypeOK
        <3> QED
            BY <3>1 DEF RepairState
    <2>2. UNCHANGED toPeers \/ \E f \in File : Sent(n, f)
        BY <1>4, <2>1 DEF RepairSend
    <2>3. /\ UNCHANGED <<alive, stable, fileLog, fromPeers, toLoad, post, get, crashes>>
          /\ faults' = faults
        BY <1>4 DEF RepairSend, env
    <2> QED
        BY <1>3, <2>2, <2>3 DEF Apart
<1>5. ASSUME NEW f \in File, Resend(n, f) \/ ResendForced(n, f) PROVE Apart(n)
    <2>1. UNCHANGED toPeers \/ Requeues(n, f)
        BY <1>3, <1>5 DEF Resend, ResendForced, Requeues
    <2> QED
        BY <1>5, <2>1 DEF Resend, ResendForced, Apart, env
<1>6. ASSUME CountLog(n) PROVE Apart(n)
    BY <1>6 DEF CountLog, Apart, vars, chans, env
<1> QED
    BY <1>1, <1>2, <1>4, <1>5, <1>6 DEF OfRepair, RepairStep

(* A FileInfo whose peers the forced repair forgot.                         *)
LEMMA ForgetType ==
    ASSUME NEW n \in Node, NEW info \in Info
    PROVE  Forget(n, info) \in Info
<1>1. <<n>> \in Seq(Node)
    OBVIOUS
<1> QED
    BY <1>1 DEF Forget, Info

(* So a repair leaves the types of replication alone, ...                   *)
LEMMA ApartTypeOK == ASSUME TypeOK, NEW n \in Node, Apart(n) PROVE TypeOK'
<1>1. faults' \in 0..MaxFaults
    BY DEF Apart, Fault, TypeOK
<1>2. toPeers' \in [Node -> Seq(JobEntry)]
    <2>1. CASE UNCHANGED toPeers
        BY <2>1 DEF TypeOK
    <2>2. ASSUME NEW f \in File, Requeues(n, f)
          PROVE  toPeers' \in [Node -> Seq(JobEntry)]
        <3>1. index[n][f] \in Info
            BY <2>2 DEF Requeues, TypeOK
        <3>2. PICK info \in Info : toPeers' = [toPeers EXCEPT ![n] = Append(@, Job(f, info))]
            BY <2>2, <3>1, ForgetType DEF Requeues, Queued
        <3>3. Job(f, info) \in JobEntry
            BY EntryType
        <3> QED
            BY <3>2, <3>3 DEF TypeOK
    <2> QED
        BY <2>1, <2>2 DEF Apart
<1> QED
    BY <1>1, <1>2 DEF Apart, TypeOK, stable

(* ... and what is on the disks, in ldb and in the logs, ...                *)
LEMMA ApartStored == ASSUME StoredInv, NEW n \in Node, Apart(n) PROVE StoredInv'
    BY DEF Apart, stable, StoredInv, IndexedIsStored, LoggedIsStored, PostedIsStored,
           SavedInLdb

(* ... and says of a FileInfo nothing that its ldb did not say, but that    *)
(* only this node has the file.                                             *)
LEMMA ApartKept ==
    ASSUME TypeOK, NEW S, AllIn(S), NEW n \in Node, Apart(n),
           \A f \in File : index[n][f] # NoInfo => <<f, Forget(n, index[n][f])>> \in S
    PROVE  AllIn(S)'
<1>1. QueueIn(toPeers', S)
    <2>1. CASE UNCHANGED toPeers
        BY <2>1 DEF AllIn
    <2>2. ASSUME NEW f \in File, Requeues(n, f) PROVE QueueIn(toPeers', S)
        <3>1. index[n][f] \in Info /\ <<f, index[n][f]>> \in S
            BY <2>2 DEF Requeues, TypeOK, AllIn, TableIn
        <3>2. Forget(n, index[n][f]) \in Info /\ <<f, Forget(n, index[n][f])>> \in S
            BY <2>2, <3>1, ForgetType DEF Requeues
        <3>3. PICK info \in Info :
                 /\ <<f, info>> \in S
                 /\ toPeers' = [toPeers EXCEPT ![n] = Append(@, Job(f, info))]
            BY <2>2, <3>1, <3>2 DEF Requeues, Queued
        <3>4. Job(f, info) \in JobEntry /\ <<Job(f, info).file, Job(f, info).info>> \in S
            BY <3>3, EntryType DEF Job
        <3>5. toPeers \in [Node -> Seq(JobEntry)] /\ QueueIn(toPeers, S)
            BY DEF TypeOK, AllIn
        <3> QED
            BY <3>3, <3>4, <3>5, QueueKept
    <2> QED
        BY <2>1, <2>2 DEF Apart
<1> QED
    BY <1>1 DEF Apart, stable, AllIn, TableIn, QueueIn, RunsIn, UploadsIn

-----------------------------------------------------------------------------
(* Repairs start with values of the right types.                            *)
LEMMA InitRepairTypeOK == RepairInit => RepairTypeOK
<1> SUFFICES ASSUME RepairInit PROVE RepairTypeOK
    OBVIOUS
<1>1. TypeOK
    BY InitTypeOK DEF RepairInit
<1>2. \A n \in Node : NoRepair(n) \in RepairState
    BY DEF NoRepair, RepairState
<1> QED
    BY <1>1, <1>2 DEF RepairInit, RepairTypeOK

(* What no step of another kind touches.                                    *)
RepairTypes ==
    /\ count \in [Node -> Nat \cup {None}]
    /\ repair \in [Node -> RepairState]
    /\ resend \in [Node -> SUBSET File]
    /\ forced \in [Node -> SUBSET File]
    /\ begun \subseteq Node
    /\ counted \in [Node -> {"no", "passed", "added"}]
    /\ uncounted \in [Node -> SUBSET File]

LEMMA StepRepairTypes ==
    ASSUME RepairTypeOK, NEW n \in Node, OfRepair(n)
    PROVE  RepairTypes'
<1>0. RepairTypes
    BY DEF RepairTypeOK, RepairTypes
<1>1. /\ repair[n] \in RepairState /\ repair[n].todo \in SUBSET Node
      /\ repair[n].peer \in Node /\ repair[n].force \in BOOLEAN
      /\ repair[n].send \subseteq File /\ repair[n].give \subseteq File
    <2>1. repair[n] \in RepairState
        BY <1>0 DEF RepairTypes
    <2> QED
        BY <2>1 DEF RepairState
<1>2. \A m \in Node : DayMd5s(m) \subseteq File
    BY DEF DayMd5s
<1>3. ASSUME NEW run \in RepairState, repair' = [repair EXCEPT ![n] = run]
      PROVE  repair' \in [Node -> RepairState]
    BY <1>0, <1>3 DEF RepairTypes
<1>4. ASSUME NEW p \in Node, Skip(n, p) PROVE repair' \in [Node -> RepairState]
    <2> DEFINE run == NextPeer(n, repair[n].todo \ {p})
    <2>1. run \in RepairState
        BY <1>1 DEF NextPeer, NoRepair, RepairState
    <2>2. repair' = [repair EXCEPT ![n] = run]
        BY <1>4 DEF Skip
    <2> HIDE DEF run
    <2> QED
        BY <1>3, <2>1, <2>2
<1>5. ASSUME NEW p \in Node, NEW pc \in {"sync", "diff", "send"}, GoTo(n, pc, p)
      PROVE  repair' \in [Node -> RepairState]
    <2> DEFINE run == [repair[n] EXCEPT !.pc = pc, !.peer = p]
    <2>1. run \in RepairState
        BY <1>1 DEF RepairState
    <2>2. repair' = [repair EXCEPT ![n] = run]
        BY <1>0, <1>5 DEF GoTo, RepairTypes
    <2> HIDE DEF run
    <2> QED
        BY <1>3, <2>1, <2>2
<1>6. \A p : Fails(p) \/ Answered(p) => begun' \subseteq Node
    BY <1>0 DEF Fails, Answered, RepairTypes
<1>7. CASE RepairStart(n)
    <2>1. PICK force \in Forces :
             /\ repair' = [repair EXCEPT ![n] = [NoRepair(n) EXCEPT !.pc = "stat",
                                                   !.todo = Peers[n], !.force = force]]
             /\ begun' = IF force THEN begun \cup {n} ELSE begun
        BY <1>7 DEF RepairStart
    <2>2. [NoRepair(n) EXCEPT !.pc = "stat", !.todo = Peers[n], !.force = force]
             \in RepairState
        BY DEF NoRepair, RepairState
    <2>3. repair' \in [Node -> RepairState]
        BY <1>3, <2>1, <2>2
    <2>4. begun' \subseteq Node
        BY <1>0, <2>1 DEF RepairTypes
    <2> QED
        BY <1>0, <1>7, <2>3, <2>4 DEF RepairStart, counting, RepairTypes
<1>8. ASSUME NEW p \in Node, RepairStat(n, p) PROVE RepairTypes'
    <2>1. repair' \in [Node -> RepairState]
        BY <1>4, <1>5, <1>8 DEF RepairStat
    <2>2. begun' \subseteq Node
        BY <1>6, <1>8 DEF RepairStat
    <2> QED
        BY <1>0, <1>8, <2>1, <2>2 DEF RepairStat, counting, RepairTypes
<1>9. CASE RepairSync(n)
    <2>1. repair' \in [Node -> RepairState]
        BY <1>1, <1>4, <1>9 DEF RepairSync
    <2>2. begun' \subseteq Node
        BY <1>6, <1>9 DEF RepairSync
    <2>3. forced' \in [Node -> SUBSET File]
        BY <1>0, <1>2, <1>9 DEF RepairSync, RepairTypes
    <2> QED
        BY <1>0, <1>9, <2>1, <2>2, <2>3 DEF RepairSync, counting, RepairTypes
<1>10. CASE RepairDiff(n)
    <2>1. repair' \in [Node -> RepairState]
        <3> DEFINE give == DayMd5s(repair[n].peer) \ DayMd5s(n)
                   send == DayMd5s(n) \ DayMd5s(repair[n].peer)
                   run == [repair[n] EXCEPT !.pc = "give", !.give = give, !.send = send]
        <3>1. give \subseteq File /\ send \subseteq File
            BY <1>1, <1>2
        <3>2. \/ Skip(n, repair[n].peer)
              \/ repair' = [repair EXCEPT ![n] = run]
            BY <1>0, <1>10 DEF RepairDiff, RepairTypes
        <3> HIDE DEF give, send
        <3>3. run \in RepairState
            BY <1>1, <3>1 DEF RepairState
        <3> HIDE DEF run
        <3> QED
            BY <1>1, <1>3, <1>4, <3>2, <3>3
    <2>2. begun' \subseteq Node
        BY <1>6, <1>10 DEF RepairDiff
    <2> QED
        BY <1>0, <1>10, <2>1, <2>2 DEF RepairDiff, counting, RepairTypes
<1>11. CASE RepairGive(n)
    <2>1. repair' \in [Node -> RepairState]
        BY <1>1, <1>5, <1>11 DEF RepairGive
    <2>2. begun' \subseteq Node
        BY <1>6, <1>11 DEF RepairGive
    <2>3. resend' \in [Node -> SUBSET File]
        BY <1>0, <1>1, <1>11 DEF RepairGive, RepairTypes
    <2> QED
        BY <1>0, <1>11, <2>1, <2>2, <2>3 DEF RepairGive, counting, RepairTypes
<1>12. CASE RepairSend(n)
    <2>1. ASSUME NEW f \in repair[n].send, repair' = [repair EXCEPT ![n].send = @ \ {f}]
          PROVE  repair' \in [Node -> RepairState]
        <3> DEFINE run == [repair[n] EXCEPT !.send = @ \ {f}]
        <3>1. run \in RepairState
            BY <1>1 DEF RepairState
        <3>2. repair' = [repair EXCEPT ![n] = run]
            BY <1>0, <2>1 DEF RepairTypes
        <3> HIDE DEF run
        <3> QED
            BY <1>3, <3>1, <3>2
    <2>2. repair' \in [Node -> RepairState]
        BY <1>1, <1>4, <1>12, <2>1 DEF RepairSend
    <2> QED
        BY <1>0, <1>12, <2>2 DEF RepairSend, counting, RepairTypes
<1>13. ASSUME NEW f \in File, Resend(n, f) \/ ResendForced(n, f) PROVE RepairTypes'
    BY <1>0, <1>13 DEF Resend, ResendForced, counting, RepairTypes
<1>14. ASSUME CountLog(n) PROVE RepairTypes'
    BY <1>0, <1>14 DEF CountLog, asked, RepairTypes
<1> QED
    BY <1>7, <1>8, <1>9, <1>10, <1>11, <1>12, <1>13, <1>14 DEF OfRepair, RepairStep

(* No step of a repair or beside one breaks the types.                      *)
LEMMA NextRepairTypeOK == RepairTypeOK /\ [RepairNext]_<<vars, repairing>> => RepairTypeOK'
<1> SUFFICES ASSUME RepairTypeOK, [RepairNext]_<<vars, repairing>> PROVE RepairTypeOK'
    OBVIOUS
<1>0. TypeOK /\ RepairTypes
    BY DEF RepairTypeOK, RepairTypes
<1>1. ASSUME NEW n \in Node, OfRepair(n) PROVE RepairTypeOK'
    BY <1>0, <1>1, RepairEffect, ApartTypeOK, StepRepairTypes DEF RepairTypeOK, RepairTypes
<1>2. ASSUME NEW n \in Node, OfReplication(n) PROVE RepairTypeOK'
    <2>1. TypeOK'
        BY <1>0, <1>2, RepairSteps, NextTypeOK
    <2>2. NoRepair(n) \in RepairState
        BY DEF NoRepair, RepairState
    <2>3. count' \in [Node -> Nat \cup {None}]
        BY <1>0, <1>2 DEF OfReplication, UploadStep, ReplicationStep, SaveLog,
                          CrashWithRepair, StatKept, StatTorn, RestartWithStat, RepairTypes
    <2>4. repair' \in [Node -> RepairState]
        BY <1>0, <1>2, <2>2 DEF OfReplication, UploadStep, ReplicationStep, SaveLog,
                                CrashWithRepair, RestartWithStat, asked, RepairTypes
    <2>5. resend' \in [Node -> SUBSET File] /\ forced' \in [Node -> SUBSET File]
          /\ begun' \subseteq Node
        BY <1>0, <1>2 DEF OfReplication, UploadStep, ReplicationStep, SaveLog,
                          CrashWithRepair, RestartWithStat, asked, RepairTypes
    <2>6. counted' \in [Node -> {"no", "passed", "added"}]
        BY <1>0, <1>2 DEF OfReplication, UploadStep, ReplicationStep, SaveLog,
                          CrashWithRepair, RestartWithStat, counting, RepairTypes
    <2>7. uncounted' \in [Node -> SUBSET File]
        <3>1. \A m \in Node : DayMd5s(m) \subseteq File /\ DayMd5s(m)' \subseteq File
            BY DEF DayMd5s
        <3> QED
            BY <1>0, <1>2, <3>1 DEF OfReplication, UploadStep, ReplicationStep, SaveLog,
                   CrashWithRepair, StatKept, StatTorn, RestartWithStat, counting, RepairTypes
    <2> QED
        BY <2>1, <2>3, <2>4, <2>5, <2>6, <2>7 DEF RepairTypeOK
<1>3. CASE UNCHANGED <<vars, repairing>>
    <2>1. TypeOK'
        BY <1>0, <1>3, NextTypeOK
    <2> QED
        BY <1>0, <1>3, <2>1 DEF repairing, counting, asked, RepairTypeOK, RepairTypes
<1> QED
    BY <1>1, <1>2, <1>3, RepairSteps

(* The repair's own state and that of replication keep their types.         *)
THEOREM RepairTypeCorrect == RepairSpec => []RepairTypeOK
<1> QED
    BY InitRepairTypeOK, NextRepairTypeOK, PTL DEF RepairSpec

-----------------------------------------------------------------------------
(* The invariants of Replication hold here as well: its own steps keep      *)
(* them, and a repair queues what ldb says.                                 *)
ReplicationInv == StoredInv /\ SourceInv

LEMMA NextReplicationInv ==
    RepairTypeOK /\ RepairTypeOK' /\ ReplicationInv /\ [RepairNext]_<<vars, repairing>>
        => ReplicationInv'
<1> SUFFICES ASSUME RepairTypeOK, RepairTypeOK', ReplicationInv,
                    [RepairNext]_<<vars, repairing>>
             PROVE  ReplicationInv'
    OBVIOUS
<1>0. TypeOK /\ TypeOK' /\ StoredInv /\ SourceInv
    BY DEF RepairTypeOK, ReplicationInv
<1>1. ASSUME [Next]_vars PROVE ReplicationInv'
    BY <1>0, <1>1, NextStored, NextSource DEF ReplicationInv
<1>2. ASSUME NEW n \in Node, Apart(n) PROVE ReplicationInv'
    <2>1. StoredInv'
        BY <1>0, <1>2, ApartStored
    <2>2. PICK S : S = Held(disk)
        OBVIOUS
    <2>3. AllIn(S)
        BY <1>0, <2>2 DEF SourceInv
    <2>4. ASSUME NEW f \in File, index[n][f] # NoInfo
          PROVE  <<f, Forget(n, index[n][f])>> \in S
        <3>1. f \in disk[n]
            BY <1>0, <2>4 DEF StoredInv, IndexedIsStored
        <3>2. index[n][f] \in Info
            BY <1>0, <2>4 DEF TypeOK
        <3>3. Forget(n, index[n][f]).peers = <<n>>
            BY <3>2 DEF Forget, Info
        <3> QED
            BY <2>2, <3>1, <3>2, <3>3, ForgetType DEF Held
    <2>5. AllIn(S)'
        BY <1>0, <1>2, <2>3, <2>4, ApartKept
    <2>6. disk' = disk /\ get' = get
        BY <1>2 DEF Apart, stable
    <2>7. AllIn(Held(disk))'
        BY <2>2, <2>5, <2>6 DEF AllIn, TableIn, QueueIn, RunsIn, UploadsIn
    <2>8. SourceStored'
        BY <1>0, <2>6 DEF SourceInv, SourceStored
    <2> QED
        BY <2>1, <2>7, <2>8 DEF SourceInv, ReplicationInv
<1>3. CASE UNCHANGED <<vars, repairing>>
    BY <1>1, <1>3
<1> QED
    BY <1>1, <1>2, <1>3, RepairSteps, RepairEffect

(* So they hold in every reachable state.                                   *)
LEMMA ReplicationInvCorrect == RepairSpec => []ReplicationInv
<1>1. RepairInit => ReplicationInv
    BY InitStored, InitSource DEF RepairInit, ReplicationInv
<1> QED
    BY <1>1, NextReplicationInv, RepairTypeCorrect, PTL DEF RepairSpec

(* However often nodes repair, forget who has a file and post it again:     *)
(* what is queued still names first a node that has the file.               *)
THEOREM SourceUnderRepair == RepairSpec => []SourceHoldsFile
<1>1. TypeOK /\ SourceInv => SourceHoldsFile
    <2> SUFFICES ASSUME TypeOK, SourceInv PROVE SourceHoldsFile
        OBVIOUS
    <2>1. \A f, info : <<f, info>> \in Held(disk) => Holder(info, f)
        BY DEF Held, Holder
    <2> QED
        BY <2>1 DEF SourceInv, AllIn, TableIn, QueueIn, SourceStored, SourceHoldsFile
<1>2. RepairTypeOK /\ ReplicationInv => SourceHoldsFile
    BY <1>1 DEF RepairTypeOK, ReplicationInv
<1> QED
    BY <1>2, RepairTypeCorrect, ReplicationInvCorrect, PTL

(* A group that repairs is still the abstract replica set.                  *)
THEOREM RepairImplementsReplicaSet == RepairSpec => Refinement
<1>1. RepairInit => RS!Init
    BY InitRefines DEF RepairInit
<1>2. RepairTypeOK /\ ReplicationInv /\ [RepairNext]_<<vars, repairing>>
        => [RS!Next]_(RS!vars)
    <2> SUFFICES ASSUME RepairTypeOK, ReplicationInv, [RepairNext]_<<vars, repairing>>
                 PROVE  [RS!Next]_(RS!vars)
        OBVIOUS
    <2>0. TypeOK /\ StoredInv
        BY DEF RepairTypeOK, ReplicationInv
    <2>1. ASSUME [Next]_vars PROVE [RS!Next]_(RS!vars)
        BY <2>0, <2>1, NextRefines
    <2>2. ASSUME NEW n \in Node, Apart(n) PROVE [RS!Next]_(RS!vars)
        BY <2>2 DEF Apart, stable, RS!vars, Indexed
    <2>3. CASE UNCHANGED <<vars, repairing>>
        BY <2>1, <2>3
    <2> QED
        BY <2>1, <2>2, <2>3, RepairSteps, RepairEffect
<1> QED
    BY <1>1, <1>2, RepairTypeCorrect, ReplicationInvCorrect, PTL
    DEF RepairSpec, Refinement, RS!Spec

-----------------------------------------------------------------------------
(* No client asks for missing files here, so no FileInfo has the sum of a   *)
(* path: what saveFileMd5Log saves it saves under the md5 of the content.   *)
OfContent == {pair \in File \X Info : pair[2].md5 = "content"}

(* The FileInfos that handlers make keep the sum of the content.            *)
LEMMA ContentClosed ==
    /\ Closed(OfContent)
    /\ \A n \in Node, f \in File : <<f, Fresh(n)>> \in OfContent
    /\ \A n \in Node, f \in File, info \in Info :
          <<f, info>> \in OfContent => <<f, Forget(n, info)>> \in OfContent
<1>1. \A info \in Info : /\ \A p \in Node : AddPeer(info, p).md5 = info.md5
                        /\ Retried(info).md5 = info.md5
                        /\ \A n \in Node : Forget(n, info).md5 = info.md5
    BY DEF AddPeer, Retried, Forget, Info
<1>2. Closed(OfContent)
    BY <1>1, InfoType DEF Closed, OfContent
<1>3. \A n \in Node, f \in File : <<f, Fresh(n)>> \in OfContent
    BY InfoType DEF Fresh, OfContent
<1>4. \A n \in Node, f \in File, info \in Info :
         <<f, info>> \in OfContent => <<f, Forget(n, info)>> \in OfContent
    BY <1>1, ForgetType DEF OfContent
<1> QED
    BY <1>2, <1>3, <1>4

(* Nothing is named at the start; afterwards every step keeps it.           *)
LEMMA ContentCorrect == RepairSpec => []AllIn(OfContent)
<1>1. RepairInit => AllIn(OfContent)
    <2> SUFFICES ASSUME Init PROVE AllIn(OfContent)
        BY DEF RepairInit
    <2>1. /\ \A n \in Node, t \in Poster : post[n][t].pc = "off"
          /\ \A n \in Node, d \in Getter : get[n][d].pc = "off"
        BY DEF Init, OffPosts, NewPost, OffGets, NewGet
    <2>2. RunsIn(post, Poster, OfContent) /\ RunsIn(get, Getter, OfContent)
        BY <2>1 DEF RunsIn
    <2>3. /\ TableIn(index, OfContent) /\ TableIn(byPath, OfContent)
          /\ TableIn(queueMd5, OfContent) /\ TableIn(toLoad, OfContent)
        BY DEF Init, TableIn
    <2>4. /\ QueueIn(fileLog, OfContent) /\ QueueIn(toPeers, OfContent)
          /\ QueueIn(fromPeers, OfContent) /\ UploadsIn(OfContent)
        BY DEF Init, QueueIn, UploadsIn
    <2> QED
        BY <2>2, <2>3, <2>4 DEF AllIn
<1>2. RepairTypeOK /\ RepairTypeOK' /\ ReplicationInv /\ AllIn(OfContent)
        /\ [RepairNext]_<<vars, repairing>> => AllIn(OfContent)'
    <2> SUFFICES ASSUME RepairTypeOK, RepairTypeOK', ReplicationInv, AllIn(OfContent),
                        [RepairNext]_<<vars, repairing>>
                 PROVE  AllIn(OfContent)'
        OBVIOUS
    <2>0. TypeOK /\ TypeOK' /\ StoredInv
        BY DEF RepairTypeOK, ReplicationInv
    <2>1. ASSUME NEW n \in Node, OfReplication(n) PROVE AllIn(OfContent)'
        <3>1. \A m \in Node : \A f \in disk'[m] : <<f, Fresh(m)>> \in OfContent
            BY <2>0, ContentClosed DEF TypeOK
        <3> QED
            BY <2>0, <2>1, <3>1, RepairSteps, ContentClosed, AllKept
    <2>2. ASSUME NEW n \in Node, Apart(n) PROVE AllIn(OfContent)'
        <3>1. ASSUME NEW f \in File, index[n][f] # NoInfo
              PROVE  <<f, Forget(n, index[n][f])>> \in OfContent
            <4>1. index[n][f] \in Info /\ <<f, index[n][f]>> \in OfContent
                BY <2>0, <3>1 DEF TypeOK, AllIn, TableIn
            <4> QED
                BY <4>1, ContentClosed
        <3> QED
            BY <2>0, <2>2, <3>1, ApartKept
    <2>3. CASE UNCHANGED <<vars, repairing>>
        BY <2>3 DEF vars, stable, chans, AllIn, TableIn, QueueIn, RunsIn, UploadsIn
    <2> QED
        BY <2>1, <2>2, <2>3, RepairSteps, RepairEffect
<1> QED
    BY <1>1, <1>2, RepairTypeCorrect, ReplicationInvCorrect, PTL DEF RepairSpec

-----------------------------------------------------------------------------
(* What the log consumer has counted of its entry: that one, it saves next. *)
(* The files it can not count any more are indexed already, and the count   *)
(* tells the others, up to one for every crash.                             *)
Accounted(n) ==
    /\ Cardinality(CountedFiles(n)) <= CountOf(n)
    /\ CountOf(n) <= Cardinality(CountedFiles(n)) + CrashesOf(n)

PlaceInv(n) ==
    /\ counted[n] # "no" => fileLog[n] # <<>>
    /\ counted[n] = "passed" /\ SavedInLdb(Head(fileLog[n]).kind)
          => Head(fileLog[n]).file \in DayMd5s(n)
    /\ counted[n] = "added" => /\ SavedInLdb(Head(fileLog[n]).kind)
                               /\ Head(fileLog[n]).file \in File \ uncounted[n]

CountInv == \A n \in Node : /\ IsFiniteSet(DayMd5s(n))
                            /\ uncounted[n] \subseteq DayMd5s(n)
                            /\ PlaceInv(n) /\ Accounted(n)

LEMMA CrashTypes ==
    TypeOK => \A n \in Node : CrashesOf(n) \in Nat
<1> SUFFICES ASSUME TypeOK, NEW n \in Node PROVE CrashesOf(n) \in Nat
    OBVIOUS
<1>1. IsFiniteSet(DOMAIN crashes)
    BY FS_Interval DEF TypeOK
<1>2. {i \in DOMAIN crashes : crashes[i] = n} \subseteq DOMAIN crashes
    OBVIOUS
<1> QED
    BY <1>1, <1>2, FS_Subset, FS_CardinalityType DEF CrashesOf

(* A crash is one more of its node, and none of another.                    *)
LEMMA CrashCounts ==
    ASSUME TypeOK, NEW n \in Node, crashes' = Append(crashes, n), NEW m \in Node
    PROVE  CrashesOf(m)' = IF m = n THEN CrashesOf(m) + 1 ELSE CrashesOf(m)
<1> DEFINE before == {i \in DOMAIN crashes : crashes[i] = m}
           after  == {i \in DOMAIN crashes' : crashes'[i] = m}
           last   == Len(crashes) + 1
<1>1. /\ DOMAIN crashes = 1..Len(crashes) /\ DOMAIN crashes' = 1..last
      /\ last \notin DOMAIN crashes
      /\ crashes'[last] = n /\ \A i \in DOMAIN crashes : crashes'[i] = crashes[i]
    <2>1. crashes \in Seq(Node) /\ Len(crashes) \in Nat
        BY DEF TypeOK
    <2>2. \A i \in 1..Len(crashes) : crashes'[i] = crashes[i]
        BY <2>1
    <2>3. Len(crashes') = Len(crashes) + 1 /\ crashes'[Len(crashes) + 1] = n
          /\ crashes' \in Seq(Node)
        BY <2>1
    <2>4. DOMAIN crashes = 1..Len(crashes) /\ DOMAIN crashes' = 1..Len(crashes')
        BY <2>1, <2>3
    <2> QED
        BY <2>1, <2>2, <2>3, <2>4
<1>2. IsFiniteSet(before)
    <2>1. IsFiniteSet(DOMAIN crashes)
        BY FS_Interval DEF TypeOK
    <2> QED
        BY <2>1, FS_Subset
<1>3. CASE m = n
    <2>1. after = before \cup {last} /\ last \notin before
        BY <1>1, <1>3
    <2> QED
        BY <1>2, <1>3, <2>1, FS_AddElement DEF CrashesOf
<1>4. CASE m # n
    <2>1. after = before
        BY <1>1, <1>4
    <2> QED
        BY <1>4, <2>1 DEF CrashesOf
<1> QED
    BY <1>3, <1>4

(* Replication only appends to the log, apart from the log consumer.        *)
LogGrows(n) == fileLog'[n] = fileLog[n]
               \/ \E entry \in LogEntry : fileLog'[n] = Append(fileLog[n], entry)

LEMMA LogOnlyGrows ==
    ASSUME TypeOK, TypeOK', NEW n \in Node, UploadStep(n) \/ ReplicationStep(n)
    PROVE  /\ \A m \in Node : LogGrows(m)
           /\ crashes' = crashes
           /\ OwnStep(n) /\ [Next]_vars
<1>1. OwnStep(n) /\ [Next]_vars
    BY RepairSteps DEF OfReplication
<1>2. ASSUME NEW x \in Node, NEW entry, LogAppend(x, entry) PROVE \A m \in Node : LogGrows(m)
    <2>1. \A m \in Node : fileLog'[m] = IF m = x THEN Append(fileLog[m], entry) ELSE fileLog[m]
        BY <1>2 DEF LogAppend, TypeOK
    <2>2. fileLog[x] \in Seq(LogEntry) /\ fileLog'[x] \in Seq(LogEntry)
        BY DEF TypeOK
    <2>3. fileLog[x] \in Seq(LogEntry) /\ Append(fileLog[x], entry) \in Seq(LogEntry)
          => entry \in LogEntry
        <3> SUFFICES ASSUME NEW s \in Seq(LogEntry), Append(s, entry) \in Seq(LogEntry)
                     PROVE  entry \in LogEntry
            OBVIOUS
        <3>1. Append(s, entry)[Len(s) + 1] = entry /\ Len(s) + 1 \in 1..Len(Append(s, entry))
            OBVIOUS
        <3> QED
            BY <3>1
    <2> QED
        BY <2>1, <2>2, <2>3 DEF LogGrows
<1>3. fileLog' = fileLog => \A m \in Node : LogGrows(m)
    BY DEF LogGrows
<1>4. ASSUME UploadStep(n) PROVE crashes' = crashes /\ \A m \in Node : LogGrows(m)
    BY <1>2, <1>4 DEF UploadStep, Upload, env
<1>5. ASSUME NEW t \in Poster, PostStep(n, t)
      PROVE  crashes' = crashes /\ \A m \in Node : LogGrows(m)
    <2>1. CASE PostDelivered(n, t)
        <3>1. post[n][t].to \in Node
            BY <2>1, PostType DEF PostDelivered
        <3> QED
            BY <1>2, <2>1, <3>1 DEF PostDelivered
    <2>2. CASE PostFailed(n, t)
        BY <1>2, <2>2 DEF PostFailed, env
    <2>3. CASE ~ PostDelivered(n, t) /\ ~ PostFailed(n, t)
        BY <1>3, <1>5, <2>3 DEF PostStep, PostTake, PostSkip, PostFound, PostAbsent, PostLost,
                                PostOk, chans, env
    <2> QED
        BY <2>1, <2>2, <2>3
<1>6. ASSUME NEW d \in Getter, GetStep(n, d)
      PROVE  crashes' = crashes /\ \A m \in Node : LogGrows(m)
    <2>1. CASE GetAnswered(n, d)
        BY <1>2, <1>3, <2>1 DEF GetAnswered, env
    <2>2. CASE ~ GetAnswered(n, d)
        BY <1>3, <1>6, <2>2 DEF GetStep, GetTake, GetStart, GetLock, GetFailed, chans, env
    <2> QED
        BY <2>1, <2>2
<1>7. ASSUME NEW f \in File, ResendError(n, f) \/ LoadQueue(n, f)
      PROVE  crashes' = crashes /\ \A m \in Node : LogGrows(m)
    BY <1>3, <1>7 DEF ResendError, LoadQueue, env
<1> QED
    BY <1>1, <1>4, <1>5, <1>6, <1>7 DEF ReplicationStep

(* The first entry of a log that grows stays.                               *)
LEMMA HeadStays ==
    ASSUME TypeOK, NEW n \in Node, LogGrows(n), fileLog[n] # <<>>
    PROVE  fileLog'[n] # <<>> /\ Head(fileLog'[n]) = Head(fileLog[n])
<1> SUFFICES ASSUME NEW s \in Seq(LogEntry), s # <<>>, NEW entry \in LogEntry
             PROVE  Append(s, entry) # <<>> /\ Head(Append(s, entry)) = Head(s)
    BY DEF LogGrows, TypeOK
<1> QED
    OBVIOUS

(* The day's md5s of a node only grow, by one at a time.                    *)
LEMMA DayGrows ==
    ASSUME TypeOK, StoredInv, [Next]_vars, NEW n \in Node, IsFiniteSet(DayMd5s(n))
    PROVE  /\ DayMd5s(n) \subseteq DayMd5s(n)'
           /\ IsFiniteSet(DayMd5s(n)')
           /\ Cardinality(DayMd5s(n)) <= Cardinality(DayMd5s(n)')
<1>1. \/ DayMd5s(n)' = DayMd5s(n)
      \/ \E f \in File : DayMd5s(n)' = DayMd5s(n) \cup {f}
    <2>1. CASE UNCHANGED index
        BY <2>1 DEF DayMd5s
    <2>2. ASSUME NEW m \in Node, NEW f \in File, Saves(m, f)
          PROVE  \/ DayMd5s(n)' = DayMd5s(n)
                 \/ DayMd5s(n)' = DayMd5s(n) \cup {f}
        <3>1. PICK info \in Info : index' = [index EXCEPT ![m][f] = info]
            BY <2>2 DEF Saves
        <3>2. info # NoInfo
            OBVIOUS
        <3>3. CASE m = n
            <4>1. \A g \in File : index'[n][g] = IF g = f THEN info ELSE index[n][g]
                BY <3>1, <3>3 DEF TypeOK
            <4> QED
                BY <3>2, <4>1 DEF DayMd5s
        <3>4. CASE m # n
            <4>1. index'[n] = index[n]
                BY <3>1, <3>4 DEF TypeOK
            <4> QED
                BY <4>1 DEF DayMd5s
        <3> QED
            BY <3>3, <3>4
    <2>3. ASSUME NEW m \in Node, NEW f \in File, Drops(m, f)
          PROVE  DayMd5s(n)' = DayMd5s(n)
        <3>1. index[m][f] = NoInfo
            BY <2>3 DEF Drops, StoredInv, IndexedIsStored
        <3>2. index' = index
            BY <2>3, <3>1 DEF Drops, TypeOK
        <3> QED
            BY <3>2 DEF DayMd5s
    <2> QED
        BY <2>1, <2>2, <2>3, StepEffect DEF Effect, Stores
<1>2. DayMd5s(n) \subseteq DayMd5s(n)'
    BY <1>1
<1>3. IsFiniteSet(DayMd5s(n)')
    BY <1>1, FS_AddElement
<1>4. Cardinality(DayMd5s(n)) <= Cardinality(DayMd5s(n)')
    BY <1>2, <1>3, FS_Subset
<1> QED
    BY <1>2, <1>3, <1>4

(* Saving an entry indexes its file, and nothing else: that of an entry of  *)
(* upload or files.                                                         *)
LEMMA SavedDay ==
    ASSUME TypeOK, AllIn(OfContent), NEW n \in Node, ConsumeLog(n), NEW m \in Node
    PROVE  DayMd5s(m)' = IF m = n /\ SavedInLdb(Head(fileLog[n]).kind)
                         THEN DayMd5s(m) \cup {Head(fileLog[n]).file} ELSE DayMd5s(m)
<1> DEFINE entry == Head(fileLog[n])
           f     == entry.file
           saved == IF entry.kind = "upload" THEN post[n][f].info ELSE entry.info
<1>1. fileLog[n] \in Seq(LogEntry) /\ fileLog[n] # <<>>
    BY DEF ConsumeLog, TypeOK
<1>2. entry \in LogEntry /\ 1 \in 1..Len(fileLog[n]) /\ entry = fileLog[n][1]
    BY <1>1, HeadTail
<1>3. f \in File
    BY <1>2 DEF LogEntry
<1>4. <<f, saved>> \in OfContent
    <2>1. <<f, entry.info>> \in OfContent
        BY <1>2 DEF AllIn, QueueIn
    <2> QED
        BY <1>2, <2>1 DEF AllIn, UploadsIn
<1>5. saved.md5 = "content" /\ saved \in Info /\ saved # NoInfo
    BY <1>4 DEF OfContent
<1>6. CASE SavedInLdb(entry.kind)
    <2>1. index' = [index EXCEPT ![n][f] = saved]
        BY <1>5, <1>6 DEF ConsumeLog, SavedInLdb, SaveLogged, SaveInfo
    <2> HIDE DEF saved, f
    <2>2. \A g \in File : index'[m][g] = IF m = n /\ g = f THEN saved ELSE index[m][g]
        BY <1>3, <2>1 DEF TypeOK
    <2>3. DayMd5s(m)' = IF m = n THEN DayMd5s(m) \cup {f} ELSE DayMd5s(m)
        BY <1>3, <1>5, <2>2 DEF DayMd5s
    <2> QED
        BY <1>6, <2>3 DEF f
<1>7. CASE ~ SavedInLdb(entry.kind)
    <2>1. index' = index
        BY <1>7 DEF ConsumeLog
    <2> QED
        BY <1>7, <2>1 DEF DayMd5s
<1> QED
    BY <1>6, <1>7

(* The invariant at a node where the step changes none of what it names.    *)
LEMMA CountSame ==
    ASSUME TypeOK, CountInv, NEW m \in Node, DayMd5s(m)' = DayMd5s(m),
           counted'[m] = counted[m], uncounted'[m] = uncounted[m], CountOf(m)' = CountOf(m),
           CrashesOf(m)' = CrashesOf(m), LogGrows(m)
    PROVE  /\ IsFiniteSet(DayMd5s(m)') /\ uncounted'[m] \subseteq DayMd5s(m)'
           /\ PlaceInv(m)' /\ Accounted(m)'
<1>1. PlaceInv(m) /\ Accounted(m) /\ IsFiniteSet(DayMd5s(m)) /\ uncounted[m] \subseteq DayMd5s(m)
    BY DEF CountInv
<1>2. counted[m] # "no" => fileLog'[m] # <<>> /\ Head(fileLog'[m]) = Head(fileLog[m])
    BY <1>1, HeadStays DEF PlaceInv
<1>3. PlaceInv(m)'
    BY <1>1, <1>2 DEF PlaceInv
<1>4. InHand(m)' = InHand(m)
    BY <1>2 DEF InHand
<1>5. CountedFiles(m)' = CountedFiles(m)
    BY <1>4 DEF CountedFiles
<1> QED
    BY <1>1, <1>3, <1>5 DEF Accounted

(* The day's md5s, and so those of them that are counted, are finitely many.*)
LEMMA CountedFinite ==
    ASSUME CountInv, NEW n \in Node
    PROVE  IsFiniteSet(CountedFiles(n)) /\ Cardinality(CountedFiles(n)) \in Nat
<1>1. IsFiniteSet(InHand(n))
    BY FS_Singleton, FS_EmptySet DEF InHand
<1>2. IsFiniteSet(DayMd5s(n) \cup InHand(n))
    BY <1>1, FS_Union DEF CountInv
<1>3. IsFiniteSet(CountedFiles(n))
    BY <1>2, FS_Subset DEF CountedFiles
<1> QED
    BY <1>3, FS_CardinalityType

(* A crash takes what was counted and not saved: one file at most.          *)
LEMMA CrashCount ==
    ASSUME RepairTypeOK, CountInv, NEW n \in Node, CrashWithRepair(n), NEW m \in Node
    PROVE  /\ IsFiniteSet(DayMd5s(m)') /\ uncounted'[m] \subseteq DayMd5s(m)'
           /\ PlaceInv(m)' /\ Accounted(m)'
<1>0. /\ TypeOK /\ count \in [Node -> Nat \cup {None}]
      /\ counted \in [Node -> {"no", "passed", "added"}] /\ uncounted \in [Node -> SUBSET File]
      /\ IsFiniteSet(DayMd5s(m)) /\ uncounted[m] \subseteq DayMd5s(m)
      /\ PlaceInv(m) /\ Accounted(m)
    BY DEF RepairTypeOK, CountInv
<1>1. /\ DayMd5s(m)' = DayMd5s(m) /\ crashes' = Append(crashes, n)
      /\ counted' = [counted EXCEPT ![n] = "no"] /\ fileLog' = [fileLog EXCEPT ![n] = <<>>]
      /\ StatKept(n) \/ StatTorn(n)
    BY DEF CrashWithRepair, Crash, stable, DayMd5s
<1>2. CASE m # n
    <2>1. counted'[m] = counted[m] /\ uncounted'[m] = uncounted[m] /\ count'[m] = count[m]
        BY <1>0, <1>1, <1>2 DEF StatKept, StatTorn
    <2>2. CrashesOf(m)' = CrashesOf(m)
        BY <1>0, <1>1, <1>2, CrashCounts
    <2>3. LogGrows(m)
        BY <1>0, <1>1, <1>2 DEF LogGrows, TypeOK
    <2> QED
        BY <1>0, <1>1, <2>1, <2>2, <2>3, CountSame DEF CountOf
<1>3. CASE m = n
    <2>1. counted'[n] = "no" /\ InHand(n)' = {} /\ CrashesOf(n)' = CrashesOf(n) + 1
        BY <1>0, <1>1, CrashCounts DEF InHand
    <2>2. PlaceInv(n)'
        BY <2>1 DEF PlaceInv
    <2>3. CrashesOf(n) \in Nat
        BY <1>0, CrashTypes
    <2>4. CASE StatTorn(n)
        <3>1. uncounted'[n] = DayMd5s(n) /\ CountOf(n)' = 0
            BY <1>0, <2>4 DEF StatTorn, CountOf
        <3>2. CountedFiles(n)' = {}
            BY <1>1, <1>3, <2>1, <3>1 DEF CountedFiles
        <3>3. Accounted(n)'
            BY <2>1, <2>3, <3>1, <3>2, FS_EmptySet DEF Accounted
        <3> QED
            BY <1>0, <1>1, <1>3, <2>2, <3>1, <3>3
    <2>5. CASE StatKept(n)
        <3>1. uncounted' = uncounted /\ CountOf(n)' = CountOf(n)
            BY <2>5 DEF StatKept, CountOf
        <3>2. CountedFiles(n)' = DayMd5s(n) \ uncounted[n]
            BY <1>1, <1>3, <2>1, <3>1 DEF CountedFiles
        <3>3. PICK f : CountedFiles(n) \ {f} = CountedFiles(n)' \ {f}
            <4>1. InHand(n) = {} \/ \E f : InHand(n) = {f}
                BY DEF InHand
            <4> QED
                BY <3>2, <4>1 DEF CountedFiles
        <3>4. CountedFiles(n)' \subseteq CountedFiles(n)
              /\ CountedFiles(n) \subseteq CountedFiles(n)' \cup {f}
            BY <3>2, <3>3 DEF CountedFiles
        <3>5. IsFiniteSet(CountedFiles(n)) /\ Cardinality(CountedFiles(n)) \in Nat
            BY CountedFinite
        <3>6. /\ IsFiniteSet(CountedFiles(n)')
              /\ Cardinality(CountedFiles(n)') \in Nat
              /\ Cardinality(CountedFiles(n)') <= Cardinality(CountedFiles(n))
            BY <3>4, <3>5, FS_Subset, FS_CardinalityType
        <3>7. Cardinality(CountedFiles(n)) <= Cardinality(CountedFiles(n)') + 1
            <4>1. /\ IsFiniteSet(CountedFiles(n)' \cup {f})
                  /\ Cardinality(CountedFiles(n)' \cup {f}) <= Cardinality(CountedFiles(n)') + 1
                <5> DEFINE C == CountedFiles(n)'
                <5>1. IsFiniteSet(C) /\ Cardinality(C) \in Nat
                    BY <3>6
                <5> HIDE DEF C
                <5>2. /\ IsFiniteSet(C \cup {f})
                      /\ Cardinality(C \cup {f}) = Cardinality(C)
                            \/ Cardinality(C \cup {f}) = Cardinality(C) + 1
                    BY <5>1, FS_AddElement
                <5>3. IsFiniteSet(C \cup {f}) /\ Cardinality(C \cup {f}) <= Cardinality(C) + 1
                    BY <5>1, <5>2
                <5> QED
                    BY <5>3 DEF C
            <4>2. Cardinality(CountedFiles(n)) <= Cardinality(CountedFiles(n)' \cup {f})
                BY <3>4, <4>1, FS_Subset
            <4>3. Cardinality(CountedFiles(n)' \cup {f}) \in Nat
                BY <4>1, FS_CardinalityType
            <4> QED
                BY <3>5, <3>6, <4>1, <4>2, <4>3
        <3>8. CountOf(n) \in Nat
            BY <1>0 DEF CountOf
        <3>9. Accounted(n)'
            <4>1. /\ Cardinality(CountedFiles(n)) <= CountOf(n)
                  /\ CountOf(n) <= Cardinality(CountedFiles(n)) + CrashesOf(n)
                BY <1>0, <1>3 DEF Accounted
            <4>2. /\ Cardinality(CountedFiles(n)') <= CountOf(n)
                  /\ CountOf(n) <= Cardinality(CountedFiles(n)') + (CrashesOf(n) + 1)
                BY <2>3, <3>5, <3>6, <3>7, <3>8, <4>1
            <4> QED
                BY <2>1, <3>1, <4>2 DEF Accounted
        <3> QED
            BY <1>0, <1>1, <1>3, <2>2, <3>1, <3>9
    <2> QED
        BY <1>1, <1>3, <2>4, <2>5
<1> QED
    BY <1>2, <1>3

(* Counting an entry and saving it.                                         *)
LEMMA ConsumerCount ==
    ASSUME RepairTypeOK, AllIn(OfContent), CountInv, NEW n \in Node,
           CountLog(n) \/ SaveLog(n), NEW m \in Node
    PROVE  /\ IsFiniteSet(DayMd5s(m)') /\ uncounted'[m] \subseteq DayMd5s(m)'
           /\ PlaceInv(m)' /\ Accounted(m)'
<1> DEFINE entry == Head(fileLog[n])
<1>0. /\ TypeOK /\ count \in [Node -> Nat \cup {None}]
      /\ counted \in [Node -> {"no", "passed", "added"}] /\ uncounted \in [Node -> SUBSET File]
      /\ \A x \in Node : IsFiniteSet(DayMd5s(x)) /\ uncounted[x] \subseteq DayMd5s(x)
                         /\ PlaceInv(x) /\ Accounted(x)
    BY DEF RepairTypeOK, CountInv
<1>1. fileLog[n] \in Seq(LogEntry) /\ fileLog[n] # <<>>
    BY <1>0 DEF TypeOK, CountLog, SaveLog, ConsumeLog
<1>2. entry \in LogEntry
    BY <1>1, HeadTail
<1>3. entry.file \in File
    BY <1>2 DEF LogEntry
<1>4. uncounted' = uncounted /\ crashes' = crashes
    BY DEF CountLog, SaveLog, ConsumeLog, vars, env
<1>5. CASE m # n
    <2>1. counted'[m] = counted[m] /\ count'[m] = count[m] /\ LogGrows(m)
        BY <1>0, <1>5 DEF CountLog, SaveLog, ConsumeLog, LogGrows, TypeOK, vars, chans
    <2>2. DayMd5s(m)' = DayMd5s(m)
        <3>1. CASE CountLog(n)
            BY <3>1 DEF CountLog, vars, stable, DayMd5s
        <3>2. CASE SaveLog(n)
            BY <1>0, <1>5, <3>2, SavedDay DEF SaveLog
        <3> QED
            BY <3>1, <3>2
    <2> QED
        BY <1>0, <1>4, <2>1, <2>2, CountSame DEF CountOf, CrashesOf
<1>6. CASE m = n /\ CountLog(n)
    <2>1. DayMd5s(n)' = DayMd5s(n) /\ fileLog' = fileLog /\ counted[n] = "no"
        BY <1>6 DEF CountLog, vars, stable, chans, DayMd5s
    <2>2. CountedFiles(n) = DayMd5s(n) \ uncounted[n]
        BY <2>1 DEF CountedFiles, InHand
    <2>3. CASE Counts(n, entry)
        <3>1. /\ counted'[n] = "added" /\ SavedInLdb(entry.kind)
              /\ entry.file \notin DayMd5s(n)
              /\ count'[n] = IF count[n] = None THEN 1 ELSE count[n] + 1
            BY <1>0, <1>6, <2>3 DEF CountLog, Counts, DayMd5s
        <3>2. entry.file \notin uncounted[n]
            BY <1>0, <3>1
        <3>3. CountOf(n)' = CountOf(n) + 1 /\ CountOf(n) \in Nat
            BY <1>0, <3>1 DEF CountOf
        <3>4. /\ CountedFiles(n)' = CountedFiles(n) \cup {entry.file}
              /\ entry.file \notin CountedFiles(n)
            BY <1>4, <2>1, <2>2, <3>1, <3>2 DEF CountedFiles, InHand
        <3>5. Cardinality(CountedFiles(n)') = Cardinality(CountedFiles(n)) + 1
            BY <3>4, CountedFinite, FS_AddElement
        <3>6. Accounted(n)'
            <4>1. Accounted(n) /\ CrashesOf(n) \in Nat /\ Cardinality(CountedFiles(n)) \in Nat
                BY <1>0, CrashTypes, CountedFinite
            <4> QED
                BY <1>4, <3>3, <3>5, <4>1 DEF Accounted, CrashesOf
        <3>7. PlaceInv(n)'
            BY <1>1, <1>3, <1>4, <2>1, <3>1, <3>2 DEF PlaceInv
        <3> QED
            BY <1>0, <1>4, <1>6, <2>1, <3>6, <3>7
    <2>4. CASE ~ Counts(n, entry)
        <3>1. counted'[n] = "passed" /\ count' = count
            BY <1>0, <1>6, <2>4 DEF CountLog
        <3>2. SavedInLdb(entry.kind) => entry.file \in DayMd5s(n)
            BY <1>3, <2>4 DEF Counts, DayMd5s
        <3>3. PlaceInv(n)'
            BY <1>1, <2>1, <3>1, <3>2 DEF PlaceInv
        <3>4. CountedFiles(n)' = CountedFiles(n)
            BY <1>4, <2>1, <2>2, <3>1 DEF CountedFiles, InHand
        <3>5. Accounted(n)'
            BY <1>0, <1>4, <3>1, <3>4 DEF Accounted, CountOf, CrashesOf
        <3> QED
            BY <1>0, <1>4, <1>6, <2>1, <3>3, <3>5
    <2> QED
        BY <2>3, <2>4
<1>7. CASE m = n /\ SaveLog(n)
    <2>1. counted[n] # "no" /\ counted'[n] = "no" /\ count' = count /\ ConsumeLog(n)
        BY <1>0, <1>7 DEF SaveLog
    <2>2. DayMd5s(n)' = IF SavedInLdb(entry.kind) THEN DayMd5s(n) \cup {entry.file}
                                                  ELSE DayMd5s(n)
        BY <1>0, <2>1, SavedDay
    <2>3. IsFiniteSet(DayMd5s(n)') /\ uncounted'[n] \subseteq DayMd5s(n)'
        <3>1. IsFiniteSet(DayMd5s(n)) /\ uncounted[n] \subseteq DayMd5s(n)
            BY <1>0
        <3>2. IsFiniteSet(DayMd5s(n) \cup {entry.file})
            BY <3>1, FS_AddElement
        <3> QED
            BY <1>4, <2>2, <3>1, <3>2
    <2>4. PlaceInv(n)'
        BY <2>1 DEF PlaceInv
    <2>5. PlaceInv(n)
        BY <1>0
    <2>6. CountedFiles(n)' = CountedFiles(n)
        <3>1. CASE counted[n] = "added"
            BY <1>4, <2>1, <2>2, <2>5, <3>1 DEF PlaceInv, CountedFiles, InHand
        <3>2. CASE counted[n] = "passed"
            BY <1>4, <2>1, <2>2, <2>5, <3>2 DEF PlaceInv, CountedFiles, InHand
        <3> QED
            BY <1>0, <2>1, <3>1, <3>2
    <2>7. Accounted(n)'
        BY <1>0, <1>4, <2>1, <2>6 DEF Accounted, CountOf, CrashesOf
    <2> QED
        BY <1>7, <2>3, <2>4, <2>7
<1> QED
    BY <1>5, <1>6, <1>7

(* What a post goroutine saves first is noted as not to be counted, unless  *)
(* it has just been counted.                                                *)
LEMMA PostCount ==
    ASSUME RepairTypeOK, RepairTypeOK', ReplicationInv, CountInv, NEW n \in Node,
           ReplicationStep(n), NEW m \in Node
    PROVE  /\ IsFiniteSet(DayMd5s(m)') /\ uncounted'[m] \subseteq DayMd5s(m)'
           /\ PlaceInv(m)' /\ Accounted(m)'
<1>0. /\ TypeOK /\ TypeOK' /\ StoredInv
      /\ IsFiniteSet(DayMd5s(m)) /\ uncounted[m] \subseteq DayMd5s(m)
      /\ PlaceInv(m) /\ Accounted(m)
    BY DEF RepairTypeOK, ReplicationInv, CountInv
<1>1. LogGrows(m) /\ crashes' = crashes /\ [Next]_vars
    BY <1>0, LogOnlyGrows
<1>2. /\ uncounted'[m] = uncounted[m] \cup (DayMd5s(m)' \ (DayMd5s(m) \cup InHand(m)))
      /\ counted' = counted /\ count' = count
    BY DEF ReplicationStep
<1>3. DayMd5s(m) \subseteq DayMd5s(m)' /\ IsFiniteSet(DayMd5s(m)')
    BY <1>0, <1>1, DayGrows
<1>4. counted[m] # "no" => /\ fileLog[m] # <<>> /\ fileLog'[m] # <<>>
                           /\ Head(fileLog'[m]) = Head(fileLog[m])
    BY <1>0, <1>1, HeadStays DEF PlaceInv
<1>5. InHand(m)' = InHand(m)
    BY <1>2, <1>4 DEF InHand
<1>6. InHand(m) \cap uncounted[m] = {}
    BY <1>0 DEF InHand, PlaceInv
<1>7. CountedFiles(m)' = CountedFiles(m)
    BY <1>0, <1>2, <1>3, <1>5, <1>6 DEF CountedFiles
<1>8. Accounted(m)'
    BY <1>0, <1>1, <1>2, <1>7 DEF Accounted, CountOf, CrashesOf
<1>9. PlaceInv(m)'
    <2>1. counted[m] = "added" => Head(fileLog[m]).file \notin uncounted'[m]
        BY <1>0, <1>2 DEF PlaceInv, InHand
    <2> QED
        BY <1>0, <1>2, <1>3, <1>4, <2>1 DEF PlaceInv
<1> QED
    BY <1>0, <1>2, <1>3, <1>8, <1>9

LEMMA NextCountInv ==
    RepairTypeOK /\ RepairTypeOK' /\ ReplicationInv /\ AllIn(OfContent) /\ CountInv
        /\ [RepairNext]_<<vars, repairing>> => CountInv'
<1> SUFFICES ASSUME RepairTypeOK, RepairTypeOK', ReplicationInv, AllIn(OfContent), CountInv,
                    [RepairNext]_<<vars, repairing>>, NEW m \in Node
             PROVE  /\ IsFiniteSet(DayMd5s(m)') /\ uncounted'[m] \subseteq DayMd5s(m)'
                    /\ PlaceInv(m)' /\ Accounted(m)'
    BY DEF CountInv
<1>0. TypeOK /\ TypeOK' /\ count \in [Node -> Nat \cup {None}]
    BY DEF RepairTypeOK
<1> DEFINE Here == /\ IsFiniteSet(DayMd5s(m)') /\ uncounted'[m] \subseteq DayMd5s(m)'
                   /\ PlaceInv(m)' /\ Accounted(m)'
<1>1. ASSUME UNCHANGED <<index, crashes, counted, uncounted>>, CountOf(m)' = CountOf(m),
             LogGrows(m)
      PROVE  Here
    BY <1>0, <1>1, CountSame DEF DayMd5s, CrashesOf
<1>2. ASSUME NEW n \in Node, UploadStep(n) PROVE Here
    <2>1. UNCHANGED <<index, crashes, counted, uncounted, count>> /\ LogGrows(m)
        BY <1>0, <1>2, LogOnlyGrows DEF UploadStep, Upload, counting
    <2> QED
        BY <1>1, <2>1 DEF CountOf
<1>3. ASSUME NEW n \in Node, RestartWithStat(n) PROVE Here
    <2>1. UNCHANGED <<index, crashes, counted, uncounted, fileLog>>
        BY <1>3 DEF RestartWithStat, Restart, stable, chans, env, counting
    <2>2. CountOf(m)' = CountOf(m)
        BY <1>0, <1>3 DEF RestartWithStat, CountOf
    <2> QED
        BY <1>1, <2>1, <2>2 DEF LogGrows
<1>4. ASSUME NEW n \in Node, OfRepair(n), ~ CountLog(n) PROVE Here
    <2>1. UNCHANGED <<index, crashes, fileLog>>
        BY <1>4, RepairEffect DEF Apart, stable
    <2>2. UNCHANGED <<count, counted, uncounted>>
        BY <1>4 DEF OfRepair, RepairStep, RepairStart, RepairStat, RepairSync, RepairDiff,
                    RepairGive, RepairSend, Resend, ResendForced, counting
    <2> QED
        BY <1>1, <2>1, <2>2 DEF LogGrows, CountOf
<1>5. CASE UNCHANGED <<vars, repairing>>
    BY <1>1, <1>5 DEF vars, stable, chans, env, repairing, counting, LogGrows, CountOf
<1>6. \A n \in Node : OfReplication(n) \/ CountLog(n) => Here
    BY <1>2, <1>3, CrashCount, ConsumerCount, PostCount DEF OfReplication
<1> QED
    BY <1>4, <1>5, <1>6, RepairSteps

(* The count that repairs compare is, up to the file just being saved, the  *)
(* number of files the node indexes without those that it could not count:  *)
(* in whatever order the log consumer and the post goroutines save a file,  *)
(* it is counted once or noted, and each crash leaves at most one more      *)
(* counted than saved.                                                      *)
THEOREM CountCorrect == RepairSpec => []CountAccounted
<1>1. RepairInit => CountInv
    <2> SUFFICES ASSUME RepairInit, NEW n \in Node
                 PROVE  /\ IsFiniteSet(DayMd5s(n)) /\ uncounted[n] \subseteq DayMd5s(n)
                        /\ PlaceInv(n) /\ Accounted(n)
        BY DEF CountInv
    <2>1. DayMd5s(n) = {} /\ counted[n] = "no" /\ uncounted[n] = {} /\ CountOf(n) = 0
        BY DEF RepairInit, Init, DayMd5s, CountOf
    <2>2. CountedFiles(n) = {}
        BY <2>1 DEF CountedFiles, InHand
    <2>3. CrashesOf(n) \in Nat
        BY CrashTypes, InitTypeOK DEF RepairInit
    <2> QED
        BY <2>1, <2>2, <2>3, FS_EmptySet DEF PlaceInv, Accounted
<1>2. CountInv => CountAccounted
    BY DEF CountInv, Accounted, CountAccounted
<1> QED
    BY <1>1, <1>2, NextCountInv, RepairTypeCorrect, ReplicationInvCorrect, ContentCorrect, PTL
    DEF RepairSpec

-----------------------------------------------------------------------------
(* OneRoundRepairs, of groups in which every node has all others as peers   *)
(* and has counted from the start.  Open is the round from its second       *)
(* repair on: the first has found all nodes up, so that from then on none   *)
(* is down, no message is lost and nothing of before is under way.          *)
AllPeers == \A n \in Node : Peers[n] = Node \ {n}
Counting == \A n \in Node : count[n] # None

Open == \E n, m \in begun : n # m

(* m has the file, or will not run out of attempts to get it.               *)
Coming(m, f) == f \in disk[m] \/ UnderWay(m, f, RetryCount - 1)

(* A goroutine of postFileToPeer has still to come to m, with attempts left.*)
ToReach(n, t, m) ==
    post[n][t].pc # "off" /\ m \in post[n][t].todo /\ ~ Contains(m, post[n][t].info.peers)
Sender(m, f) == \E n \in Node, t \in Poster :
    ToReach(n, t, m) /\ post[n][t].file = f /\ post[n][t].info.retry < RetryCount

Reached(m, f, info) == Contains(m, info.peers) \/ Coming(m, f) \/ Sender(m, f)
ReachedBut(n, f, info) == \A m \in Node \ {n} : Reached(m, f, info)

(* n itself is to post the file to m, or to queue it.                       *)
OnWay(n, m, f) ==
    \/ \E t \in Poster : post[n][t].file = f /\ ToReach(n, t, m)
    \/ \E i \in 1..Len(toPeers[n]) :
          toPeers[n][i].file = f /\ ~ Contains(m, toPeers[n][i].info.peers)

ToVisit(n, p) ==
    /\ repair[n].force /\ p \in repair[n].todo
    /\ repair[n].pc \in {"stat", "diff"} \/ p # repair[n].peer
Told(n, p, f) ==
    \/ repair[n].peer = p /\ repair[n].pc \in {"give", "send"} /\ f \in repair[n].send
    \/ repair[p].peer = n /\ repair[p].pc = "give" /\ f \in repair[p].give
    \/ f \in resend[n]
Pending(n, p, f) == ToVisit(n, p) \/ ToVisit(p, n) \/ Told(n, p, f)

(* A node that is down keeps a round from going on.                         *)
AliveInv == \A n \in begun :
    alive[n] /\ \A p \in Node \ {n} : alive[p] \/ ToVisit(n, p)

(* Nobody asks for sync, and no client for files that are missing.          *)
PlainRun(run) == run.pc # "sync" /\ (run.pc = "off" => run.todo = {})
PlainInv == /\ Counting
            /\ \A n \in Node : forced[n] = {} /\ PlainRun(repair[n])
            /\ \A n \in Node, d \in Getter : get[n][d].pc # "found"

Quiet == \A n \in Node : alive[n] /\ \A f \in File : toLoad[n][f] = NoInfo

(* Of the goroutines and the channels.                                      *)
InRound(n, job) ==
    /\ job.file \in disk[n]
    /\ \A m \in Node \ {n} : Contains(m, job.info.peers) \/ m \in job.todo
    /\ job.pc = "reply" => /\ job.result = "ok"
                           /\ job.info.retry < RetryCount => Coming(job.to, job.file)
PostRound == \A n \in Node, t \in Poster : post[n][t].pc # "off" => InRound(n, post[n][t])

RoundSend == [n \in Node |-> {job \in JobEntry : job.file \in disk[n]}]
RoundGet  == [n \in Node |-> {job \in JobEntry : job.info.retry < RetryCount =>
                                 ReachedBut(n, job.file, job.info)}]
RoundLog  == [n \in Node |-> {entry \in LogEntry :
                /\ entry.kind # "upload"
                /\ entry.kind = "files" => ReachedBut(n, entry.file, entry.info)}]
QueueRound ==
    Carries(toPeers, RoundSend) /\ Carries(fromPeers, RoundGet) /\ Carries(fileLog, RoundLog)
GetRound == \A n \in Node, d \in Getter :
    get[n][d].pc # "off" => ReachedBut(n, get[n][d].file, get[n][d].info)

IndexRound == \A n, m \in begun, f \in File :
    n # m /\ index[n][f] # NoInfo =>
       Reached(m, f, index[n][f]) \/ OnWay(n, m, f) \/ Pending(n, m, f)

RoundInv == /\ PlainInv /\ AliveInv
            /\ Open => Quiet /\ PostRound /\ QueueRound /\ GetRound /\ IndexRound

(* The state of replication in an open round, and the steps that are left.  *)
NoneFound == \A n \in Node, d \in Getter : get[n][d].pc # "found"
Going == /\ TypeOK /\ StoredInv /\ SourceInv /\ NoneFound
         /\ Quiet /\ PostRound /\ QueueRound /\ GetRound

PostsOn(n, t) ==
    \/ PostTake(n, t) \/ PostDelivered(n, t) \/ PostOk(n, t)
    \/ \E p \in Node : PostSkip(n, t, p) \/ PostFound(n, t, p) \/ PostAbsent(n, t, p)
GetsOn(n, d) == GetTake(n, d) \/ GetLock(n, d) \/ GetAnswered(n, d)
RoundStep(n) == \/ \E f \in File : ResendError(n, f)
                \/ \E t \in Poster : PostsOn(n, t)
                \/ \E d \in Getter : GetsOn(n, d)
                \/ ConsumeLog(n)

LEMMA RoundSteps ==
    ASSUME Going, NEW n \in Node, ReplicationStep(n) \/ SaveLog(n), faults' = faults
    PROVE  RoundStep(n)
<1>1. ~ Fault /\ \A m \in Node : alive[m]
    BY DEF Fault, Going, TypeOK, Quiet
<1>2. \A f \in File : ~ LoadQueue(n, f)
    BY DEF Going, Quiet, LoadQueue
<1>3. ASSUME NEW t \in Poster, PostStep(n, t) PROVE PostsOn(n, t)
    <2>1. ~ PostLost(n, t)
        BY <1>1, PostType DEF PostLost, Going
    <2>2. ~ PostFailed(n, t)
        BY DEF PostFailed, Accepted, Going, PostRound, InRound
    <2> QED
        BY <1>3, <2>1, <2>2 DEF PostStep, PostsOn
<1>4. ASSUME NEW d \in Getter, GetStep(n, d) PROVE GetsOn(n, d)
    <2>1. ~ GetStart(n, d)
        BY DEF GetStart, Going, NoneFound
    <2>2. ~ GetFailed(n, d)
        BY <1>1, GetType DEF GetFailed, Going
    <2> QED
        BY <1>4, <2>1, <2>2 DEF GetStep, GetsOn
<1> QED
    BY <1>2, <1>3, <1>4 DEF ReplicationStep, SaveLog, RoundStep

(* They are steps of Replication that kill nobody.                          *)
LEMMA RoundIsStep ==
    ASSUME Going, TypeOK', NEW n \in Node, RoundStep(n)
    PROVE  [Next]_vars /\ alive' = alive /\ \A m \in Node : disk[m] \subseteq disk'[m]
<1>1. [Next]_vars
    BY DEF RoundStep, PostsOn, GetsOn, Next, PostStep, GetStep
<1>2. alive' = alive
    BY DEF RoundStep, PostsOn, GetsOn, ResendError, ConsumeLog, PostTake, PostDelivered, PostOk,
           PostSkip, PostFound, PostAbsent, GetTake, GetLock, GetAnswered
<1> QED
    BY <1>1, <1>2, StepEffect, EffectKeeps DEF Going, StoredInv

(* What is coming, comes.                                                   *)
LEMMA ComingKept ==
    ASSUME Going, TypeOK', NEW n \in Node, RoundStep(n), faults' = faults,
           NEW m \in Node, NEW f \in File, Coming(m, f)
    PROVE  Coming(m, f)'
<1>1. /\ [Next]_vars /\ alive' = alive /\ disk[m] \subseteq disk'[m]
      /\ \A p \in Node : alive[p]
    BY RoundIsStep DEF Going, Quiet
<1>2. PICK k \in Nat : k = RetryCount - 1
    OBVIOUS
<1>3. ~ Fault /\ k < RetryCount /\ k <= k
    BY <1>2 DEF Fault, Going, TypeOK
<1>4. CASE f \in disk'[m]
    BY <1>4 DEF Coming
<1>5. CASE f \notin disk'[m]
    <2>1. UnderWay(m, f, k)
        BY <1>1, <1>2, <1>5 DEF Coming
    <2>2. UnderWay(m, f, k)'
        BY <1>1, <1>3, <1>5, <2>1, UnderWayStays DEF Going
    <2> QED
        BY <1>2, <2>2 DEF Coming, UnderWay, Loading, Waiting, Running
<1> QED
    BY <1>4, <1>5

(* The loop of postFileToPeer, a peer further.                              *)
LEMMA Advanced ==
    ASSUME NEW n \in Node, NEW job \in PostState, NEW p, NEW info
    PROVE  LET new == Advance(n, job, p, info) IN
           /\ new.file = job.file /\ new.info = info /\ new.todo = job.todo \ {p}
           /\ new.pc \in {"off", "peer"} /\ (new.todo # {} => new.pc = "peer")
    BY DEF Advance, NewPost, PostState

(* Who is listed once a peer was added.                                     *)
LEMMA AddedPeer ==
    ASSUME NEW info \in Info, NEW p \in Node
    PROVE  /\ AddPeer(info, p) \in Info /\ AddPeer(info, p).retry = info.retry
           /\ \A m \in Node : Contains(m, AddPeer(info, p).peers)
                                 <=> Contains(m, info.peers) \/ m = p
<1> DEFINE more == AddPeer(info, p)
<1>1. /\ info.peers \in Seq(Node) /\ more \in Info
      /\ more.peers = Append(info.peers, p) /\ more.retry = info.retry
    <2>1. more \in Info
        BY InfoType
    <2> QED
        BY <2>1 DEF AddPeer, Info
<1>2. \A i \in 1..Len(info.peers) : i \in 1..Len(more.peers) /\ more.peers[i] = info.peers[i]
    BY <1>1
<1>3. Len(more.peers) \in 1..Len(more.peers) /\ more.peers[Len(more.peers)] = p
    BY <1>1
<1>4. \A i \in 1..Len(more.peers) :
          (i \in 1..Len(info.peers) /\ more.peers[i] = info.peers[i]) \/ more.peers[i] = p
    BY <1>1
<1> QED
    BY <1>1, <1>2, <1>3, <1>4 DEF Contains

(* What a step does to one goroutine of postFileToPeer, n's t, in a round.  *)
LEMMA PostMoves ==
    ASSUME Going, NEW n \in Node, NEW t \in Poster, PostsOn(n, t), faults' = faults
    PROVE  LET job == post[n][t] IN
           \E new \in PostState :
              /\ post' = [post EXCEPT ![n][t] = new]
              /\ \/ /\ PostTake(n, t) /\ job.pc = "off"
                    /\ new = NewPost(n, Head(toPeers[n]).file, Head(toPeers[n]).info, Peers[n])
                 \/ /\ job.pc # "off" /\ ~ PostTake(n, t)
                    /\ new.file = job.file
                    /\ \/ /\ new.pc = "send" \/ (/\ PostDelivered(n, t) /\ new.to = job.to
                                               /\ new.pc = "reply" /\ new.result = "ok")
                          /\ new.todo = job.todo /\ new.info = job.info
                       \/ \E p \in Node : /\ PostSkip(n, t, p)
                                          /\ new = Advance(n, job, p, job.info)
                       \/ \E p \in Node :
                             /\ PostFound(n, t, p) \/ (PostOk(n, t) /\ p = job.to)
                             /\ new = Advance(n, job, p, AddPeer(job.info, p))
                             /\ index' = [index EXCEPT ![n][job.file] = AddPeer(job.info, p)]
<1> DEFINE job == post[n][t]
<1>1. /\ job \in PostState /\ job.file \in File /\ job.info \in Info /\ job.to \in Node
      /\ job.todo \in SUBSET Node /\ ~ Fault
    BY PostType DEF Going, Fault, TypeOK
<1>2. \A info \in Info, p \in Node : Advance(n, job, p, info) \in PostState
    BY <1>1, StateType DEF Advance
<1>3. CASE PostTake(n, t)
    <2>1. toPeers[n] \in Seq(JobEntry) /\ toPeers[n] # <<>>
        BY <1>3 DEF PostTake, Going, TypeOK
    <2>2. Head(toPeers[n]) \in JobEntry
        BY <2>1, HeadTail
    <2>3. NewPost(n, Head(toPeers[n]).file, Head(toPeers[n]).info, Peers[n]) \in PostState
        BY <2>2, StateType DEF JobEntry
    <2> QED
        BY <1>3, <2>3 DEF PostTake
<1>4. ASSUME NEW p \in Node, PostSkip(n, t, p)
      PROVE  /\ job.pc # "off" /\ ~ PostTake(n, t)
             /\ post' = [post EXCEPT ![n][t] = Advance(n, job, p, job.info)]
             /\ Advance(n, job, p, job.info) \in PostState
             /\ Advance(n, job, p, job.info).file = job.file
    BY <1>1, <1>2, <1>4, Advanced DEF PostSkip, PostTake
<1>5. ASSUME NEW p \in Node, PostFound(n, t, p) \/ (PostOk(n, t) /\ p = job.to)
      PROVE  /\ job.pc # "off" /\ ~ PostTake(n, t)
             /\ post' = [post EXCEPT ![n][t] = Advance(n, job, p, AddPeer(job.info, p))]
             /\ index' = [index EXCEPT ![n][job.file] = AddPeer(job.info, p)]
             /\ Advance(n, job, p, AddPeer(job.info, p)) \in PostState
             /\ Advance(n, job, p, AddPeer(job.info, p)).file = job.file
    <2>1. AddPeer(job.info, p) \in Info
        BY <1>1, InfoType
    <2> QED
        BY <1>1, <1>2, <1>5, <2>1, Advanced DEF PostFound, PostOk, SaveInfo, PostTake
<1>6. ASSUME NEW p \in Node, PostAbsent(n, t, p)
      PROVE  /\ job.pc # "off" /\ ~ PostTake(n, t)
             /\ post' = [post EXCEPT ![n][t] = Sending(job, p)]
             /\ Sending(job, p) \in PostState /\ Sending(job, p).file = job.file
             /\ Sending(job, p).pc = "send" /\ Sending(job, p).todo = job.todo
             /\ Sending(job, p).info = job.info
    BY <1>1, <1>6 DEF PostAbsent, PostTake, Sending, PostState
<1>7. CASE PostDelivered(n, t)
    <2>1. /\ job.pc # "off" /\ ~ PostTake(n, t)
          /\ post' = [post EXCEPT ![n][t] = Replied(job, "ok")]
        BY <1>1, <1>7 DEF PostDelivered, PostTake
    <2>2. /\ Replied(job, "ok") \in PostState /\ Replied(job, "ok").file = job.file
          /\ Replied(job, "ok").pc = "reply" /\ Replied(job, "ok").todo = job.todo
          /\ Replied(job, "ok").info = job.info /\ Replied(job, "ok").to = job.to
          /\ Replied(job, "ok").result = "ok"
        BY <1>1 DEF Replied, PostState
    <2> QED
        BY <1>7, <2>1, <2>2
<1> HIDE DEF job
<1>8. CASE PostOk(n, t)
    BY <1>1, <1>5, <1>8 DEF job
<1> QED
    BY <1>3, <1>4, <1>5, <1>6, <1>7, <1>8 DEF PostsOn, job

LEMMA PostMovesAlone ==
    ASSUME Going, NEW n \in Node, NEW t \in Poster, PostsOn(n, t), faults' = faults
    PROVE  \E new \in PostState : post' = [post EXCEPT ![n][t] = new]
    BY PostMoves

(* A goroutine that has still to come to m has, after a step, or has listed *)
(* m in ldb, and m has heard of the file.                                   *)
LEMMA ToReachKept ==
    ASSUME Going, TypeOK', NEW n \in Node, RoundStep(n), faults' = faults,
           NEW x \in Node, NEW t \in Poster, NEW m \in Node \ {x}, ToReach(x, t, m),
           NEW f \in File, post[x][t].file = f
    PROVE  \/ /\ ToReach(x, t, m)' /\ post'[x][t].file = f
              /\ post'[x][t].info.retry = post[x][t].info.retry
           \/ /\ index'[x][f] # NoInfo /\ Contains(m, index'[x][f].peers)
              /\ post[x][t].info.retry < RetryCount => Coming(m, f)'
<1> DEFINE job == post[x][t]
<1>1. /\ job \in PostState /\ job.file = f /\ job.info \in Info /\ job.to \in Node
      /\ job.todo \in SUBSET Node /\ InRound(x, job)
    BY PostType DEF Going, PostRound, ToReach
<1>2. CASE post'[x][t] = post[x][t]
    BY <1>2 DEF ToReach
<1>3. CASE post'[x][t] # post[x][t]
    <2>1. n = x /\ PostsOn(x, t)
        <3>1. CASE ~ \E r \in Poster : PostsOn(n, r)
            <4>1. post' = post
                BY <3>1 DEF RoundStep, GetsOn, ResendError, ConsumeLog, GetTake, GetLock,
                            GetAnswered
            <4> QED
                BY <1>3, <4>1
        <3>2. ASSUME NEW r \in Poster, PostsOn(n, r) PROVE n = x /\ r = t
            <4>1. PICK new \in PostState : post' = [post EXCEPT ![n][r] = new]
                BY <3>2, PostMovesAlone
            <4> QED
                BY <1>3, <4>1 DEF Going, TypeOK
        <3> QED
            BY <3>1, <3>2
    <2>2. PICK new \in PostState :
              /\ post' = [post EXCEPT ![x][t] = new]
              /\ \/ /\ PostTake(x, t) /\ job.pc = "off"
                    /\ new = NewPost(x, Head(toPeers[x]).file, Head(toPeers[x]).info, Peers[x])
                 \/ /\ job.pc # "off" /\ ~ PostTake(x, t)
                    /\ new.file = job.file
                    /\ \/ /\ new.pc \in {"send", "reply"} /\ new.todo = job.todo
                          /\ new.info = job.info
                       \/ \E p \in Node : /\ PostSkip(x, t, p)
                                          /\ new = Advance(x, job, p, job.info)
                       \/ \E p \in Node :
                             /\ PostFound(x, t, p) \/ (PostOk(x, t) /\ p = job.to)
                             /\ new = Advance(x, job, p, AddPeer(job.info, p))
                             /\ index' = [index EXCEPT ![x][job.file] = AddPeer(job.info, p)]
        BY <2>1, PostMoves
    <2>3. post'[x][t] = new
        BY <2>2 DEF Going, TypeOK
    <2>4. /\ job.pc # "off" /\ m \in job.todo /\ ~ Contains(m, job.info.peers)
          /\ job.file \in disk[x]
        BY <1>1 DEF ToReach, InRound
    <2>5. CASE new.pc \in {"send", "reply"} /\ new.todo = job.todo /\ new.info = job.info
               /\ new.file = job.file
        BY <2>3, <2>4, <2>5 DEF ToReach, Contains
    <2>6. ASSUME NEW p \in Node, PostSkip(x, t, p), new = Advance(x, job, p, job.info)
          PROVE  /\ ToReach(x, t, m)' /\ post'[x][t].file = f
                 /\ post'[x][t].info.retry = job.info.retry
        <3>1. p # m
            BY <2>4, <2>6 DEF PostSkip
        <3>2. /\ new.file = job.file /\ new.info = job.info /\ m \in new.todo
              /\ new.pc = "peer"
            BY <1>1, <2>4, <2>6, <3>1, Advanced
        <3> QED
            BY <2>3, <2>4, <3>2 DEF ToReach, Contains
    <2>7. ASSUME NEW p \in Node, PostFound(x, t, p) \/ (PostOk(x, t) /\ p = job.to),
                 new = Advance(x, job, p, AddPeer(job.info, p)),
                 index' = [index EXCEPT ![x][job.file] = AddPeer(job.info, p)]
          PROVE  \/ /\ ToReach(x, t, m)' /\ post'[x][t].file = f
                    /\ post'[x][t].info.retry = job.info.retry
                 \/ /\ index'[x][f] # NoInfo
                    /\ Contains(m, index'[x][f].peers)
                    /\ job.info.retry < RetryCount => Coming(m, f)'
        <3>0. /\ AddPeer(job.info, p) \in Info
              /\ AddPeer(job.info, p).retry = job.info.retry
              /\ \A q \in Node : Contains(q, AddPeer(job.info, p).peers)
                                    <=> Contains(q, job.info.peers) \/ q = p
            BY <1>1, AddedPeer
        <3>1. CASE p # m
            <4>1. /\ new.file = job.file /\ new.info = AddPeer(job.info, p) /\ m \in new.todo
                  /\ new.pc = "peer"
                BY <1>1, <2>4, <2>7, <3>1, Advanced
            <4>2. ~ Contains(m, AddPeer(job.info, p).peers)
                BY <2>4, <3>0, <3>1
            <4>3. ToReach(x, t, m)'
                BY <2>3, <4>1, <4>2 DEF ToReach, Contains
            <4> QED
                BY <1>1, <2>3, <3>0, <4>1, <4>3
        <3>2. CASE p = m
            <4>1. index'[x][f] = AddPeer(job.info, p)
                BY <1>1, <2>7 DEF Going, TypeOK
            <4>2. job.info.retry < RetryCount => Coming(m, f)
                BY <1>1, <2>7, <3>2 DEF PostFound, PostOk, Answers, InRound, Coming
            <4>3. Coming(m, f) => Coming(m, f)'
                BY <1>1, ComingKept
            <4> HIDE DEF job
            <4> QED
                BY <3>0, <3>2, <4>1, <4>2, <4>3 DEF Contains
        <3> QED
            BY <3>1, <3>2
    <2> HIDE DEF job
    <2> QED
        BY <2>2, <2>4, <2>5, <2>6, <2>7 DEF job
<1> QED
    BY <1>2, <1>3

(* So what a FileInfo says, with what goes on, of who gets the file stays.  *)
LEMMA ReachedKept ==
    ASSUME Going, TypeOK', NEW n \in Node, RoundStep(n), faults' = faults,
           NEW f \in File, NEW info \in Info
    PROVE  /\ \A m \in Node : Reached(m, f, info) => Reached(m, f, info)'
           /\ \A x \in Node : ReachedBut(x, f, info) => ReachedBut(x, f, info)'
<1>1. ASSUME NEW m \in Node, Coming(m, f) PROVE Coming(m, f)'
    BY <1>1, ComingKept
<1>2. ASSUME NEW m \in Node, Sender(m, f) PROVE Coming(m, f)' \/ Sender(m, f)'
    <2>1. PICK x \in Node, t \in Poster : /\ ToReach(x, t, m) /\ post[x][t].file = f
                                          /\ post[x][t].info.retry < RetryCount
        BY <1>2 DEF Sender
    <2>2. CASE x = m
        <3>1. f \in disk[m]
            BY <2>1, <2>2 DEF Going, PostRound, InRound, ToReach
        <3> QED
            BY <1>1, <3>1 DEF Coming
    <2>3. CASE x # m
        <3>1. \/ /\ ToReach(x, t, m)' /\ post'[x][t].file = f
                 /\ post'[x][t].info.retry = post[x][t].info.retry
              \/ Coming(m, f)'
            BY <2>1, <2>3, ToReachKept
        <3> QED
            BY <2>1, <3>1 DEF Sender
    <2> QED
        BY <2>2, <2>3
<1>3. \A m \in Node : Reached(m, f, info) => Reached(m, f, info)'
    BY <1>1, <1>2 DEF Reached, Contains
<1> QED
    BY <1>3 DEF ReachedBut

(* The goroutines of postFileToPeer keep to what a round asks of them, ...  *)
LEMMA StepPostRound ==
    ASSUME AllPeers, Going, TypeOK', NEW n \in Node, RoundStep(n), faults' = faults
    PROVE  PostRound'
<1> SUFFICES ASSUME NEW x \in Node, NEW t \in Poster, NEW new \in PostState,
                    new = post'[x][t], new.pc # "off"
             PROVE  InRound(x, new)'
    <2>1. \A x \in Node, t \in Poster : post'[x][t] \in PostState
        BY DEF TypeOK
    <2> QED
        BY <2>1 DEF PostRound, InRound
<1> DEFINE job == post[x][t]
<1>1. /\ job \in PostState /\ job.file \in File /\ job.info \in Info /\ job.to \in Node
      /\ job.todo \in SUBSET Node /\ (job.pc # "off" => InRound(x, job))
    BY PostType DEF Going, PostRound
<1>2. \A y \in Node : disk[y] \subseteq disk'[y]
    BY RoundIsStep
<1>3. CASE new = job
    <2>1. InRound(x, new) /\ new.file \in File /\ new.to \in Node
        BY <1>1, <1>3
    <2>2. Coming(new.to, new.file) => Coming(new.to, new.file)'
        BY <2>1, ComingKept
    <2> QED
        BY <1>2, <2>1, <2>2 DEF InRound
<1>4. CASE new # job
    <2>1. n = x /\ PostsOn(x, t)
        <3>1. CASE ~ \E r \in Poster : PostsOn(n, r)
            <4>1. post' = post
                BY <3>1 DEF RoundStep, GetsOn, ResendError, ConsumeLog, GetTake, GetLock,
                            GetAnswered
            <4> QED
                BY <1>4, <4>1
        <3>2. ASSUME NEW r \in Poster, PostsOn(n, r) PROVE n = x /\ r = t
            <4>1. PICK run \in PostState : post' = [post EXCEPT ![n][r] = run]
                BY <3>2, PostMovesAlone
            <4> QED
                BY <1>4, <4>1 DEF Going, TypeOK
        <3> QED
            BY <3>1, <3>2
    <2>2. \/ /\ PostTake(x, t)
             /\ new = NewPost(x, Head(toPeers[x]).file, Head(toPeers[x]).info, Peers[x])
          \/ /\ job.pc # "off" /\ new.file = job.file
             /\ \/ /\ new.pc = "send" \/ (/\ PostDelivered(x, t) /\ new.to = job.to
                                          /\ new.pc = "reply" /\ new.result = "ok")
                   /\ new.todo = job.todo /\ new.info = job.info
                \/ \E p \in Node : /\ PostSkip(x, t, p)
                                   /\ new = Advance(x, job, p, job.info)
                \/ \E p \in Node : new = Advance(x, job, p, AddPeer(job.info, p))
        <3>1. \A run \in PostState : post' = [post EXCEPT ![x][t] = run] => new = run
            BY DEF Going, TypeOK
        <3>2. PICK run \in PostState :
                /\ post' = [post EXCEPT ![x][t] = run]
                /\ \/ /\ PostTake(x, t) /\ job.pc = "off"
                      /\ run = NewPost(x, Head(toPeers[x]).file, Head(toPeers[x]).info, Peers[x])
                   \/ /\ job.pc # "off" /\ ~ PostTake(x, t)
                      /\ run.file = job.file
                      /\ \/ /\ run.pc = "send" \/ (/\ PostDelivered(x, t) /\ run.to = job.to
                                                 /\ run.pc = "reply" /\ run.result = "ok")
                            /\ run.todo = job.todo /\ run.info = job.info
                         \/ \E p \in Node : /\ PostSkip(x, t, p)
                                            /\ run = Advance(x, job, p, job.info)
                         \/ \E p \in Node :
                               /\ PostFound(x, t, p) \/ (PostOk(x, t) /\ p = job.to)
                               /\ run = Advance(x, job, p, AddPeer(job.info, p))
                               /\ index' = [index EXCEPT ![x][job.file] = AddPeer(job.info, p)]
            BY <2>1, PostMoves
        <3> HIDE DEF job
        <3> QED
            BY <3>1, <3>2
    <2>3. CASE /\ PostTake(x, t)
               /\ new = NewPost(x, Head(toPeers[x]).file, Head(toPeers[x]).info, Peers[x])
        <3>1. toPeers[x] \in Seq(JobEntry) /\ toPeers[x] # <<>>
            BY <2>3 DEF PostTake, Going, TypeOK
        <3>2. 1 \in 1..Len(toPeers[x]) /\ Head(toPeers[x]) = toPeers[x][1]
            BY <3>1
        <3>3. Head(toPeers[x]).file \in disk[x]
            BY <3>2 DEF Going, QueueRound, Carries, RoundSend
        <3>4. new.file \in disk[x] /\ new.todo = Node \ {x} /\ new.pc # "reply"
            BY <2>3, <3>3 DEF NewPost, AllPeers
        <3> QED
            BY <1>2, <3>4 DEF InRound
    <2>4. CASE /\ job.pc # "off" /\ new.file = job.file
               /\ new.todo = job.todo /\ new.info = job.info
               /\ new.pc = "send" \/ (/\ PostDelivered(x, t) /\ new.to = job.to
                                      /\ new.pc = "reply" /\ new.result = "ok")
        <3>1. /\ new.file \in disk'[x]
              /\ \A m \in Node \ {x} : Contains(m, new.info.peers) \/ m \in new.todo
            BY <1>1, <1>2, <2>4 DEF InRound
        <3>2. ASSUME new.pc = "reply", new.info.retry < RetryCount
              PROVE  Coming(new.to, new.file)'
            <4>1. fromPeers[job.to] \in Seq(JobEntry)
                BY <1>1 DEF Going, TypeOK
            <4>2. fromPeers'[job.to] = Append(fromPeers[job.to], Job(job.file, job.info))
                <5>1. fromPeers' = [fromPeers EXCEPT ![job.to] = Append(@, Job(job.file, job.info))]
                    BY <2>4, <3>2 DEF PostDelivered
                <5> QED
                    BY <1>1, <5>1 DEF Going, TypeOK
            <4>3. Len(fromPeers'[new.to]) \in 1..Len(fromPeers'[new.to])
                  /\ fromPeers'[new.to][Len(fromPeers'[new.to])] = Job(new.file, new.info)
                <5>1. new.to = job.to /\ Job(new.file, new.info) = Job(job.file, job.info)
                    BY <2>4, <3>2
                <5>2. PICK s \in Seq(JobEntry) : \E e : /\ fromPeers'[job.to] = Append(s, e)
                                                       /\ e = Job(job.file, job.info)
                    BY <4>1, <4>2
                <5>3. PICK e : /\ fromPeers'[job.to] = Append(s, e)
                               /\ e = Job(job.file, job.info)
                    BY <5>2
                <5>4. /\ Len(Append(s, e)) \in 1..Len(Append(s, e))
                      /\ Append(s, e)[Len(Append(s, e))] = e
                    OBVIOUS
                <5> QED
                    BY <5>1, <5>3, <5>4
            <4>4. Job(new.file, new.info).file = new.file
                  /\ Job(new.file, new.info).info.retry <= RetryCount - 1
                <5>1. new.info.retry \in Nat
                    BY <1>1, <2>4, RetryType
                <5> QED
                    BY <3>2, <5>1 DEF Job
            <4>5. Waiting(new.to, new.file, RetryCount - 1)'
                BY <4>3, <4>4 DEF Waiting
            <4> QED
                BY <4>5 DEF Coming, UnderWay
        <3>3. new.pc = "reply" => new.result = "ok"
            BY <2>4
        <3> QED
            BY <3>1, <3>2, <3>3 DEF InRound
    <2>5. ASSUME NEW p \in Node, PostSkip(x, t, p), new = Advance(x, job, p, job.info),
                 job.pc # "off", new.file = job.file
          PROVE  InRound(x, new)'
        <3>1. /\ new.info = job.info /\ new.todo = job.todo \ {p} /\ new.pc # "reply"
            BY <1>1, <2>5, Advanced
        <3>2. InRound(x, job)
            BY <1>1, <2>5
        <3>3. Contains(p, job.info.peers)
            BY <2>5, <3>2 DEF PostSkip, InRound
        <3> QED
            BY <1>2, <2>5, <3>1, <3>2, <3>3 DEF InRound
    <2>6. ASSUME NEW p \in Node, new = Advance(x, job, p, AddPeer(job.info, p)),
                 job.pc # "off", new.file = job.file
          PROVE  InRound(x, new)'
        <3>1. /\ new.info = AddPeer(job.info, p) /\ new.todo = job.todo \ {p}
              /\ new.pc # "reply"
            BY <1>1, <2>6, Advanced
        <3>2. InRound(x, job)
            BY <1>1, <2>6
        <3>3. \A m \in Node : Contains(m, AddPeer(job.info, p).peers)
                                 <=> Contains(m, job.info.peers) \/ m = p
            <4>1. PICK info \in Info : info = job.info
                BY <1>1
            <4> QED
                BY <4>1, AddedPeer
        <3> QED
            BY <1>2, <2>6, <3>1, <3>2, <3>3 DEF InRound
    <2> HIDE DEF job
    <2> QED
        BY <2>2, <2>3, <2>4, <2>5, <2>6
<1> QED
    BY <1>3, <1>4

(* ... and so do the channels, ...                                          *)
LEMMA StepQueueRound ==
    ASSUME AllPeers, Going, TypeOK', NEW n \in Node, RoundStep(n), faults' = faults
    PROVE  QueueRound'
<1>1. /\ toPeers \in [Node -> Seq(JobEntry)] /\ fromPeers \in [Node -> Seq(JobEntry)]
      /\ fileLog \in [Node -> Seq(LogEntry)]
      /\ Carries(toPeers, RoundSend) /\ Carries(fromPeers, RoundGet)
      /\ Carries(fileLog, RoundLog)
    BY DEF Going, TypeOK, QueueRound
<1>2. \A y \in Node : disk[y] \subseteq disk'[y]
    BY RoundIsStep
<1>3. /\ Within(RoundSend, RoundSend', JobEntry) /\ Within(RoundGet, RoundGet', JobEntry)
      /\ Within(RoundLog, RoundLog', LogEntry)
    BY <1>2, ReachedKept DEF Within, RoundSend, RoundGet, RoundLog, JobEntry, LogEntry
<1>4. /\ Carries(toPeers, RoundSend')
      /\ \A m \in Node : \A job \in JobEntry :
            job \in RoundSend'[m] => Carries([toPeers EXCEPT ![m] = Append(@, job)], RoundSend')
      /\ toPeers[n] # <<>> => Carries([toPeers EXCEPT ![n] = Tail(@)], RoundSend')
    BY <1>1, <1>3, CarriesOn
<1>5. /\ Carries(fromPeers, RoundGet')
      /\ \A m \in Node : \A job \in JobEntry :
            job \in RoundGet'[m] => Carries([fromPeers EXCEPT ![m] = Append(@, job)], RoundGet')
      /\ fromPeers[n] # <<>> => Carries([fromPeers EXCEPT ![n] = Tail(@)], RoundGet')
    BY <1>1, <1>3, CarriesOn
<1>6. /\ Carries(fileLog, RoundLog')
      /\ \A m \in Node : \A entry \in LogEntry :
            entry \in RoundLog'[m] => Carries([fileLog EXCEPT ![m] = Append(@, entry)], RoundLog')
      /\ fileLog[n] # <<>> => Carries([fileLog EXCEPT ![n] = Tail(@)], RoundLog')
    BY <1>1, <1>3, CarriesOn
<1>7. ASSUME NEW t \in Poster, PostDelivered(n, t)
      PROVE  Carries(toPeers', RoundSend') /\ Carries(fromPeers', RoundGet')
             /\ Carries(fileLog', RoundLog')
    <2> DEFINE job == post[n][t]
    <2>1. /\ job \in PostState /\ job.file \in File /\ job.info \in Info /\ job.to \in Node
          /\ job.pc = "send" /\ InRound(n, job)
        BY <1>7, PostType DEF PostDelivered, Going, PostRound
    <2>2. /\ toPeers' = toPeers
          /\ fromPeers' = [fromPeers EXCEPT ![job.to] = Append(@, Job(job.file, job.info))]
          /\ fileLog' = [fileLog EXCEPT ![job.to] = Append(@, Log("queue", job.file, job.info))]
        BY <1>7 DEF PostDelivered, LogAppend
    <2>3. /\ post'[n][t].pc = "reply" /\ post'[n][t].todo = job.todo
          /\ post'[n][t].file = job.file /\ post'[n][t].info = job.info
        <3>1. post' = [post EXCEPT ![n][t] = Replied(job, "ok")]
            BY <1>7 DEF PostDelivered, Fault, Going, TypeOK
        <3>2. post'[n][t] = Replied(job, "ok")
            BY <3>1 DEF Going, TypeOK
        <3> QED
            BY <2>1, <3>2 DEF Replied, PostState
    <2>4. PICK p \in Node, f \in File, info \in Info :
              p = job.to /\ f = job.file /\ info = job.info
        BY <2>1
    <2>5. ASSUME info.retry < RetryCount, NEW m \in Node \ {p}
          PROVE  Reached(m, f, info)'
        <3>1. CASE m = n
            <4>1. f \in disk'[n]
                BY <1>2, <2>4, <2>1 DEF InRound
            <4> QED
                BY <3>1, <4>1 DEF Coming, Reached
        <3>2. CASE m # n /\ ~ Contains(m, job.info.peers)
            <4>1. m \in job.todo
                BY <2>1, <3>2 DEF InRound
            <4>2. ToReach(n, t, m)'
                BY <2>3, <3>2, <4>1 DEF ToReach, Contains
            <4>3. post'[n][t].file = f /\ post'[n][t].info.retry < RetryCount
                BY <2>4, <2>3, <2>5
            <4> QED
                BY <4>2, <4>3 DEF Sender, Reached
        <3>3. Contains(m, job.info.peers) => Reached(m, f, info)'
            BY <2>4 DEF Reached, Contains
        <3> QED
            BY <3>1, <3>2, <3>3
    <2>6. /\ Job(job.file, job.info) \in JobEntry
          /\ Log("queue", job.file, job.info) \in LogEntry
          /\ Job(job.file, job.info).file = job.file /\ Job(job.file, job.info).info = job.info
          /\ Log("queue", job.file, job.info).kind = "queue"
        BY <2>1, EntryType DEF Job, Log
    <2>7. Job(job.file, job.info) \in RoundGet'[job.to]
        <3>1. info.retry < RetryCount => ReachedBut(p, f, info)'
            BY <2>5 DEF ReachedBut
        <3>2. [file |-> f, info |-> info] \in RoundGet'[p]
            BY <3>1 DEF RoundGet, JobEntry
        <3> QED
            BY <2>4, <3>2 DEF Job
    <2>8. Log("queue", job.file, job.info) \in RoundLog'[job.to]
        BY <2>1, <2>6 DEF RoundLog
    <2> HIDE DEF job
    <2> QED
        BY <1>4, <1>5, <1>6, <2>1, <2>2, <2>6, <2>7, <2>8
<1>8. ASSUME NEW t \in Poster, PostTake(n, t)
      PROVE  Carries(toPeers', RoundSend') /\ Carries(fromPeers', RoundGet')
             /\ Carries(fileLog', RoundLog')
    BY <1>4, <1>5, <1>6, <1>8 DEF PostTake
<1>9. ASSUME NEW t \in Poster, PostsOn(n, t), ~ PostTake(n, t), ~ PostDelivered(n, t)
      PROVE  Carries(toPeers', RoundSend') /\ Carries(fromPeers', RoundGet')
             /\ Carries(fileLog', RoundLog')
    <2>1. chans' = chans
        BY <1>9 DEF PostsOn, PostSkip, PostFound, PostAbsent, PostOk, chans
    <2> QED
        BY <1>4, <1>5, <1>6, <2>1 DEF chans
<1>10. ASSUME NEW f \in File, ResendError(n, f)
       PROVE  Carries(toPeers', RoundSend') /\ Carries(fromPeers', RoundGet')
              /\ Carries(fileLog', RoundLog')
    <2> DEFINE info == IF Contains(n, index[n][f].peers) THEN index[n][f]
                                                         ELSE AddPeer(index[n][f], n)
    <2>1. index[n][f] \in Info /\ f \in disk[n]
        BY <1>10 DEF ResendError, Going, TypeOK, StoredInv, IndexedIsStored
    <2>2. info \in Info
        BY <2>1, InfoType
    <2> HIDE DEF info
    <2>3. Job(f, info) \in JobEntry /\ Job(f, info) \in RoundSend'[n]
        BY <1>2, <2>1, <2>2 DEF RoundSend, Job, JobEntry
    <2>4. /\ toPeers' = [toPeers EXCEPT ![n] = Append(@, Job(f, info))]
          /\ fromPeers' = fromPeers /\ fileLog' = fileLog
        BY <1>10 DEF ResendError, info
    <2> QED
        BY <1>4, <1>5, <1>6, <2>3, <2>4
<1>11. ASSUME NEW d \in Getter, GetsOn(n, d)
       PROVE  Carries(toPeers', RoundSend') /\ Carries(fromPeers', RoundGet')
              /\ Carries(fileLog', RoundLog')
    <2>1. CASE GetTake(n, d)
        BY <1>4, <1>5, <1>6, <2>1 DEF GetTake
    <2>2. CASE GetLock(n, d)
        BY <1>4, <1>5, <1>6, <2>2 DEF GetLock, chans
    <2>3. CASE GetAnswered(n, d)
        <3> DEFINE job == get[n][d]
        <3>1. /\ job.file \in File /\ job.info \in Info
              /\ ReachedBut(n, job.file, job.info)
            BY <2>3, GetType DEF GetAnswered, Going, GetRound
        <3>2. PICK f \in File, info \in Info : f = job.file /\ info = job.info
            BY <3>1
        <3>3. ReachedBut(n, f, info)'
            BY <3>1, <3>2, ReachedKept
        <3>4. Log("files", f, info) \in RoundLog'[n] /\ Log("files", f, info) \in LogEntry
            BY <3>3, EntryType DEF RoundLog, Log
        <3>5. Log("files", f, info) = Log("files", job.file, job.info)
            BY <3>2
        <3> QED
            BY <1>4, <1>5, <1>6, <2>3, <3>4, <3>5 DEF GetAnswered, LogAppend
    <2> QED
        BY <1>11, <2>1, <2>2, <2>3 DEF GetsOn
<1>12. ASSUME ConsumeLog(n)
       PROVE  Carries(toPeers', RoundSend') /\ Carries(fromPeers', RoundGet')
              /\ Carries(fileLog', RoundLog')
    BY <1>4, <1>5, <1>6, <1>12 DEF ConsumeLog
<1> QED
    BY <1>7, <1>8, <1>9, <1>10, <1>11, <1>12 DEF RoundStep, QueueRound

(* ... and the downloads.                                                   *)
LEMMA StepGetRound ==
    ASSUME Going, TypeOK', NEW n \in Node, RoundStep(n), faults' = faults
    PROVE  GetRound'
<1> SUFFICES ASSUME NEW x \in Node, NEW d \in Getter, get'[x][d].pc # "off"
             PROVE  ReachedBut(x, get[x][d].file, get[x][d].info)'
    BY DEF GetRound
<1> DEFINE job == get[x][d]
           new == get'[x][d]
<1>1. /\ new.file \in File /\ new.info \in Info /\ job.file \in File /\ job.info \in Info
    <2>1. new \in GetState
        BY DEF TypeOK
    <2> QED
        BY <2>1, GetType DEF Going, GetState
<1>2. \E f \in File, info \in Info : /\ f = new.file /\ info.peers = new.info.peers
                                     /\ ReachedBut(x, f, info)
    <2>1. CASE new = job
        <3>1. ReachedBut(x, job.file, job.info)
            BY <2>1 DEF Going, GetRound
        <3> QED
            BY <1>1, <2>1, <3>1
    <2>2. CASE new # job
        <3>1. n = x /\ (GetTake(n, d) \/ GetLock(n, d) \/ GetAnswered(n, d))
            <4>1. CASE ~ \E e \in Getter : GetsOn(n, e)
                <5>1. get' = get
                    BY ZenonT(40), <4>1 DEF RoundStep, PostsOn, ResendError, ConsumeLog, PostTake,
                                PostSkip, PostFound, PostAbsent, PostDelivered, PostOk
                <5> QED
                    BY <2>2, <5>1
            <4>2. ASSUME NEW e \in Getter, GetsOn(n, e) PROVE n = x /\ d = e
                <5>1. get' # get
                    BY <2>2
                <5>2. \E run : get' = [get EXCEPT ![n][e] = run]
                    BY <4>2, <5>1 DEF GetsOn, GetTake, GetLock, GetAnswered
                <5>3. PICK run : get' = [get EXCEPT ![n][e] = run]
                    BY <5>2
                <5>4. get \in [Node -> [Getter -> GetState]]
                    BY DEF Going, TypeOK
                <5> QED
                    BY <2>2, <5>3, <5>4
            <4> QED
                BY <4>1, <4>2 DEF GetsOn
        <3>2. CASE GetTake(x, d)
            <4>1. /\ fromPeers[x] \in Seq(JobEntry) /\ fromPeers[x] # <<>>
                BY <3>2 DEF GetTake, Going, TypeOK
            <4>2. /\ 1 \in 1..Len(fromPeers[x]) /\ Head(fromPeers[x]) = fromPeers[x][1]
                  /\ Head(fromPeers[x]) \in JobEntry
                BY <4>1
            <4>3. /\ Head(fromPeers[x]).info.retry < RetryCount
                  /\ new.file = Head(fromPeers[x]).file
                  /\ new.info = Retried(Head(fromPeers[x]).info)
                BY <2>2, <3>2 DEF GetTake, Going, TypeOK
            <4>4. ReachedBut(x, Head(fromPeers[x]).file, Head(fromPeers[x]).info)
                BY <4>2, <4>3 DEF Going, QueueRound, Carries, RoundGet
            <4>5. new.info.peers = Head(fromPeers[x]).info.peers
                BY <4>2, <4>3 DEF Retried, JobEntry, Info
            <4> QED
                BY <4>2, <4>3, <4>4, <4>5 DEF JobEntry
        <3>3. CASE GetLock(x, d)
            <4>1. job.pc # "off" /\ new.file = job.file /\ new.info = job.info
                BY <3>3, GetType DEF GetLock, Going, TypeOK, GetState
            <4>2. ReachedBut(x, job.file, job.info)
                BY <4>1 DEF Going, GetRound
            <4> QED
                BY <1>1, <4>1, <4>2
        <3>4. CASE GetAnswered(x, d)
            <4>1. new = NewGet(x)
                BY <3>4 DEF GetAnswered, Going, TypeOK
            <4> QED
                BY <4>1 DEF NewGet
        <3> QED
            BY <3>1, <3>2, <3>3, <3>4
    <2> QED
        BY <2>1, <2>2
<1>3. PICK f \in File, info \in Info : /\ f = new.file /\ info.peers = new.info.peers
                                       /\ ReachedBut(x, f, info)
    BY <1>2
<1>4. ReachedBut(x, f, info)'
    BY <1>3, ReachedKept
<1> QED
    BY <1>3, <1>4 DEF ReachedBut, Reached

(* What is on its way to m still is, or ldb lists m.                        *)
LEMMA OnWayKept ==
    ASSUME AllPeers, Going, TypeOK', NEW n \in Node, RoundStep(n), faults' = faults,
           NEW x \in Node, NEW m \in Node \ {x}, NEW f \in File, OnWay(x, m, f)
    PROVE  \/ OnWay(x, m, f)'
           \/ index'[x][f] # NoInfo /\ Contains(m, index'[x][f].peers)
<1>1. ASSUME NEW t \in Poster, post[x][t].file = f, ToReach(x, t, m)
      PROVE  \/ OnWay(x, m, f)'
             \/ index'[x][f] # NoInfo /\ Contains(m, index'[x][f].peers)
    BY <1>1, ToReachKept DEF OnWay
<1>2. ASSUME NEW i \in 1..Len(toPeers[x]), toPeers[x][i].file = f,
             ~ Contains(m, toPeers[x][i].info.peers)
      PROVE  OnWay(x, m, f)'
    <2>0. toPeers \in [Node -> Seq(JobEntry)]
        BY DEF Going, TypeOK
    <2>1. CASE toPeers'[x] = toPeers[x]
        BY <1>2, <2>1 DEF OnWay, Contains
    <2>2. ASSUME NEW e, e \in JobEntry, toPeers'[x] = Append(toPeers[x], e)
          PROVE  OnWay(x, m, f)'
        <3>1. i \in 1..Len(toPeers'[x]) /\ toPeers'[x][i] = toPeers[x][i]
            BY <2>0, <2>2
        <3> QED
            BY <1>2, <3>1 DEF OnWay, Contains
    <2>3. ASSUME NEW t \in Poster, PostTake(x, t)
          PROVE  OnWay(x, m, f)'
        <3>1. toPeers'[x] = Tail(toPeers[x]) /\ toPeers[x] # <<>>
            BY <2>0, <2>3 DEF PostTake
        <3>2. CASE i = 1
            <4>1. Head(toPeers[x]) = toPeers[x][i]
                BY <2>0, <3>1, <3>2
            <4>2. post'[x][t] = NewPost(x, toPeers[x][i].file, toPeers[x][i].info, Node \ {x})
                <5>1. post' = [post EXCEPT ![x][t] =
                         NewPost(x, toPeers[x][i].file, toPeers[x][i].info, Peers[x])]
                    BY <2>3, <4>1 DEF PostTake
                <5>2. Peers[x] = Node \ {x}
                    BY DEF AllPeers
                <5> QED
                    BY <5>1, <5>2 DEF Going, TypeOK
            <4>3. /\ post'[x][t].pc = "peer" /\ post'[x][t].todo = Node \ {x}
                  /\ post'[x][t].file = f /\ post'[x][t].info = toPeers[x][i].info
                BY <1>2, <4>2 DEF NewPost
            <4>4. ToReach(x, t, m)'
                BY <1>2, <4>3 DEF ToReach, Contains
            <4> QED
                BY <4>3, <4>4 DEF OnWay
        <3>3. CASE i # 1
            <4>1. i - 1 \in 1..Len(toPeers'[x]) /\ toPeers'[x][i - 1] = toPeers[x][i]
                BY <2>0, <3>1, <3>3
            <4> QED
                BY <1>2, <4>1 DEF OnWay, Contains
        <3> QED
            BY <3>2, <3>3
    <2>4. \/ toPeers'[x] = toPeers[x]
          \/ \E t \in Poster : PostTake(x, t)
          \/ \E e \in JobEntry : toPeers'[x] = Append(toPeers[x], e)
        <3>1. CASE n # x \/ (~ (\E t \in Poster : PostTake(n, t))
                             /\ ~ \E g \in File : ResendError(n, g))
            <4>1. \/ toPeers' = toPeers
                  \/ n # x /\ \E q : toPeers' = [toPeers EXCEPT ![n] = q]
                BY ZenonT(40), <3>1 DEF RoundStep, PostsOn, GetsOn, ResendError, ConsumeLog, PostTake,
                    PostSkip, PostFound, PostAbsent, PostDelivered, PostOk, GetTake, GetLock,
                    GetAnswered, chans
            <4> QED
                BY <2>0, <4>1
        <3>2. ASSUME NEW g \in File, ResendError(x, g)
              PROVE  \E e \in JobEntry : toPeers'[x] = Append(toPeers[x], e)
            <4>1. index[x][g] \in Info
                BY <3>2 DEF ResendError, Going, TypeOK
            <4>2. AddPeer(index[x][g], x) \in Info
                BY <4>1, InfoType
            <4> QED
                BY <2>0, <3>2, <4>1, <4>2, EntryType DEF ResendError, Job, JobEntry
        <3> QED
            BY <3>1, <3>2
    <2> QED
        BY <2>1, <2>2, <2>3, <2>4
<1> QED
    BY <1>1, <1>2 DEF OnWay

(* How a round's step of replication changes a FileInfo in ldb.             *)
LEMMA IndexMoves ==
    ASSUME Going, TypeOK', NEW n \in Node, RoundStep(n), faults' = faults,
           NEW x \in Node, NEW f \in File, index'[x][f] # index[x][f], index'[x][f] # NoInfo
    PROVE  \/ \E t \in Poster, p \in Node :
                 /\ PostFound(x, t, p) \/ (PostOk(x, t) /\ p = post[x][t].to)
                 /\ post[x][t].file = f /\ index'[x][f] = AddPeer(post[x][t].info, p)
           \/ /\ ConsumeLog(x) /\ Head(fileLog[x]).kind = "files" /\ Head(fileLog[x]).file = f
              /\ index'[x][f] = Head(fileLog[x]).info
<1>1. index \in [Node -> [File -> Info \cup {NoInfo}]] /\ index' # index
    BY DEF Going, TypeOK
<1>2. ASSUME NEW p \in Node, NEW g \in File, NEW info, SaveInfo(p, g, info)
      PROVE  p = x /\ g = f /\ index'[x][f] = info
    BY <1>1, <1>2 DEF SaveInfo
<1>3. ASSUME NEW t \in Poster, PostsOn(n, t)
      PROVE  \E p \in Node :
                 /\ PostFound(x, t, p) \/ (PostOk(x, t) /\ p = post[x][t].to)
                 /\ post[x][t].file = f /\ index'[x][f] = AddPeer(post[x][t].info, p)
    <2>1. post[n][t].file \in File /\ post[n][t].to \in Node
        BY PostType DEF Going
    <2>2. ASSUME NEW p \in Node, PostFound(n, t, p) PROVE n = x /\ post[n][t].file = f
                 /\ index'[x][f] = AddPeer(post[n][t].info, p)
        BY <1>2, <2>1, <2>2 DEF PostFound
    <2>3. ASSUME PostOk(n, t) PROVE n = x /\ post[n][t].file = f
                 /\ index'[x][f] = AddPeer(post[n][t].info, post[n][t].to)
        BY <1>2, <2>1, <2>3 DEF PostOk
    <2>4. ASSUME NEW p \in Node, PostAbsent(n, t, p) PROVE FALSE
        BY <1>1, <1>2, <2>1, <2>4 DEF PostAbsent
    <2>5. ~ PostTake(n, t) /\ ~ PostDelivered(n, t) /\ \A p \in Node : ~ PostSkip(n, t, p)
        BY <1>1 DEF PostTake, PostDelivered, PostSkip, stable
    <2> QED
        BY <1>3, <2>1, <2>2, <2>3, <2>4, <2>5 DEF PostsOn
<1>4. ASSUME ConsumeLog(n)
      PROVE  /\ ConsumeLog(x) /\ Head(fileLog[x]).kind = "files" /\ Head(fileLog[x]).file = f
             /\ index'[x][f] = Head(fileLog[x]).info
    <2>1. fileLog[n] \in Seq(LogEntry) /\ fileLog[n] # <<>>
        BY <1>4 DEF ConsumeLog, Going, TypeOK
    <2>2. /\ 1 \in 1..Len(fileLog[n]) /\ fileLog[n][1] = Head(fileLog[n])
          /\ Head(fileLog[n]) \in LogEntry
        BY <2>1
    <2>3. Head(fileLog[n]).kind # "upload" /\ Head(fileLog[n]).file \in File
        BY <2>2 DEF Going, QueueRound, Carries, RoundLog, LogEntry
    <2>4. /\ Head(fileLog[n]).kind = "files"
          /\ SaveInfo(n, Head(fileLog[n]).file, Head(fileLog[n]).info)
        BY <1>1, <1>4, <2>3 DEF ConsumeLog, SavedInLdb, SaveLogged
    <2> QED
        BY <1>2, <1>4, <2>3, <2>4
<1>5. /\ \A d \in Getter : ~ GetsOn(n, d)
      /\ \A g \in File : ~ ResendError(n, g)
    BY <1>1 DEF GetsOn, GetTake, GetLock, GetAnswered, ResendError, stable
<1> QED
    BY <1>3, <1>4, <1>5 DEF RoundStep

LEMMA StepIndexRound ==
    ASSUME AllPeers, Going, IndexRound, TypeOK', begun \subseteq Node,
           NEW n \in Node, RoundStep(n), faults' = faults,
           UNCHANGED <<repair, resend, begun>>
    PROVE  IndexRound'
<1> SUFFICES ASSUME NEW x \in begun, NEW m \in begun, NEW f \in File, x # m,
                    index'[x][f] # NoInfo
             PROVE  Reached(m, f, index[x][f])' \/ OnWay(x, m, f)' \/ Pending(x, m, f)'
    BY DEF IndexRound
<1>1. x \in Node /\ m \in Node \ {x} /\ index'[x][f] \in Info
    BY DEF TypeOK
<1>2. ASSUME Reached(m, f, index'[x][f])
      PROVE  Reached(m, f, index[x][f])'
    <2>1. PICK info \in Info : info = index'[x][f]
        BY <1>1
    <2>2. Reached(m, f, info)'
        BY <1>1, <1>2, <2>1, ReachedKept
    <2> QED
        BY <2>1, <2>2 DEF Reached
<1>3. Contains(m, index'[x][f].peers) => Reached(m, f, index'[x][f])
    BY DEF Reached
<1>4. CASE index'[x][f] = index[x][f]
    <2>1. OnWay(x, m, f) => OnWay(x, m, f)' \/ Contains(m, index'[x][f].peers)
        BY <1>1, OnWayKept
    <2>2. Pending(x, m, f) => Pending(x, m, f)'
        BY DEF Pending, ToVisit, Told
    <2>3. Reached(m, f, index'[x][f]) \/ OnWay(x, m, f) \/ Pending(x, m, f)
        BY <1>4 DEF IndexRound
    <2> QED
        BY <1>2, <1>3, <2>1, <2>2, <2>3
<1>5. CASE index'[x][f] # index[x][f]
    <2>1. ASSUME NEW t \in Poster, NEW p \in Node,
                 PostFound(x, t, p) \/ (PostOk(x, t) /\ p = post[x][t].to),
                 post[x][t].file = f, index'[x][f] = AddPeer(post[x][t].info, p)
          PROVE  OnWay(x, m, f)' \/ Contains(m, index'[x][f].peers)
        <3>1. post[x][t].pc # "off" /\ post[x][t].info \in Info
            BY <1>1, <2>1, PostType DEF PostFound, PostOk, Going
        <3>2. Contains(m, post[x][t].info.peers) \/ m \in post[x][t].todo
            BY <1>1, <3>1 DEF Going, PostRound, InRound
        <3>3. CASE Contains(m, post[x][t].info.peers)
            BY ZenonT(40), <1>1, <2>1, <3>1, <3>3, AddedPeer
        <3>4. CASE ~ Contains(m, post[x][t].info.peers)
            <4>1. ToReach(x, t, m)
                BY <3>1, <3>2, <3>4 DEF ToReach
            <4> QED
                BY <1>1, <2>1, <4>1, ToReachKept DEF OnWay
        <3> QED
            BY <3>3, <3>4
    <2>2. ASSUME ConsumeLog(x), Head(fileLog[x]).kind = "files", Head(fileLog[x]).file = f,
                 index'[x][f] = Head(fileLog[x]).info
          PROVE  Reached(m, f, index'[x][f])
        <3>1. fileLog[x] \in Seq(LogEntry) /\ fileLog[x] # <<>>
            BY <1>1, <2>2 DEF ConsumeLog, Going, TypeOK
        <3>2. 1 \in 1..Len(fileLog[x]) /\ fileLog[x][1] = Head(fileLog[x])
            BY <3>1
        <3>3. ReachedBut(x, f, Head(fileLog[x]).info)
            BY <1>1, <2>2, <3>2 DEF Going, QueueRound, Carries, RoundLog
        <3> QED
            BY <1>1, <2>2, <3>3 DEF ReachedBut
    <2> QED
        BY <1>1, <1>2, <1>3, <1>5, <2>1, <2>2, IndexMoves
<1> QED
    BY <1>4, <1>5

-----------------------------------------------------------------------------
(* A step of a repair that goes on leaves what is under way alone, ...      *)
LEMMA ApartReached ==
    ASSUME TypeOK, NEW n \in Node, Apart(n), NEW m \in Node, NEW f \in File
    PROVE  /\ Coming(m, f) => Coming(m, f)'
           /\ \A info : Reached(m, f, info) => Reached(m, f, info)'
<1>1. /\ Coming(m, f) => Coming(m, f)'
      /\ Sender(m, f) => Sender(m, f)'
    BY DEF Apart, stable, Coming, UnderWay, Loading, Waiting, Running, Sender, ToReach, Contains
<1> QED
    BY <1>1 DEF Reached, Contains

LEMMA ApartGoing ==
    ASSUME Going, TypeOK', StoredInv', SourceInv', NEW n \in Node, Apart(n)
    PROVE  Going'
<1>0. /\ TypeOK /\ toPeers \in [Node -> Seq(JobEntry)]
      /\ fromPeers \in [Node -> Seq(JobEntry)] /\ fileLog \in [Node -> Seq(LogEntry)]
    BY DEF Going, TypeOK
<1>1. NoneFound' /\ Quiet'
    BY DEF Going, Apart, NoneFound, Quiet
<1>2. \A m \in Node, f \in File : Coming(m, f) => Coming(m, f)'
    BY <1>0, ApartReached
<1>3. \A m \in Node, f \in File, info \in Info :
         ReachedBut(m, f, info) => ReachedBut(m, f, info)'
    BY <1>0, ApartReached DEF ReachedBut
<1>4. PostRound'
    <2>1. ASSUME NEW x \in Node, NEW t \in Poster, post[x][t].pc # "off"
          PROVE  InRound(x, post[x][t])'
        <3>1. InRound(x, post[x][t]) /\ post[x][t].to \in Node /\ post[x][t].file \in File
            BY <2>1, PostType DEF Going, PostRound
        <3>2. post' = post /\ disk' = disk
            BY DEF Apart, stable
        <3>3. PICK p \in Node, f \in File : p = post[x][t].to /\ f = post[x][t].file
            BY <3>1
        <3>4. Coming(p, f) => Coming(p, f)'
            BY <1>2
        <3> QED
            BY <3>1, <3>2, <3>3, <3>4 DEF InRound
    <2> QED
        BY <2>1 DEF PostRound, Apart
<1>5. GetRound'
    <2>1. ASSUME NEW x \in Node, NEW d \in Getter, get[x][d].pc # "off"
          PROVE  ReachedBut(x, get[x][d].file, get[x][d].info)'
        <3>1. PICK f \in File, info \in Info : f = get[x][d].file /\ info = get[x][d].info
            BY GetType DEF Going
        <3>2. ReachedBut(x, f, info)'
            BY <1>3, <2>1, <3>1 DEF Going, GetRound
        <3> QED
            BY <3>1, <3>2 DEF ReachedBut, Reached, Apart
    <2> QED
        BY <2>1 DEF GetRound, Apart
<1>6. /\ Within(RoundSend, RoundSend', JobEntry) /\ Within(RoundGet, RoundGet', JobEntry)
      /\ Within(RoundLog, RoundLog', LogEntry)
    BY <1>3 DEF Within, RoundSend, RoundGet, RoundLog, JobEntry, LogEntry, Apart, stable
<1>7. /\ Carries(toPeers, RoundSend) /\ Carries(fromPeers, RoundGet)
      /\ Carries(fileLog, RoundLog)
    BY DEF Going, QueueRound
<1>8. /\ Carries(fromPeers, RoundGet') /\ Carries(fileLog, RoundLog')
      /\ Carries(toPeers, RoundSend')
      /\ \A job \in JobEntry :
            job \in RoundSend'[n] => Carries([toPeers EXCEPT ![n] = Append(@, job)], RoundSend')
    BY <1>0, <1>6, <1>7, CarriesOn
<1>9. Carries(toPeers', RoundSend')
    <2>1. ASSUME NEW f \in File, Requeues(n, f)
          PROVE  Carries(toPeers', RoundSend')
        <3>1. index[n][f] \in Info /\ f \in disk'[n]
            BY <2>1 DEF Requeues, Going, TypeOK, StoredInv, IndexedIsStored, Apart, stable
        <3>2. PICK info \in Info : toPeers' = [toPeers EXCEPT ![n] = Append(@, Job(f, info))]
            BY <2>1, <3>1, ForgetType DEF Requeues, Queued
        <3>3. Job(f, info) \in JobEntry /\ Job(f, info) \in RoundSend'[n]
            BY <3>1, EntryType DEF Job, RoundSend, JobEntry
        <3> QED
            BY <1>8, <3>2, <3>3
    <2> QED
        BY <1>8, <2>1 DEF Apart
<1>10. QueueRound'
    BY <1>8, <1>9 DEF QueueRound, Apart
<1> QED
    BY <1>1, <1>4, <1>5, <1>10 DEF Going

LEMMA ApartOnWay ==
    ASSUME TypeOK, NEW n \in Node, Apart(n),
           NEW x \in Node, NEW m \in Node, NEW f \in File, OnWay(x, m, f)
    PROVE  OnWay(x, m, f)'
<1>1. ASSUME NEW t \in Poster, post[x][t].file = f, ToReach(x, t, m)
      PROVE  OnWay(x, m, f)'
    BY <1>1 DEF OnWay, Apart, ToReach, Contains
<1>2. ASSUME NEW i \in 1..Len(toPeers[x]), toPeers[x][i].file = f,
             ~ Contains(m, toPeers[x][i].info.peers)
      PROVE  OnWay(x, m, f)'
    <2>1. toPeers[x] \in Seq(JobEntry) /\ toPeers \in [Node -> Seq(JobEntry)]
        BY DEF TypeOK
    <2>2. ASSUME NEW g \in File, Requeues(n, g)
          PROVE  i \in 1..Len(toPeers'[x]) /\ toPeers'[x][i] = toPeers[x][i]
        <3>1. index[n][g] \in Info
            BY <2>2 DEF Requeues, TypeOK
        <3>2. PICK info \in Info : toPeers' = [toPeers EXCEPT ![n] = Append(@, Job(g, info))]
            BY <2>2, <3>1, ForgetType DEF Requeues, Queued
        <3>3. Job(g, info) \in JobEntry
            BY EntryType
        <3>4. toPeers'[x] = toPeers[x] \/ toPeers'[x] = Append(toPeers[x], Job(g, info))
            BY <2>1, <3>2
        <3> QED
            BY SMTT(30), <2>1, <3>3, <3>4
    <2>3. i \in 1..Len(toPeers'[x]) /\ toPeers'[x][i] = toPeers[x][i]
        BY <2>2 DEF Apart
    <2> QED
        BY <1>2, <2>3 DEF OnWay, Contains
<1> QED
    BY <1>1, <1>2 DEF OnWay

(* What is queued as ldb has it is on its way to all that it does not list. *)
LEMMA SentOnWay ==
    ASSUME TypeOK, NEW n \in Node, NEW f \in File, Sent(n, f), index[n][f] # NoInfo,
           UNCHANGED <<stable, fileLog, fromPeers, post>>
    PROVE  \A m \in Node : Contains(m, index[n][f].peers) \/ OnWay(n, m, f)'
<1>1. /\ toPeers[n] \in Seq(JobEntry) /\ index[n][f] \in Info
      /\ Job(f, index[n][f]) \in JobEntry
    BY EntryType DEF TypeOK
<1>2. toPeers'[n] = Append(toPeers[n], Job(f, index[n][f]))
    BY DEF Sent, Queued, TypeOK
<1>3. PICK i : i = Len(toPeers'[n])
    OBVIOUS
<1>4. i \in 1..Len(toPeers'[n]) /\ toPeers'[n][i] = Job(f, index[n][f])
    BY <1>1, <1>2, <1>3
<1> QED
    BY <1>4 DEF OnWay, Job, Contains

(* ... and what a repair has still to tell a peer, or to be told, it has    *)
(* after the step, or the file is queued, or was where it is to go.         *)
LEMMA PendingKept ==
    ASSUME RepairTypeOK, StoredInv, PlainInv, NEW n \in Node, OfRepair(n), ~ RepairStart(n),
           faults' = faults, begun' = begun, begun # {},
           NEW x \in Node, NEW m \in Node \ {x}, NEW f \in File, index[x][f] # NoInfo,
           Pending(x, m, f)
    PROVE  \/ Pending(x, m, f)' \/ OnWay(x, m, f)'
           \/ f \in disk[m] \/ Contains(m, index[x][f].peers)
<1>0. /\ TypeOK /\ repair \in [Node -> RepairState] /\ resend \in [Node -> SUBSET File]
      /\ \A p \in Node, g \in File : index[p][g] # NoInfo => g \in disk[p]
      /\ \A p \in Node : ~ Fails(p)
    BY DEF RepairTypeOK, StoredInv, IndexedIsStored, Fails, Fault, TypeOK
<1>1. ASSUME NEW p \in Node, RepairStat(n, p) PROVE Pending(x, m, f)'
    <2>1. repair[n].pc = "stat" /\ resend' = resend
        BY <1>1 DEF RepairStat
    <2>2. (repair[n].force /\ GoTo(n, "diff", p)) \/ Skip(n, p) \/ GoTo(n, "diff", p)
        BY <1>0, <1>1 DEF RepairStat, PlainInv, Counting
    <2>3. repair[n].force => GoTo(n, "diff", p)
        BY <1>0, <1>1 DEF RepairStat, PlainInv, Counting
    <2>4. \A q \in Node \ {n} : repair'[q] = repair[q]
        BY <1>0, <2>2 DEF GoTo, Skip
    <2>5. ASSUME repair[n].force
          PROVE  /\ repair'[n].pc = "diff" /\ repair'[n].todo = repair[n].todo
                 /\ repair'[n].force = repair[n].force
        <3>1. repair' = [repair EXCEPT ![n].pc = "diff", ![n].peer = p]
            BY <2>3, <2>5 DEF GoTo
        <3>2. repair[n] \in RepairState
            BY <1>0
        <3> QED
            BY <1>0, <3>1, <3>2 DEF RepairState
    <2> QED
        BY <2>1, <2>4, <2>5 DEF Pending, ToVisit, Told
<1>2. ~ RepairSync(n) /\ \A g \in File : ~ ResendForced(n, g)
    BY DEF RepairSync, ResendForced, PlainInv, PlainRun
<1>3. ASSUME RepairDiff(n) PROVE Pending(x, m, f)' \/ f \in disk[m]
    <2> DEFINE p == repair[n].peer
    <2>1. /\ repair[n].pc = "diff" /\ resend' = resend /\ p \in Node
          /\ repair' = [repair EXCEPT ![n].pc = "give",
                ![n].give = DayMd5s(p) \ DayMd5s(n), ![n].send = DayMd5s(n) \ DayMd5s(p)]
        BY <1>0, <1>3 DEF RepairDiff, RepairState
    <2>2. /\ \A q \in Node \ {n} : repair'[q] = repair[q]
          /\ repair'[n].pc = "give" /\ repair'[n].todo = repair[n].todo
          /\ repair'[n].force = repair[n].force /\ repair'[n].peer = p
          /\ repair'[n].give = DayMd5s(p) \ DayMd5s(n)
          /\ repair'[n].send = DayMd5s(n) \ DayMd5s(p)
        BY <1>0, <2>1 DEF RepairState
    <2>3. CASE f \notin DayMd5s(m)
        <3>1. f \in DayMd5s(x) \ DayMd5s(m)
            BY <2>3 DEF DayMd5s
        <3>3. (x = n /\ m = p) \/ (x = p /\ m = n) => Told(x, m, f)'
            BY <2>2, <3>1 DEF Told
        <3>4. \A q \in Node, r \in Node :
                  ToVisit(q, r) /\ ~ (q = n /\ r = p) => ToVisit(q, r)'
            BY ZenonT(40), <2>1, <2>2 DEF ToVisit
        <3>5. Told(x, m, f) => Told(x, m, f)'
            BY <2>1, <2>2 DEF Told
        <3> HIDE DEF p
        <3> QED
            BY <3>3, <3>4, <3>5 DEF Pending
    <2>4. CASE f \in DayMd5s(m)
        BY <1>0, <2>4 DEF DayMd5s
    <2> QED
        BY <2>3, <2>4
<1>4. ASSUME RepairGive(n) PROVE Pending(x, m, f)'
    <2> DEFINE p == repair[n].peer
    <2>1. /\ repair[n].pc = "give" /\ p \in Node /\ GoTo(n, "send", p)
          /\ resend' = [resend EXCEPT ![p] = @ \cup repair[n].give]
        BY <1>0, <1>4 DEF RepairGive, RepairState
    <2>2. /\ \A q \in Node \ {n} : repair'[q] = repair[q]
          /\ repair'[n].pc = "send" /\ repair'[n].todo = repair[n].todo
          /\ repair'[n].force = repair[n].force /\ repair'[n].peer = p
          /\ repair'[n].send = repair[n].send
        BY <1>0, <2>1 DEF GoTo, RepairState
    <2>3. repair[n].give \subseteq resend'[p] /\ \A q \in Node : resend[q] \subseteq resend'[q]
        BY <1>0, <2>1
    <2>4. \A q \in Node, r \in Node : ToVisit(q, r) => ToVisit(q, r)'
        BY <2>1, <2>2 DEF ToVisit
    <2>5. Told(x, m, f) => Told(x, m, f)'
        BY <2>1, <2>2, <2>3 DEF Told
    <2> HIDE DEF p
    <2> QED
        BY <2>4, <2>5 DEF Pending
<1>5. ASSUME RepairSend(n)
      PROVE  Pending(x, m, f)' \/ OnWay(x, m, f)' \/ Contains(m, index[x][f].peers)
    <2>1. repair[n].pc = "send" /\ resend' = resend /\ repair[n].send \subseteq File
        BY <1>0, <1>5 DEF RepairSend, RepairState
    <2>2. ASSUME repair[n].send = {}, Skip(n, repair[n].peer)
          PROVE  Pending(x, m, f)'
        <3> DEFINE todo == repair[n].todo \ {repair[n].peer}
        <3>1. /\ \A q \in Node \ {n} : repair'[q] = repair[q]
              /\ repair'[n] = NextPeer(n, todo)
            BY <1>0, <2>2 DEF Skip
        <3>2. todo # {} => /\ repair'[n].pc = "stat" /\ repair'[n].todo = todo
                           /\ repair'[n].force = repair[n].force
            BY <3>1 DEF NextPeer, NoRepair
        <3>3. \A q \in Node, r \in Node : ToVisit(q, r) => ToVisit(q, r)'
            BY <2>1, <3>1, <3>2 DEF ToVisit
        <3>4. Told(x, m, f) => Told(x, m, f)'
            BY <2>1, <2>2, <3>1 DEF Told
        <3> HIDE DEF todo
        <3> QED
            BY <3>3, <3>4 DEF Pending
    <2>3. ASSUME NEW g \in repair[n].send, Sent(n, g),
                 repair' = [repair EXCEPT ![n].send = @ \ {g}]
          PROVE  Pending(x, m, f)' \/ OnWay(x, m, f)' \/ Contains(m, index[x][f].peers)
        <3>1. /\ \A q \in Node \ {n} : repair'[q] = repair[q]
              /\ repair'[n].pc = "send" /\ repair'[n].todo = repair[n].todo
              /\ repair'[n].force = repair[n].force /\ repair'[n].peer = repair[n].peer
              /\ repair'[n].send = repair[n].send \ {g}
            BY <1>0, <2>1, <2>3 DEF RepairState
        <3>2. \A q \in Node, r \in Node : ToVisit(q, r) => ToVisit(q, r)'
            BY <2>1, <3>1 DEF ToVisit
        <3>3. CASE x = n /\ f = g
            BY <1>0, <1>5, <2>1, <2>3, <3>3, SentOnWay DEF RepairSend
        <3>4. CASE ~ (x = n /\ f = g)
            <4>1. Told(x, m, f) => Told(x, m, f)'
                BY <2>1, <3>1, <3>4 DEF Told
            <4> QED
                BY <3>2, <4>1 DEF Pending
        <3> QED
            BY <3>3, <3>4
    <2> QED
        BY <1>5, <2>2, <2>3 DEF RepairSend
<1>6. ASSUME NEW g \in File, Resend(n, g)
      PROVE  Pending(x, m, f)' \/ OnWay(x, m, f)' \/ Contains(m, index[x][f].peers)
    <2>1. /\ repair' = repair
          /\ \A q \in Node : resend'[q] = IF q = n THEN resend[q] \ {g} ELSE resend[q]
        BY <1>0, <1>6 DEF Resend
    <2>2. CASE x = n /\ f = g
        BY <1>0, <1>6, <2>2, SentOnWay DEF Resend
    <2>3. CASE ~ (x = n /\ f = g)
        BY <2>1, <2>3 DEF Pending, ToVisit, Told
    <2> QED
        BY <2>2, <2>3
<1>7. ASSUME CountLog(n) PROVE Pending(x, m, f)'
    BY <1>7 DEF CountLog, asked, Pending, ToVisit, Told
<1> QED
    BY <1>1, <1>2, <1>3, <1>4, <1>5, <1>6, <1>7 DEF OfRepair, RepairStep

-----------------------------------------------------------------------------
(* No step makes a repair ask for sync, or a download start from a request. *)
LEMMA NextFound ==
    ASSUME TypeOK, NoneFound, NEW n \in Node, OwnStep(n)
    PROVE  NoneFound'
<1> SUFFICES ASSUME NEW x \in Node, NEW d \in Getter
             PROVE  get'[x][d].pc # "found"
    BY DEF NoneFound
<1>1. get \in [Node -> [Getter -> GetState]] /\ get[x][d].pc # "found"
    BY DEF TypeOK, NoneFound
<1>2. ASSUME NEW e \in Getter, GetStep(n, e)
      PROVE  \E run : run.pc # "found" /\ (get' = get \/ get' = [get EXCEPT ![n][e] = run])
    <2>1. CASE GetTake(n, e)
        BY <2>1 DEF GetTake
    <2>2. ~ GetStart(n, e)
        BY DEF GetStart, NoneFound
    <2>3. CASE GetLock(n, e)
        <3>1. get[n][e] \in GetState
            BY DEF TypeOK
        <3>2. [get[n][e] EXCEPT !.pc = "get"].pc # "found"
            BY <3>1 DEF GetState
        <3>3. get' = [get EXCEPT ![n][e] = [get[n][e] EXCEPT !.pc = "get"]]
            BY <2>3 DEF GetLock
        <3> QED
            BY <3>2, <3>3
    <2>4. CASE GetAnswered(n, e) \/ GetFailed(n, e)
        <3>1. NewGet(n).pc # "found"
            BY DEF NewGet
        <3> QED
            BY <2>4, <3>1 DEF GetAnswered, GetFailed
    <2> QED
        BY <1>2, <2>1, <2>2, <2>3, <2>4 DEF GetStep
<1>3. ASSUME NEW e \in Getter, GetStep(n, e) PROVE get'[x][d].pc # "found"
    <2>1. PICK run : run.pc # "found" /\ (get' = get \/ get' = [get EXCEPT ![n][e] = run])
        BY <1>2, <1>3
    <2> QED
        BY <1>1, <2>1
<1>4. ASSUME Crash(n) PROVE get'[x][d].pc # "found"
    <2>1. get'[x] = IF x = n THEN OffGets(n) ELSE get[x]
        BY <1>1, <1>4 DEF Crash
    <2> QED
        BY <1>1, <2>1 DEF OffGets, NewGet
<1>5. ASSUME \/ \E f \in File : Upload(n, f) \/ ResendError(n, f) \/ LoadQueue(n, f)
             \/ \E t \in Poster : PostStep(n, t)
             \/ ConsumeLog(n)
             \/ Restart(n)
      PROVE  get' = get
    <2>1. ASSUME NEW t \in Poster, PostStep(n, t) PROVE get' = get
        BY <2>1, PostLeavesGets
    <2>2. CASE \/ \E f \in File : Upload(n, f) \/ ResendError(n, f) \/ LoadQueue(n, f)
               \/ ConsumeLog(n)
               \/ Restart(n)
        BY <2>2 DEF Upload, ResendError, LoadQueue, ConsumeLog, Restart
    <2> QED
        BY <1>5, <2>1, <2>2
<1> QED
    BY <1>1, <1>3, <1>4, <1>5 DEF OwnStep

LEMMA NextPlain ==
    ASSUME RepairTypeOK, RepairTypeOK', PlainInv, RepairNext
    PROVE  PlainInv'
<1>0. /\ TypeOK /\ NoneFound /\ count \in [Node -> Nat \cup {None}]
      /\ repair \in [Node -> RepairState] /\ forced \in [Node -> SUBSET File]
    BY DEF RepairTypeOK, PlainInv, NoneFound
<1>1. PICK n \in Node : OfRepair(n) \/ OfReplication(n)
    BY RepairSteps
<1>2. CASE OfReplication(n)
    <2>1. NoneFound'
        BY <1>0, <1>2, RepairSteps, NextFound
    <2>2. Counting'
        <3>1. ASSUME NEW m \in Node PROVE count'[m] # None
            <4>1. count[m] \in Nat /\ count[m] # None
                BY <1>0 DEF PlainInv, Counting
            <4>2. count'[m] = count[m] \/ count'[m] = 0
                BY <1>0, <1>2, <4>1 DEF OfReplication, UploadStep, ReplicationStep, SaveLog,
                       CrashWithRepair, StatKept, StatTorn, RestartWithStat
            <4> QED
                BY <4>1, <4>2
        <3> QED
            BY <3>1 DEF Counting
    <2>3. /\ repair' = repair \/ repair' = [repair EXCEPT ![n] = NoRepair(n)]
          /\ forced' = forced \/ forced' = [forced EXCEPT ![n] = {}]
        BY <1>2 DEF OfReplication, UploadStep, ReplicationStep, SaveLog, CrashWithRepair,
                    RestartWithStat, asked
    <2>4. PlainRun(NoRepair(n))
        BY DEF NoRepair, PlainRun
    <2> QED
        BY <1>0, <2>1, <2>2, <2>3, <2>4 DEF PlainInv, NoneFound
<1>3. CASE OfRepair(n)
    <2>1. ~ RepairSync(n) /\ \A f \in File : ~ ResendForced(n, f)
        BY DEF RepairSync, ResendForced, PlainInv, PlainRun
    <2>2. Counting' /\ forced' = forced
        <3>1. CASE CountLog(n)
            BY <1>0, <3>1 DEF CountLog, asked, PlainInv, Counting
        <3>2. CASE ~ CountLog(n)
            <4>1. count' = count /\ forced' = forced
                BY <1>3, <2>1, <3>2 DEF OfRepair, RepairStep, RepairStart, RepairStat,
                       RepairDiff, RepairGive, RepairSend, Resend
            <4> QED
                BY <4>1 DEF PlainInv, Counting
        <3> QED
            BY <3>1, <3>2
    <2>3. get' = get
        BY <1>3, RepairEffect DEF Apart
    <2>4. \A m \in Node : PlainRun(repair[m])
        BY DEF PlainInv
    <2>5. ASSUME NEW run, repair' = [repair EXCEPT ![n] = run], PlainRun(run)
          PROVE  \A m \in Node : PlainRun(repair'[m])
        BY <1>0, <2>4, <2>5
    <2>6. ASSUME NEW p, Skip(n, p) PROVE \A m \in Node : PlainRun(repair'[m])
        <3>1. PlainRun(NextPeer(n, repair[n].todo \ {p}))
            BY DEF NextPeer, NoRepair, PlainRun
        <3>2. repair' = [repair EXCEPT ![n] = NextPeer(n, repair[n].todo \ {p})]
            BY <2>6 DEF Skip
        <3> QED
            BY <2>5, <3>1, <3>2
    <2>7. ASSUME NEW p, NEW pc \in {"diff", "send"}, GoTo(n, pc, p)
          PROVE  \A m \in Node : PlainRun(repair'[m])
        <3>1. repair'[n].pc = pc /\ \A m \in Node \ {n} : repair'[m] = repair[m]
            <4>1. repair[n] \in RepairState
                BY <1>0
            <4>2. repair' = [repair EXCEPT ![n].pc = pc, ![n].peer = p]
                BY <2>7 DEF GoTo
            <4> QED
                BY <1>0, <4>1, <4>2 DEF RepairState
        <3> QED
            BY <2>4, <3>1 DEF PlainRun
    <2>8. ASSUME RepairStart(n) PROVE \A m \in Node : PlainRun(repair'[m])
        <3>1. PICK force \in BOOLEAN : repair' = [repair EXCEPT ![n] =
                  [NoRepair(n) EXCEPT !.pc = "stat", !.todo = Peers[n], !.force = force]]
            BY <2>8 DEF RepairStart
        <3>2. PICK run : run = [NoRepair(n) EXCEPT !.pc = "stat", !.todo = Peers[n],
                                                   !.force = force]
            OBVIOUS
        <3>3. PlainRun(run)
            BY <3>2 DEF NoRepair, PlainRun
        <3> QED
            BY <2>5, <3>1, <3>2, <3>3 DEF PlainRun
    <2>9. ASSUME NEW p \in Node, RepairStat(n, p) PROVE \A m \in Node : PlainRun(repair'[m])
        <3>1. Skip(n, p) \/ GoTo(n, "diff", p)
            BY <2>9 DEF RepairStat, PlainInv, Counting
        <3> QED
            BY <2>6, <2>7, <3>1
    <2>10. PICK p \in Node : p = repair[n].peer
        <3>1. repair[n] \in RepairState
            BY <1>0
        <3> QED
            BY <3>1 DEF RepairState
    <2>11. ASSUME RepairDiff(n) PROVE \A m \in Node : PlainRun(repair'[m])
        <3>1. \/ Skip(n, p)
              \/ repair' = [repair EXCEPT ![n].pc = "give",
                      ![n].give = DayMd5s(p) \ DayMd5s(n),
                      ![n].send = DayMd5s(n) \ DayMd5s(p)]
            BY <2>10, <2>11 DEF RepairDiff
        <3>2. ASSUME ~ Skip(n, p) PROVE \A m \in Node : PlainRun(repair'[m])
            <4>1. repair[n] \in RepairState
                BY <1>0
            <4>2. repair'[n].pc = "give" /\ \A m \in Node \ {n} : repair'[m] = repair[m]
                BY <1>0, <3>1, <3>2, <4>1 DEF RepairState
            <4> QED
                BY <2>4, <4>2 DEF PlainRun
        <3> QED
            BY <2>6, <3>2 DEF PlainRun
    <2>12. ASSUME RepairGive(n) PROVE \A m \in Node : PlainRun(repair'[m])
        <3>1. GoTo(n, "send", p)
            BY <2>10, <2>12 DEF RepairGive
        <3> QED
            BY <2>7, <3>1 DEF PlainRun
    <2>13. ASSUME RepairSend(n) PROVE \A m \in Node : PlainRun(repair'[m])
        <3>1. ASSUME NEW f, repair' = [repair EXCEPT ![n].send = @ \ {f}]
              PROVE  \A m \in Node : PlainRun(repair'[m])
            <4>1. repair[n] \in RepairState /\ repair[n].pc = "send"
                BY <1>0, <2>13 DEF RepairSend
            <4>2. repair'[n].pc = "send" /\ \A m \in Node \ {n} : repair'[m] = repair[m]
                BY <1>0, <3>1, <4>1 DEF RepairState
            <4> QED
                BY <2>4, <4>2 DEF PlainRun
        <3>2. Skip(n, p) \/ \E f : repair' = [repair EXCEPT ![n].send = @ \ {f}]
            BY <2>10, <2>13 DEF RepairSend
        <3> QED
            BY <2>6, <3>1, <3>2 DEF PlainRun
    <2>14. ASSUME NEW f \in File, Resend(n, f) PROVE \A m \in Node : PlainRun(repair'[m])
        BY <2>4, <2>14 DEF Resend, PlainRun
    <2>15. ASSUME CountLog(n) PROVE \A m \in Node : PlainRun(repair'[m])
        BY <2>4, <2>15 DEF CountLog, asked, PlainRun
    <2>16. \A m \in Node : PlainRun(repair'[m])
        BY <1>3, <2>1, <2>8, <2>9, <2>10, <2>11, <2>12, <2>13, <2>14, <2>15
           DEF OfRepair, RepairStep
    <2> QED
        BY <2>2, <2>3, <2>16 DEF PlainInv
<1> QED
    BY <1>1, <1>2, <1>3

(* Whom a repair has still to visit, it visits, or finds up.                *)
LEMMA VisitKept ==
    ASSUME RepairTypeOK, PlainInv, NEW n \in Node, OfRepair(n), ~ RepairStart(n),
           begun' = begun, begun # {}, NEW x \in Node, NEW q \in Node, ToVisit(x, q)
    PROVE  ToVisit(x, q)' \/ alive[q]
<1>0. /\ repair \in [Node -> RepairState] /\ repair[n] \in RepairState
      /\ \A p \in Node : ~ Fails(p)
    BY DEF RepairTypeOK, Fails
<1>1. PICK p \in Node : p = repair[n].peer
    BY <1>0 DEF RepairState
<1>2. ASSUME NEW r \in Node, Skip(n, r), x = n, q # r
      PROVE  ToVisit(x, q)'
    <2> DEFINE todo == repair[n].todo \ {r}
    <2>1. repair'[n] = NextPeer(n, todo) /\ q \in todo /\ repair[n].force
        BY <1>0, <1>2 DEF Skip, ToVisit
    <2>2. repair'[n].pc = "stat" /\ repair'[n].todo = todo /\ repair'[n].force
        BY <2>1 DEF NextPeer, NoRepair
    <2> QED
        BY <1>2, <2>1, <2>2 DEF ToVisit
<1>3. \A r \in Node : RepairStat(n, r) \/ Skip(n, r) \/ RepairDiff(n) \/ RepairGive(n)
                         \/ RepairSend(n) => (x # n => repair'[x] = repair[x])
    BY <1>0 DEF RepairStat, RepairDiff, RepairGive, RepairSend, Skip, GoTo
<1>4. ~ RepairSync(n) /\ \A f \in File : ~ ResendForced(n, f)
    BY DEF RepairSync, ResendForced, PlainInv, PlainRun
<1>5. ASSUME NEW f \in File, Resend(n, f) PROVE ToVisit(x, q)'
    BY <1>5 DEF Resend, ToVisit
<1>8. ASSUME CountLog(n) PROVE ToVisit(x, q)'
    BY <1>8 DEF CountLog, asked, ToVisit
<1>6. CASE x # n
    BY <1>1, <1>3, <1>4, <1>5, <1>6, <1>8 DEF OfRepair, RepairStep, ToVisit
<1>7. CASE x = n
    <2>1. ASSUME NEW r \in Node, RepairStat(n, r) PROVE ToVisit(x, q)' \/ alive[q]
        <3>1. alive[r] /\ (Skip(n, r) \/ GoTo(n, "diff", r))
            BY <1>0, <2>1 DEF RepairStat, Answered, PlainInv, Counting
        <3>2. CASE Skip(n, r)
            BY <1>2, <1>7, <3>1, <3>2
        <3>3. CASE GoTo(n, "diff", r)
            <4>1. /\ repair'[n].pc = "diff" /\ repair'[n].todo = repair[n].todo
                  /\ repair'[n].force = repair[n].force
                <5>1. repair' = [repair EXCEPT ![n].pc = "diff", ![n].peer = r]
                    BY <3>3 DEF GoTo
                <5> QED
                    BY <1>0, <5>1 DEF RepairState
            <4> QED
                BY <1>7, <4>1 DEF ToVisit
        <3> QED
            BY <3>1, <3>2, <3>3
    <2>2. ASSUME RepairDiff(n) PROVE ToVisit(x, q)' \/ alive[q]
        <3>1. /\ alive[p] /\ repair[n].pc = "diff"
              /\ repair' = [repair EXCEPT ![n].pc = "give",
                    ![n].give = DayMd5s(p) \ DayMd5s(n), ![n].send = DayMd5s(n) \ DayMd5s(p)]
            BY <1>0, <1>1, <2>2 DEF RepairDiff, Answered
        <3>2. /\ repair'[n].pc = "give" /\ repair'[n].todo = repair[n].todo
              /\ repair'[n].force = repair[n].force /\ repair'[n].peer = p
            BY <1>0, <1>1, <3>1 DEF RepairState
        <3> QED
            BY <1>7, <3>1, <3>2 DEF ToVisit
    <2>3. ASSUME RepairGive(n) PROVE ToVisit(x, q)'
        <3>1. repair[n].pc = "give" /\ GoTo(n, "send", p)
            BY <1>1, <2>3 DEF RepairGive
        <3>2. /\ repair'[n].pc = "send" /\ repair'[n].todo = repair[n].todo
              /\ repair'[n].force = repair[n].force /\ repair'[n].peer = repair[n].peer
            BY <1>0, <1>1, <3>1 DEF GoTo, RepairState
        <3> QED
            BY <1>7, <3>1, <3>2 DEF ToVisit
    <2>4. ASSUME RepairSend(n) PROVE ToVisit(x, q)'
        <3>1. repair[n].pc = "send"
            BY <2>4 DEF RepairSend
        <3>2. q # p
            BY <1>1, <1>7, <3>1 DEF ToVisit
        <3>3. ASSUME NEW f, repair' = [repair EXCEPT ![n].send = @ \ {f}]
              PROVE  ToVisit(x, q)'
            <4>1. /\ repair'[n].pc = "send" /\ repair'[n].todo = repair[n].todo
                  /\ repair'[n].force = repair[n].force /\ repair'[n].peer = repair[n].peer
                BY <1>0, <3>1, <3>3 DEF RepairState
            <4> QED
                BY <1>7, <3>1, <4>1 DEF ToVisit
        <3>4. Skip(n, p) \/ \E f : repair' = [repair EXCEPT ![n].send = @ \ {f}]
            BY <1>1, <2>4 DEF RepairSend
        <3> QED
            BY <1>2, <1>7, <3>2, <3>3, <3>4
    <2> QED
        BY <1>4, <1>5, <1>8, <2>1, <2>2, <2>3, <2>4 DEF OfRepair, RepairStep
<1> QED
    BY <1>6, <1>7

(* With every node a peer, a forced repair that starts is to visit them all.*)
LEMMA StartVisits ==
    ASSUME AllPeers, RepairTypeOK, NEW n \in Node, RepairStart(n)
    PROVE  /\ begun' = begun \/ (/\ begun' = begun \cup {n}
                                 /\ \A p \in Node \ {n} : ToVisit(n, p)')
           /\ UNCHANGED <<vars, resend>>
           /\ \A m \in Node : AtRest(m) /\ alive[n] /\ repair[m].pc = "off"
           /\ \A m \in Node \ {n} : repair'[m] = repair[m]
<1>1. PICK force \in Forces :
          /\ repair' = [repair EXCEPT ![n] =
                [NoRepair(n) EXCEPT !.pc = "stat", !.todo = Peers[n], !.force = force]]
          /\ begun' = IF force THEN begun \cup {n} ELSE begun
    BY DEF RepairStart
<1>2. repair \in [Node -> RepairState]
    BY DEF RepairTypeOK
<1>3. /\ repair'[n].pc = "stat" /\ repair'[n].todo = Peers[n] /\ repair'[n].force = force
    BY <1>1, <1>2 DEF NoRepair
<1>4. force => \A p \in Node \ {n} : ToVisit(n, p)'
    BY <1>3 DEF ToVisit, AllPeers
<1> QED
    BY <1>1, <1>2, <1>4 DEF RepairStart

(* When no repair runs, nobody is to be visited.                            *)
LEMMA NoVisits ==
    ASSUME PlainInv, \A m \in Node : repair[m].pc = "off"
    PROVE  \A m, p \in Node : ~ ToVisit(m, p)
    BY DEF PlainInv, PlainRun, ToVisit

LEMMA NextAlive ==
    ASSUME AllPeers, RepairTypeOK, RepairTypeOK', PlainInv, AliveInv, RepairNext
    PROVE  AliveInv'
<1>0. begun \subseteq Node /\ alive \in [Node -> BOOLEAN]
    BY DEF RepairTypeOK, TypeOK
<1>1. PICK n \in Node : OfRepair(n) \/ OfReplication(n)
    BY RepairSteps
<1>2. CASE begun' = {}
    BY <1>2 DEF AliveInv
<1>3. CASE OfReplication(n) /\ begun' # {}
    <2>1. ReplicationStep(n) \/ SaveLog(n) \/ RestartWithStat(n)
        BY <1>3 DEF OfReplication, UploadStep, CrashWithRepair
    <2>2. begun' = begun /\ repair' = repair
        BY <1>3, <2>1 DEF ReplicationStep, SaveLog, RestartWithStat, asked
    <2>3. \A p \in Node : alive[p] => alive'[p]
        <3>1. CASE RestartWithStat(n)
            BY <1>0, <3>1 DEF RestartWithStat, Restart
        <3>2. CASE SaveLog(n)
            BY <3>2 DEF SaveLog, ConsumeLog
        <3>3. CASE ReplicationStep(n)
            <4>1. ASSUME NEW t \in Poster, PostStep(n, t) PROVE alive' = alive
                BY <4>1 DEF PostStep, PostTake, PostSkip, PostFound, PostAbsent, PostDelivered,
                            PostLost, PostOk, PostFailed
            <4>2. ASSUME NEW d \in Getter, GetStep(n, d) PROVE alive' = alive
                BY <4>2 DEF GetStep, GetTake, GetStart, GetLock, GetAnswered, GetFailed
            <4>3. ASSUME NEW f \in File, ResendError(n, f) \/ LoadQueue(n, f)
                  PROVE  alive' = alive
                BY <4>3 DEF ResendError, LoadQueue
            <4> QED
                BY <3>3, <4>1, <4>2, <4>3 DEF ReplicationStep
        <3> QED
            BY <2>1, <3>1, <3>2, <3>3
    <2> QED
        BY <1>0, <2>2, <2>3 DEF AliveInv, ToVisit
<1>4. CASE OfRepair(n) /\ begun' # {}
    <2>1. alive' = alive
        BY <1>4, RepairEffect DEF Apart
    <2>2. CASE RepairStart(n)
        <3>1. /\ \A m \in Node : repair[m].pc = "off" /\ alive[n]
              /\ begun' = begun \/ (/\ begun' = begun \cup {n}
                                    /\ \A p \in Node \ {n} : ToVisit(n, p)')
            BY <2>2, StartVisits
        <3>2. \A x \in begun : alive[x] /\ \A p \in Node \ {x} : alive[p]
            BY <1>0, <3>1, NoVisits DEF AliveInv
        <3> QED
            BY <1>0, <2>1, <3>1, <3>2 DEF AliveInv
    <2>3. CASE ~ RepairStart(n)
        <3>1. begun' = begun
            BY <1>4, <2>3 DEF OfRepair, RepairStep, RepairStat, RepairSync, RepairDiff,
                RepairGive, RepairSend, Resend, ResendForced, Fails, Answered, CountLog, asked
        <3>2. \A x, q \in Node : ToVisit(x, q) => ToVisit(x, q)' \/ alive[q]
            BY <1>4, <2>3, <3>1, VisitKept
        <3> QED
            BY <1>0, <2>1, <3>1, <3>2 DEF AliveInv
    <2> QED
        BY <2>2, <2>3
<1> QED
    BY <1>1, <1>2, <1>3, <1>4

-----------------------------------------------------------------------------
(* In an open round, a step of replication keeps what the round asks, ...   *)
Body == Quiet /\ PostRound /\ QueueRound /\ GetRound /\ IndexRound

LEMMA GoingIs ==
    ASSUME RepairTypeOK, ReplicationInv, PlainInv, Body
    PROVE  Going
    BY DEF RepairTypeOK, ReplicationInv, PlainInv, Body, Going, NoneFound

LEMMA ReplicationBody ==
    ASSUME AllPeers, RepairTypeOK, RepairTypeOK', Going, IndexRound,
           NEW n \in Node, OfReplication(n), begun' # {}
    PROVE  Body' /\ begun' = begun
<1>1. ReplicationStep(n) \/ SaveLog(n)
    <2>1. ~ RestartWithStat(n)
        BY DEF RestartWithStat, Restart, Going, Quiet
    <2> QED
        BY <2>1 DEF OfReplication, UploadStep, CrashWithRepair
<1>2. faults' = faults /\ UNCHANGED <<repair, resend, begun>>
    BY <1>1 DEF ReplicationStep, SaveLog, ConsumeLog, env, asked
<1>3. RoundStep(n) /\ TypeOK' /\ begun \subseteq Node
    BY <1>1, <1>2, RoundSteps DEF RepairTypeOK
<1>4. PostRound' /\ QueueRound' /\ GetRound' /\ IndexRound'
    BY <1>2, <1>3, StepPostRound, StepQueueRound, StepGetRound, StepIndexRound
<1>5. alive' = alive /\ toLoad' = toLoad
    <2>1. alive' = alive
        BY <1>3, RoundIsStep
    <2>2. toLoad' = toLoad
        BY <1>3 DEF RoundStep, PostsOn, GetsOn, ResendError, ConsumeLog, PostTake,
                    PostDelivered, PostOk, PostSkip, PostFound, PostAbsent, GetTake, GetLock,
                    GetAnswered
    <2> QED
        BY <2>1, <2>2
<1>6. Quiet'
    BY <1>5 DEF Going, Quiet
<1> QED
    BY <1>2, <1>4, <1>6 DEF Body

(* ... and so does a repair that goes on.                                   *)
LEMMA RepairBody ==
    ASSUME RepairTypeOK, RepairTypeOK', ReplicationInv', PlainInv, Going, IndexRound,
           NEW n \in Node, OfRepair(n), ~ RepairStart(n), begun' # {}
    PROVE  Body' /\ begun' = begun
<1>1. Apart(n)
    BY RepairEffect
<1>2. begun' = begun /\ faults' = faults
    BY DEF OfRepair, RepairStep, RepairStat, RepairSync, RepairDiff, RepairGive, RepairSend,
           Resend, ResendForced, Fails, Answered, CountLog, asked, vars, env
<1>3. Going'
    BY <1>1, ApartGoing DEF RepairTypeOK, ReplicationInv
<1>4. IndexRound'
    <2>1. SUFFICES ASSUME NEW x \in begun, NEW m \in begun, NEW f \in File, x # m,
                          index'[x][f] # NoInfo
                   PROVE  Reached(m, f, index[x][f])' \/ OnWay(x, m, f)' \/ Pending(x, m, f)'
        BY <1>2 DEF IndexRound
    <2>2. /\ x \in Node /\ m \in Node \ {x} /\ TypeOK /\ StoredInv /\ index' = index
          /\ disk' = disk
        BY <1>1, <2>1 DEF RepairTypeOK, Going, Apart, stable
    <2>3. Reached(m, f, index[x][f]) \/ OnWay(x, m, f) \/ Pending(x, m, f)
        BY <2>1, <2>2 DEF IndexRound
    <2>4. ASSUME Reached(m, f, index[x][f]) PROVE Reached(m, f, index[x][f])'
        <3>1. PICK info : info = index[x][f]
            OBVIOUS
        <3>2. Reached(m, f, info)'
            BY <1>1, <2>2, <2>4, <3>1, ApartReached
        <3> QED
            BY <2>2, <3>1, <3>2 DEF Reached
    <2>5. Contains(m, index[x][f].peers) => Reached(m, f, index[x][f])
        BY DEF Reached
    <2>6. f \in disk[m] => Reached(m, f, index[x][f])
        BY DEF Reached, Coming
    <2>7. OnWay(x, m, f) => OnWay(x, m, f)'
        BY <1>1, <2>2, ApartOnWay
    <2>8. Pending(x, m, f) => \/ Pending(x, m, f)' \/ OnWay(x, m, f)'
                              \/ f \in disk[m] \/ Contains(m, index[x][f].peers)
        BY <1>2, <2>1, <2>2, PendingKept
    <2> QED
        BY <2>3, <2>4, <2>5, <2>6, <2>7, <2>8
<1> QED
    BY <1>2, <1>3, <1>4 DEF Body, Going

(* When all is at rest, a round asks only what ldb says, ...                *)
LEMMA RestBody ==
    ASSUME TypeOK, \A m \in Node : AtRest(m)
    PROVE  /\ PostRound /\ QueueRound /\ GetRound
           /\ \A m \in Node, f \in File : /\ toLoad[m][f] = NoInfo
                                          /\ Coming(m, f) => f \in disk[m]
           /\ \A m, x \in Node, f \in File : ~ Sender(m, f) /\ ~ OnWay(x, m, f)
<1>1. /\ \A m \in Node : /\ fileLog[m] = <<>> /\ toPeers[m] = <<>> /\ fromPeers[m] = <<>>
                         /\ \A f \in File : toLoad[m][f] = NoInfo
                         /\ \A t \in Poster : post[m][t].pc = "off"
                         /\ \A d \in Getter : get[m][d].pc = "off"
    BY DEF AtRest
<1>2. PostRound /\ GetRound
    BY <1>1 DEF PostRound, GetRound
<1>3. QueueRound
    BY <1>1 DEF QueueRound, Carries
<1>4. \A m \in Node, f \in File : Coming(m, f) => f \in disk[m]
    BY <1>1 DEF Coming, UnderWay, Loading, Waiting, Running
<1>5. \A m, x \in Node, f \in File : ~ Sender(m, f) /\ ~ OnWay(x, m, f)
    BY <1>1 DEF Sender, OnWay, ToReach
<1> QED
    BY <1>1, <1>2, <1>3, <1>4, <1>5

(* ... so that between two repairs of a round ldb is as it should be.       *)
LEMMA RestIndex ==
    ASSUME TypeOK, PlainInv, IndexRound, begun \subseteq Node,
           \A m \in Node : AtRest(m) /\ repair[m].pc = "off"
    PROVE  \A x, m \in begun, f \in File :
              x # m /\ index[x][f] # NoInfo => f \in disk[m] \/ Contains(m, index[x][f].peers)
<1>1. \A x, m \in Node, f \in File : ~ Pending(x, m, f)
    <2>1. \A x, m \in Node : ~ ToVisit(x, m)
        BY NoVisits
    <2>2. \A x, m \in Node, f \in File : ~ Told(x, m, f)
        BY DEF Told, AtRest
    <2> QED
        BY <2>1, <2>2 DEF Pending
<1> QED
    BY <1>1, RestBody DEF IndexRound, Reached

(* A repair that starts opens the round, or goes on with it.                *)
LEMMA StartBody ==
    ASSUME AllPeers, RepairTypeOK, RepairTypeOK', RoundInv, NEW n \in Node, RepairStart(n), Open'
    PROVE  Body'
<1>0. TypeOK /\ TypeOK' /\ begun \subseteq Node /\ PlainInv /\ AliveInv
    BY DEF RepairTypeOK, RoundInv
<1>1. /\ begun' = begun \/ (/\ begun' = begun \cup {n}
                            /\ \A p \in Node \ {n} : ToVisit(n, p)')
      /\ UNCHANGED <<vars, resend>>
      /\ \A m \in Node : AtRest(m) /\ repair[m].pc = "off"
    BY StartVisits
<1>2. \A m \in Node, f \in File : toLoad[m][f] = NoInfo
    BY <1>0, <1>1, RestBody
<1>3. PostRound' /\ QueueRound' /\ GetRound'
    <2>1. \A m \in Node : /\ fileLog'[m] = <<>> /\ toPeers'[m] = <<>> /\ fromPeers'[m] = <<>>
                          /\ \A t \in Poster : post'[m][t].pc = "off"
                          /\ \A d \in Getter : get'[m][d].pc = "off"
        BY <1>1 DEF AtRest, vars, chans
    <2> QED
        BY <2>1 DEF PostRound, GetRound, QueueRound, Carries
<1>4. Quiet'
    <2>1. PICK x \in begun : TRUE
        BY <1>1 DEF Open
    <2>2. alive[x] /\ \A p \in Node \ {x} : alive[p]
        BY <1>0, <1>1, NoVisits DEF AliveInv
    <2> QED
        BY <1>0, <1>1, <1>2, <2>2 DEF Quiet, vars
<1>5. IndexRound'
    <2>1. SUFFICES ASSUME NEW x \in begun', NEW m \in begun', NEW f \in File, x # m,
                          index'[x][f] # NoInfo
                   PROVE  Reached(m, f, index[x][f])' \/ Pending(x, m, f)'
        BY DEF IndexRound
    <2>2. CASE x \in begun /\ m \in begun
        <3>1. Open /\ IndexRound
            BY <2>1, <2>2 DEF Open, RoundInv
        <3>2. f \in disk[m] \/ Contains(m, index[x][f].peers)
            BY <1>0, <1>1, <2>1, <2>2, <3>1, RestIndex DEF vars, stable
        <3> QED
            BY <1>1, <3>2 DEF Reached, Coming, Contains, vars, stable
    <2>3. CASE x \notin begun \/ m \notin begun
        <3>1. x \in Node /\ m \in Node
            BY <2>1 DEF RepairTypeOK
        <3>2. ToVisit(x, m)' \/ ToVisit(m, x)'
            BY <1>1, <2>1, <2>3, <3>1
        <3> QED
            BY <3>2 DEF Pending
    <2> QED
        BY <2>2, <2>3
<1> QED
    BY <1>3, <1>4, <1>5 DEF Body

-----------------------------------------------------------------------------
LEMMA InitRound == RepairInit /\ Counting => RoundInv
<1> SUFFICES ASSUME RepairInit, Counting PROVE RoundInv
    OBVIOUS
<1>1. begun = {} /\ ~ Open /\ AliveInv
    BY DEF RepairInit, Open, AliveInv
<1>2. \A n \in Node : forced[n] = {} /\ PlainRun(repair[n])
    BY DEF RepairInit, NoRepair, PlainRun
<1>3. \A n \in Node, d \in Getter : get[n][d].pc # "found"
    BY DEF RepairInit, Init, OffGets, NewGet
<1> QED
    BY <1>1, <1>2, <1>3 DEF RoundInv, PlainInv

LEMMA NextRound ==
    AllPeers /\ RepairTypeOK /\ RepairTypeOK' /\ ReplicationInv /\ ReplicationInv'
    /\ RoundInv /\ [RepairNext]_<<vars, repairing>> => RoundInv'
<1> SUFFICES ASSUME AllPeers, RepairTypeOK, RepairTypeOK', ReplicationInv, ReplicationInv',
                    RoundInv, [RepairNext]_<<vars, repairing>>
             PROVE  RoundInv'
    OBVIOUS
<1>1. CASE UNCHANGED <<vars, repairing>>
    <2>1. UNCHANGED <<alive, disk, index, fileLog, toPeers, fromPeers, toLoad, post, get,
                      count, repair, resend, forced, begun>>
        BY <1>1 DEF vars, stable, chans, repairing, asked
    <2>2. PlainInv' /\ AliveInv' /\ (Open' => Open)
        BY <2>1 DEF RoundInv, PlainInv, PlainRun, Counting, AliveInv, ToVisit, Open
    <2>3. ASSUME Body PROVE Body'
        <3>1. RoundSend' = RoundSend /\ RoundGet' = RoundGet /\ RoundLog' = RoundLog
            BY <2>1 DEF RoundSend, RoundGet, RoundLog, ReachedBut, Reached, Coming, UnderWay,
                Loading, Waiting, Running, Sender, ToReach, Contains
        <3>2. Quiet' /\ QueueRound'
            BY <2>1, <2>3, <3>1 DEF Body, Quiet, QueueRound, Carries
        <3>3. PostRound'
            <4> SUFFICES ASSUME NEW n \in Node, NEW t \in Poster, post[n][t].pc # "off"
                         PROVE  InRound(n, post[n][t])'
                BY <2>1 DEF PostRound
            <4>1. InRound(n, post[n][t])
                BY <2>3 DEF Body, PostRound
            <4>2. Coming(post[n][t].to, post[n][t].file)'
                     <=> Coming(post[n][t].to, post[n][t].file)
                BY <2>1 DEF Coming, UnderWay, Loading, Waiting, Running, Contains
            <4> QED
                BY <2>1, <4>1, <4>2 DEF InRound, Contains
        <3>4. GetRound'
            <4> SUFFICES ASSUME NEW n \in Node, NEW d \in Getter, get[n][d].pc # "off",
                                NEW m \in Node \ {n}
                         PROVE  Reached(m, get[n][d].file, get[n][d].info)'
                BY <2>1 DEF GetRound, ReachedBut
            <4>1. Reached(m, get[n][d].file, get[n][d].info)
                BY <2>3 DEF Body, GetRound, ReachedBut
            <4>2. Coming(m, get[n][d].file)' <=> Coming(m, get[n][d].file)
                BY <2>1 DEF Coming, UnderWay, Loading, Waiting, Running, Contains
            <4> QED
                BY <2>1, <4>1, <4>2 DEF Reached, Sender, ToReach, Contains
        <3>5. IndexRound'
            <4> SUFFICES ASSUME NEW n \in begun, NEW m \in begun, NEW f \in File,
                                n # m, index[n][f] # NoInfo
                         PROVE  (Reached(m, f, index[n][f]) \/ OnWay(n, m, f)
                                    \/ Pending(n, m, f))'
                BY <2>1 DEF IndexRound
            <4>1. Reached(m, f, index[n][f]) \/ OnWay(n, m, f) \/ Pending(n, m, f)
                BY <2>3 DEF Body, IndexRound
            <4>2. Coming(m, f)' <=> Coming(m, f)
                BY <2>1 DEF Coming, UnderWay, Loading, Waiting, Running, Contains
            <4>3. Reached(m, f, index[n][f])' <=> Reached(m, f, index[n][f])
                BY <2>1, <4>2 DEF Reached, Sender, ToReach, Contains
            <4>4. OnWay(n, m, f)' <=> OnWay(n, m, f)
                BY <2>1 DEF OnWay, Sender, ToReach, Contains
            <4>5. Pending(n, m, f)' <=> Pending(n, m, f)
                BY <2>1 DEF Pending, ToVisit, Told
            <4> QED
                BY <4>1, <4>3, <4>4, <4>5
        <3> QED
            BY <3>2, <3>3, <3>4, <3>5 DEF Body
    <2> QED
        BY <2>2, <2>3 DEF RoundInv, Body
<1>2. CASE RepairNext
    <2>1. PlainInv' /\ AliveInv'
        BY <1>2, NextPlain, NextAlive DEF RoundInv
    <2>2. ASSUME Open' PROVE Body'
        <3>1. PICK n \in Node : OfRepair(n) \/ OfReplication(n)
            BY <1>2, RepairSteps
        <3>2. begun' # {}
            BY <2>2 DEF Open
        <3>3. CASE RepairStart(n)
            BY <2>2, <3>3, StartBody
        <3>4. CASE ~ RepairStart(n)
            <4>1. begun' = begun
                BY <3>1, <3>2, <3>4 DEF OfRepair, RepairStep, RepairStat, RepairSync, RepairDiff,
                    RepairGive, RepairSend, Resend, ResendForced, Fails, Answered,
                    OfReplication, UploadStep, ReplicationStep, SaveLog, CrashWithRepair,
                    RestartWithStat, CountLog, asked
            <4>2. Body /\ PlainInv
                BY <2>2, <4>1 DEF Open, RoundInv, Body
            <4>3. Going /\ IndexRound
                BY <4>2, GoingIs DEF Body
            <4> QED
                BY <3>1, <3>2, <3>4, <4>2, <4>3, ReplicationBody, RepairBody
        <3> QED
            BY <3>3, <3>4
    <2> QED
        BY <2>1, <2>2 DEF RoundInv, Body
<1> QED
    BY <1>1, <1>2

(* When every node of a group of peers that have counted from the start has *)
(* been through a forced repair, and nothing has failed meanwhile, what a   *)
(* node indexes is wherever it does not take the file to be already.        *)
THEOREM RoundCorrect == AllPeers => (RepairSpec /\ Counting => []OneRoundRepairs)
<1> SUFFICES ASSUME AllPeers PROVE RepairSpec /\ Counting => []OneRoundRepairs
    OBVIOUS
<1>1. ASSUME RepairTypeOK, ReplicationInv, RoundInv PROVE OneRoundRepairs
    <2> SUFFICES ASSUME begun = Node,
                        \A n \in Node : alive[n] /\ AtRest(n) /\ repair[n].pc = "off",
                        NEW n \in Node, NEW m \in Node, NEW f \in File, index[n][f] # NoInfo
                 PROVE  f \in disk[m] \/ Contains(m, index[n][f].peers)
        BY DEF OneRoundRepairs
    <2>1. CASE n = m
        BY <1>1, <2>1 DEF ReplicationInv, StoredInv, IndexedIsStored
    <2>2. CASE n # m
        <3>1. Open /\ PlainInv /\ IndexRound
            BY <1>1, <2>2 DEF Open, RoundInv
        <3> QED
            BY <1>1, <2>2, <3>1, RestIndex DEF RepairTypeOK
    <2> QED
        BY <2>1, <2>2
<1> QED
    BY <1>1, InitRound, NextRound, RepairTypeCorrect, ReplicationInvCorrect, PTL DEF RepairSpec
=============================================================================
