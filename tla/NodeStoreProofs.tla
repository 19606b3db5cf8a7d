-------------------------- MODULE NodeStoreProofs --------------------------
(***************************************************************************)
(* Both ways into a node's store at once, ordinary uploads through the     *)
(* pool of workers and resumable ones, for any numbers of requests,        *)
(* workers and uploads and any size of the queue: the state stays well     *)
(* typed, and a worker never writes the reply of a request whose handler   *)
(* has gone, nor reads a body that is removed.                             *)
(***************************************************************************)
EXTENDS NodeStore, LocalStoreProofs

USE FlagAssumption, BoundAssumption, LogAssumption, NoneAssumption,
    UploadSizeAssumption, RequestAssumption, TusNameAssumption, SumNameAssumption,
    SumsAssumption

(* What the goroutine of resumable uploads has taken is there.              *)
TusInv ==
    /\ TusTypeOK
    /\ \A i \in TusId : bins[i] # NoBin => bins[i].file \in File
    /\ notify.pc # "idle" => notify.id \in TusId /\ notify.info \in Info
    /\ notify.pc \in {"drop", "move"} => bins[notify.id] # NoBin

(* A request that somebody is yet to answer: its handler waits for it.      *)
Waits(r) == handler[r].pc = "waits" /\ r \in tmp /\ r \notin done

Queued(r) == \E i \in 1..Len(queueUpload) : queueUpload[i] = r

(* A request is in one place only: with its handler, queued once, with one  *)
(* worker, or done.                                                         *)
PlaceInv ==
    /\ \A r \in Request : handler[r].pc = "copied" => r \in tmp
    /\ \A r \in Request : Queued(r) => Waits(r)
    /\ \A i, k \in 1..Len(queueUpload) : queueUpload[i] = queueUpload[k] => i = k
    /\ \A u \in Uploader : job[u] # None => Waits(job[u]) /\ ~ Queued(job[u])
    /\ \A u, v \in Uploader : job[u] # None /\ job[u] = job[v] => u = v
    /\ \A r \in done : handler[r].pc = "waits"

(* The inductive invariant of the pool; an upload runs only in a worker.    *)
PoolInv ==
    /\ PoolTypeOK
    /\ PlaceInv
    /\ \A r \in Request : handler[r].pc \in {"copied", "waits"} =>
          handler[r].file \in File /\ handler[r].name \in Name
    /\ \A u \in Uploader : upload[u].pc # "idle" => job[u] # None

NodeInv == StoreInv /\ TusInv /\ PoolInv

-----------------------------------------------------------------------------
(* The queue of requests: what is first, what is left, what is added.       *)
LEMMA QueueParts ==
    /\ \A q \in Seq(Request) : q # <<>> =>
          /\ Head(q) = q[1] /\ Head(q) \in Request /\ Len(q) >= 1
          /\ Tail(q) \in Seq(Request) /\ Len(Tail(q)) = Len(q) - 1
          /\ \A i \in 1..Len(Tail(q)) : Tail(q)[i] = q[i + 1]
    /\ \A q \in Seq(Request), r \in Request :
          /\ Append(q, r) \in Seq(Request) /\ Len(Append(q, r)) = Len(q) + 1
          /\ \A i \in 1..Len(q) : Append(q, r)[i] = q[i]
          /\ Append(q, r)[Len(q) + 1] = r
  <1>1. ASSUME NEW q \in Seq(Request), q # <<>>
        PROVE  /\ Head(q) = q[1] /\ Head(q) \in Request /\ Len(q) >= 1
               /\ Tail(q) \in Seq(Request) /\ Len(Tail(q)) = Len(q) - 1
               /\ \A i \in 1..Len(Tail(q)) : Tail(q)[i] = q[i + 1]
    BY <1>1
  <1>2. ASSUME NEW q \in Seq(Request), NEW r \in Request
        PROVE  /\ Append(q, r) \in Seq(Request) /\ Len(Append(q, r)) = Len(q) + 1
               /\ \A i \in 1..Len(q) : Append(q, r)[i] = q[i]
               /\ Append(q, r)[Len(q) + 1] = r
    OBVIOUS
  <1> QED
    BY <1>1, <1>2

(* An upload that begins or goes on is the only one to change.              *)
LEMMA UploadsStay ==
    ASSUME NEW u \in Uploader, StoreInv,
           \/ \E f \in File, n \in Name : UploadStart(u, f, n)
           \/ UploadStep(u)
    PROVE  \A v \in Uploader : v # u => upload'[v] = upload[v]
  <1>1. upload \in [Uploader -> UploadState]
    BY DEF StoreInv, TypeOK
  <1>2. ASSUME NEW f \in File, NEW n \in Name, UploadStart(u, f, n)
        PROVE  \A v \in Uploader : v # u => upload'[v] = upload[v]
    BY <1>1, <1>2 DEF UploadStart, UploadChoose
  <1>3. CASE UploadStep(u)
    BY <1>1, <1>3 DEF UploadStep, UploadWrite, UploadSum, UploadFinish, UploadLog
  <1> QED
    BY <1>2, <1>3

(* Deletes, the log consumer and peers change none.                         *)
LEMMA OthersLeaveUploads == OtherStep => upload' = upload
  BY DEF OtherStep, RemoveLookup, RemoveLog, RemoveUnlink, CountLog, SaveLog,
         CheckFileExist, PostSend, PostSave

(* A step that leaves the pool and idle uploads alone keeps its invariant.  *)
LEMMA PoolStays ==
    ASSUME PoolInv, UNCHANGED pool,
           \A u \in Uploader : upload'[u].pc # "idle" => upload[u].pc # "idle"
    PROVE  PoolInv'
  BY DEF PoolInv, PoolTypeOK, PlaceInv, Waits, Queued, pool

-----------------------------------------------------------------------------
(* Initially no request is there and no resumable upload is complete.       *)
LEMMA InitNodeInv == NodeInit => NodeInv
  <1> SUFFICES ASSUME NodeInit PROVE NodeInv
    OBVIOUS
  <1>1. StoreInv
    BY InitStoreInv DEF NodeInit, TusInit
  <1>2. TusInv
    BY DEF NodeInit, TusInit, NoBin, NoNotify, TusInv, TusTypeOK
  <1>3. PoolInv
    <2>1. handler \in [Request -> [pc : {"none", "copied", "waits", "returned"},
                                   file : File \cup {None}, name : Name \cup {None}]]
      BY DEF NodeInit, PoolInit, NoRequest
    <2>2. queueUpload \in Seq(Request) /\ Len(queueUpload) = 0
      BY DEF NodeInit, PoolInit
    <2>3. PoolTypeOK
      BY <2>1, <2>2 DEF NodeInit, PoolInit, PoolTypeOK
    <2>4. \A r \in Request : ~ Queued(r) /\ handler[r].pc = "none"
      BY <2>2 DEF NodeInit, PoolInit, NoRequest, Queued
    <2>5. PlaceInv
      BY <2>2, <2>4 DEF NodeInit, PoolInit, PlaceInv
    <2>6. \A u \in Uploader : upload[u].pc = "idle"
      BY DEF NodeInit, PoolInit, Init, NoUpload
    <2> QED
      BY <2>3, <2>4, <2>5, <2>6 DEF PoolInv
  <1> QED
    BY <1>1, <1>2, <1>3 DEF NodeInv

-----------------------------------------------------------------------------
(* tusd completes an upload ...                                             *)
LEMMA CompleteStep ==
    ASSUME StoreInv, TusInv, NEW i \in TusId, NEW f \in File, NEW n \in TusName,
           Complete(i, f, n)
    PROVE  StoreInv' /\ TusInv'
  <1>1. StoreInv'
    <2>1. uploads' \in 0..MaxUploads /\ answered' \subseteq File
      BY DEF Complete, Answer, StoreInv, TypeOK
    <2> QED
      BY <2>1 DEF Complete, store, stat, StoreInv, TypeOK
  <1>2. TusInv'
    <2>1. PICK b \in [file : File \cup {None}, name : Name \cup {None}] :
             b = [file |-> f, name |-> n] /\ b.file = f
      <3>1. n \in Name \cup {None}
        OBVIOUS
      <3>2. [file |-> f, name |-> n] \in [file : File \cup {None}, name : Name \cup {None}]
        BY <3>1
      <3> QED
        BY <3>2
    <2>2. bins' = [bins EXCEPT ![i] = b] /\ b # NoBin
      BY <2>1 DEF Complete, NoBin
    <2> QED
      BY <2>1, <2>2 DEF Complete, TusInv, TusTypeOK
  <1> QED
    BY <1>1, <1>2

(* ... the goroutine takes it ...                                           *)
LEMMA NotifiedStep ==
    ASSUME StoreInv, TusInv, NEW i \in TusId, Notified(i) \/ SumFails(i)
    PROVE  StoreInv' /\ TusInv'
  <1>0. CASE SumFails(i)
    BY <1>0, StoreStays DEF SumFails, TusInv, TusTypeOK
  <1> SUFFICES ASSUME Notified(i) PROVE StoreInv' /\ TusInv'
    BY <1>0
  <1>1. bins[i] # NoBin /\ bins[i].file \in File /\ bins[i].name \in Name \cup {None}
    BY DEF Notified, TusInv, TusTypeOK
  <1>2. Moved(i) \in Info
    <2>1. NewName(i) \in Name \cup Unique
      BY <1>1 DEF NewName
    <2> QED
      BY <1>1, <2>1, InfoParts DEF Moved
  <1>3. IsCopied(i) => Copy(i) \in Info
    BY <1>1 DEF IsCopied, Copy, Key, StoreInv, TypeOK
  <1>4. PICK info \in Info, pc \in {"drop", "move"} :
           notify' = [pc |-> pc, id |-> i, info |-> info]
    BY <1>2, <1>3 DEF Notified
  <1>5. TusInv'
    BY <1>1, <1>4 DEF Notified, TusInv, TusTypeOK
  <1> QED
    BY <1>5, StoreStays DEF Notified

(* ... and drops it for a copy, or moves, names and logs it.                *)
LEMMA NotifyLater ==
    ASSUME StoreInv, TusInv, Drop \/ Move \/ MoveFails \/ NameMoved \/ LogMoved
    PROVE  StoreInv' /\ TusInv'
  <1>1. /\ notify \in [pc : {"idle", "drop", "move", "id", "log"}, id : TusId \cup {None},
                       info : Info \cup {None}]
        /\ notify.pc # "idle"
        /\ notify.id \in TusId /\ notify.info \in Info
        /\ notify.info.md5 \in File /\ notify.info.path \in Path
    <2>1. notify.pc # "idle"
      BY DEF Drop, Move, MoveFails, NameMoved, LogMoved
    <2>2. notify.id \in TusId /\ notify.info \in Info
      BY <2>1 DEF TusInv
    <2> QED
      BY <2>1, <2>2, InfoParts DEF TusInv, TusTypeOK
  <1>2. /\ NoNotify \in [pc : {"idle", "drop", "move", "id", "log"}, id : TusId \cup {None},
                         info : Info \cup {None}]
        /\ NoNotify.pc = "idle"
        /\ NoBin \in [file : File \cup {None}, name : Name \cup {None}]
    BY DEF NoNotify, NoBin
  <1>3. CASE Drop
    <2>1. StoreInv'
      BY <1>1, <1>3 DEF Drop, SaveId, stat, StoreInv, TypeOK
    <2>2. TusInv'
      BY <1>1, <1>2, <1>3 DEF Drop, SaveId, TusInv, TusTypeOK
    <2> QED
      BY <2>1, <2>2
  <1>4. CASE Move
    <2>1. bins[notify.id].file \in File
      BY <1>1, <1>4 DEF Move, TusInv
    <2>2. disk' \in [Path -> File \cup {None}]
      BY <1>1, <1>4, <2>1 DEF Move, StoreInv, TypeOK
    <2>3. StoreInv'
      BY <1>4, <2>2 DEF Move, stat, StoreInv, TypeOK
    <2>4. TusInv'
      BY <1>1, <1>2, <1>4 DEF Move, TusInv, TusTypeOK
    <2> QED
      BY <2>3, <2>4
  <1>5. CASE NameMoved
    <2>1. StoreInv'
      BY <1>1, <1>5 DEF NameMoved, SaveId, stat, StoreInv, TypeOK
    <2>2. TusInv'
      BY <1>1, <1>5 DEF NameMoved, SaveId, TusInv, TusTypeOK
    <2> QED
      BY <2>1, <2>2
  <1>6. CASE LogMoved
    <2>1. PICK info \in Info : info = notify.info
      BY <1>1
    <2>2. fileLog' \in Seq(Log) /\ fileLog' # <<>>
      BY <1>6, <2>1, LogGrows DEF LogMoved
    <2>3. posting' \subseteq Info
      BY <1>1, <1>6 DEF LogMoved, StoreInv, TypeOK
    <2>4. StoreInv'
      BY <1>6, <2>2, <2>3 DEF LogMoved, store, stat, StoreInv, TypeOK, Log
    <2>5. TusInv'
      BY <1>2, <1>6 DEF LogMoved, TusInv, TusTypeOK
    <2> QED
      BY <2>4, <2>5
  <1>7. CASE MoveFails
    <2>1. left' \subseteq TusId
      BY <1>1, <1>7 DEF MoveFails, TusInv, TusTypeOK
    <2>2. TusInv'
      BY <1>2, <1>7, <2>1 DEF MoveFails, TusInv, TusTypeOK
    <2> QED
      BY <1>7, <2>2, StoreStays DEF MoveFails
  <1> QED
    BY <1>3, <1>4, <1>5, <1>6, <1>7

(* No step of the goroutine touches an ordinary upload.                     *)
LEMMA TusNodeStep ==
    ASSUME NodeInv, TusStep, UNCHANGED pool
    PROVE  NodeInv'
  <1>1. StoreInv' /\ TusInv'
    BY CompleteStep, NotifiedStep, NotifyLater DEF TusStep, NotifyStep, NodeInv
  <1>2. upload' = upload
    BY DEF TusStep, NotifyStep, Complete, Notified, SumFails, Drop, Move, MoveFails, NameMoved,
           LogMoved, vars
  <1> QED
    BY <1>1, <1>2, PoolStays DEF NodeInv

-----------------------------------------------------------------------------
(* The handler of a request receives the body, fails, or queues itself ...  *)
LEMMA HandlerTypes ==
    ASSUME PoolInv, NEW r \in Request,
           \/ \E f \in File, n \in Name : Receive(r, f, n)
           \/ ReceiveFails(r) \/ Enqueue(r) \/ Return(r)
    PROVE  /\ PoolTypeOK'
           /\ \A s \in Request : handler'[s].pc \in {"copied", "waits"} =>
                 handler'[s].file \in File /\ handler'[s].name \in Name
           /\ \A s \in Request : s # r => handler'[s] = handler[s]
  <1> DEFINE H == [pc : {"none", "copied", "waits", "returned"},
                   file : File \cup {None}, name : Name \cup {None}]
  <1>1. handler \in [Request -> H] /\ queueUpload \in Seq(Request)
    BY DEF PoolInv, PoolTypeOK
  <1>2. PICK h \in H : /\ handler' = [handler EXCEPT ![r] = h]
                       /\ h.pc \in {"copied", "waits"} => h.file \in File /\ h.name \in Name
    <2>1. ASSUME NEW f \in File, NEW n \in Name, Receive(r, f, n)
          PROVE  \E h \in H : /\ handler' = [handler EXCEPT ![r] = h]
                              /\ h.pc \in {"copied", "waits"} => h.file \in File /\ h.name \in Name
      <3>1. PICK h \in H : h = [pc |-> "copied", file |-> f, name |-> n]
        OBVIOUS
      <3>2. h.file = f /\ h.name = n
        BY <3>1
      <3> QED
        BY <2>1, <3>1, <3>2 DEF Receive
    <2>2. ASSUME NEW p \in {"waits", "returned"},
                 p = "waits" => handler[r].pc \in {"copied", "waits"},
                 handler' = [handler EXCEPT ![r].pc = p]
          PROVE  \E h \in H : /\ handler' = [handler EXCEPT ![r] = h]
                              /\ h.pc \in {"copied", "waits"} => h.file \in File /\ h.name \in Name
      <3>1. PICK g \in H : g = handler[r]
        BY <1>1
      <3>2. PICK h \in H : h = [g EXCEPT !.pc = p]
        OBVIOUS
      <3>3. h.pc = p /\ h.file = g.file /\ h.name = g.name
        BY <3>2
      <3>4. handler' = [handler EXCEPT ![r] = h]
        BY <1>1, <2>2, <3>1, <3>2
      <3>5. p = "waits" => g.file \in File /\ g.name \in Name
        BY <2>2, <3>1 DEF PoolInv
      <3> QED
        BY <3>3, <3>4, <3>5
    <2> QED
      BY <2>1, <2>2 DEF ReceiveFails, Enqueue, Return
  <1>3. handler' \in [Request -> H] /\ \A s \in Request : s # r => handler'[s] = handler[s]
    BY <1>1, <1>2
  <1>4. queueUpload' \in Seq(Request) /\ Len(queueUpload') <= UploadSize
    <2>1. CASE Enqueue(r)
      <3>1. queueUpload' \in Seq(Request) /\ Len(queueUpload') = Len(queueUpload) + 1
        BY <1>1, <2>1, QueueParts DEF Enqueue
      <3>2. Len(queueUpload) \in Nat /\ Len(queueUpload) < UploadSize
        BY <1>1, <2>1 DEF Enqueue
      <3> QED
        BY <3>1, <3>2
    <2>2. CASE queueUpload' = queueUpload
      BY <2>2 DEF PoolInv, PoolTypeOK
    <2> QED
      BY <2>1, <2>2 DEF Receive, ReceiveFails, Return
  <1>5. tmp' \subseteq Request /\ done' \subseteq Request /\ job' = job
    BY DEF Receive, ReceiveFails, Enqueue, Return, PoolInv, PoolTypeOK
  <1>6. \A s \in Request : handler'[s].pc \in {"copied", "waits"} =>
           handler'[s].file \in File /\ handler'[s].name \in Name
    BY <1>1, <1>2 DEF PoolInv
  <1> QED
    BY <1>3, <1>4, <1>5, <1>6 DEF PoolInv, PoolTypeOK

(* ... and, once it has queued itself, is in the queue's last place only.   *)
LEMMA EnqueuePlace ==
    ASSUME PoolInv, NEW r \in Request, Enqueue(r)
    PROVE  PlaceInv'
  <1>1. queueUpload \in Seq(Request) /\ Len(queueUpload) \in Nat
    BY DEF PoolInv, PoolTypeOK
  <1>2. /\ Len(queueUpload') = Len(queueUpload) + 1
        /\ \A i \in 1..Len(queueUpload) : queueUpload'[i] = queueUpload[i]
        /\ queueUpload'[Len(queueUpload) + 1] = r
    BY <1>1, QueueParts DEF Enqueue
  <1>3. \A i \in 1..Len(queueUpload') : i = Len(queueUpload) + 1 \/ i \in 1..Len(queueUpload)
    BY <1>1, <1>2
  <1>4. /\ handler[r].pc = "copied" /\ handler'[r].pc = "waits"
        /\ \A s \in Request : s # r => handler'[s] = handler[s]
        /\ UNCHANGED <<tmp, job, done>>
    BY DEF Enqueue, PoolInv, PoolTypeOK
  <1>5. r \in tmp /\ r \notin done /\ ~ Queued(r) /\ \A u \in Uploader : job[u] # r
    BY <1>4 DEF PoolInv, PlaceInv, Waits
  <1>6. Waits(r)' /\ \A s \in Request : Waits(s) => Waits(s)'
    BY <1>4, <1>5 DEF Waits
  <1>7. \A s \in Request : Queued(s)' => s = r \/ Queued(s)
    BY <1>2, <1>3 DEF Queued
  <1>8. \A s \in Request : Queued(s)' => Waits(s)'
    BY <1>6, <1>7 DEF PoolInv, PlaceInv
  <1>9. \A i, k \in 1..Len(queueUpload') : queueUpload'[i] = queueUpload'[k] => i = k
    BY <1>2, <1>3, <1>5 DEF PoolInv, PlaceInv, Queued
  <1>10. \A u \in Uploader : job[u] # None => job[u] \in Request
    BY DEF PoolInv, PoolTypeOK
  <1>11. \A u \in Uploader : job'[u] # None => Waits(job[u])' /\ ~ Queued(job[u])'
    BY <1>4, <1>5, <1>6, <1>7, <1>10 DEF PoolInv, PlaceInv
  <1>12. \A s \in done' : handler'[s].pc = "waits"
    BY <1>4, <1>5 DEF PoolInv, PlaceInv, PoolTypeOK
  <1>13. \A s \in Request : handler'[s].pc = "copied" => s \in tmp'
    BY <1>4, <1>5 DEF PoolInv, PlaceInv
  <1> QED
    BY <1>4, <1>8, <1>9, <1>11, <1>12, <1>13 DEF PoolInv, PlaceInv

(* A request that nobody has is not waited for ...                          *)
LEMMA ReceivePlace ==
    ASSUME PoolInv, NEW r \in Request,
           (\E f \in File, n \in Name : Receive(r, f, n)) \/ ReceiveFails(r)
    PROVE  PlaceInv'
  <1>1. /\ handler[r].pc = "none" /\ handler'[r].pc \in {"copied", "returned"}
        /\ handler'[r].pc = "copied" => r \in tmp'
        /\ \A s \in Request : s # r => handler'[s] = handler[s]
        /\ tmp \subseteq tmp'
        /\ UNCHANGED <<queueUpload, job, done>>
    BY DEF Receive, ReceiveFails, PoolInv, PoolTypeOK
  <1>2. \A s \in Request : Waits(s) => Waits(s)'
    BY <1>1 DEF Waits
  <1>3. \A s : Queued(s)' <=> Queued(s)
    BY <1>1 DEF Queued
  <1>4. \A u \in Uploader : job[u] # None => job[u] \in Request
    BY DEF PoolInv, PoolTypeOK
  <1>5. \A u \in Uploader : job'[u] # None => Waits(job[u])' /\ ~ Queued(job[u])'
    BY <1>1, <1>2, <1>3, <1>4 DEF PoolInv, PlaceInv
  <1>6. \A s \in done' : handler'[s].pc = "waits"
    BY <1>1 DEF PoolInv, PlaceInv, PoolTypeOK
  <1>7. \A s \in Request : handler'[s].pc = "copied" => s \in tmp'
    BY <1>1 DEF PoolInv, PlaceInv
  <1> QED
    BY <1>1, <1>2, <1>3, <1>5, <1>6, <1>7 DEF PoolInv, PlaceInv

(* ... nor is one that is done, once its handler has returned.              *)
LEMMA ReturnPlace ==
    ASSUME PoolInv, NEW r \in Request, Return(r)
    PROVE  PlaceInv'
  <1>1. /\ r \in done /\ handler'[r].pc = "returned"
        /\ \A s \in Request : s # r => handler'[s] = handler[s]
        /\ tmp' = tmp \ {r} /\ done' = done \ {r}
        /\ UNCHANGED <<queueUpload, job>>
    BY DEF Return, PoolInv, PoolTypeOK
  <1>2. \A s \in Request : Waits(s) => Waits(s)'
    BY <1>1 DEF Waits
  <1>3. \A s : Queued(s)' <=> Queued(s)
    BY <1>1 DEF Queued
  <1>4. \A u \in Uploader : job[u] # None => job[u] \in Request
    BY DEF PoolInv, PoolTypeOK
  <1>5. \A u \in Uploader : job'[u] # None => Waits(job[u])' /\ ~ Queued(job[u])'
    BY <1>1, <1>2, <1>3, <1>4 DEF PoolInv, PlaceInv
  <1>6. \A s \in done' : handler'[s].pc = "waits"
    BY <1>1 DEF PoolInv, PlaceInv, PoolTypeOK
  <1>7. \A s \in Request : handler'[s].pc = "copied" => s \in tmp'
    BY <1>1 DEF PoolInv, PlaceInv
  <1> QED
    BY <1>1, <1>2, <1>3, <1>5, <1>6, <1>7 DEF PoolInv, PlaceInv

(* A handler's step changes neither the store nor an upload.                *)
LEMMA HandlerNodeStep ==
    ASSUME NodeInv, NEW r \in Request, UNCHANGED tus,
           \/ \E f \in File, n \in Name : Receive(r, f, n)
           \/ ReceiveFails(r) \/ Enqueue(r) \/ Return(r)
    PROVE  NodeInv'
  <1>1. UNCHANGED vars
    BY DEF Receive, ReceiveFails, Enqueue, Return
  <1>2. StoreInv' /\ upload' = upload
    BY <1>1, StoreStays DEF NodeInv, vars
  <1>3. TusInv'
    BY DEF NodeInv, TusInv, TusTypeOK, tus
  <1>4. PoolTypeOK' /\ \A s \in Request : handler'[s].pc \in {"copied", "waits"} =>
                          handler'[s].file \in File /\ handler'[s].name \in Name
    BY HandlerTypes DEF NodeInv
  <1>5. PlaceInv'
    BY EnqueuePlace, ReceivePlace, ReturnPlace DEF NodeInv
  <1>6. \A u \in Uploader : upload'[u].pc # "idle" => job'[u] # None
    BY <1>2 DEF NodeInv, PoolInv, Receive, ReceiveFails, Enqueue, Return
  <1> QED
    BY <1>2, <1>3, <1>4, <1>5, <1>6 DEF NodeInv, PoolInv

-----------------------------------------------------------------------------
(* A worker takes the first request, which is then in no other place ...    *)
LEMMA TakePlace ==
    ASSUME PoolInv, NEW u \in Uploader, TakeUpload(u)
    PROVE  PoolTypeOK' /\ PlaceInv'
           /\ job'[u] # None /\ \A v \in Uploader : v # u => job'[v] = job[v]
  <1>1. queueUpload \in Seq(Request) /\ Len(queueUpload) \in Nat /\ queueUpload # <<>>
        /\ Len(queueUpload) <= UploadSize
    BY DEF PoolInv, PoolTypeOK, TakeUpload
  <1>2. /\ Head(queueUpload) = queueUpload[1] /\ Head(queueUpload) \in Request
        /\ Len(queueUpload) >= 1
        /\ queueUpload' \in Seq(Request) /\ Len(queueUpload') = Len(queueUpload) - 1
        /\ \A i \in 1..Len(queueUpload') : queueUpload'[i] = queueUpload[i + 1]
    BY <1>1, QueueParts DEF TakeUpload
  <1>3. PICK r \in Request : r = queueUpload[1] /\ r = Head(queueUpload)
    BY <1>2
  <1>4. /\ job[u] = None /\ job' = [job EXCEPT ![u] = r]
        /\ UNCHANGED <<handler, tmp, done>>
        /\ job \in [Uploader -> Request \cup {None}]
    BY <1>3 DEF TakeUpload, PoolInv, PoolTypeOK
  <1>5. /\ job'[u] = r /\ \A v \in Uploader : v # u => job'[v] = job[v]
        /\ job' \in [Uploader -> Request \cup {None}]
    BY <1>4
  <1>6. PoolTypeOK'
    BY <1>1, <1>2, <1>4, <1>5 DEF PoolInv, PoolTypeOK
  <1>7. Queued(r) /\ Waits(r) /\ \A v \in Uploader : job[v] # r
    <2>1. 1 \in 1..Len(queueUpload)
      BY <1>1, <1>2
    <2>2. Queued(r)
      BY <1>3, <2>1 DEF Queued
    <2> QED
      BY <2>2, RequestAssumption DEF PoolInv, PlaceInv
  <1>8. \A i \in 1..Len(queueUpload') :
           i + 1 \in 1..Len(queueUpload) /\ i + 1 # 1 /\ queueUpload'[i] = queueUpload[i + 1]
    BY <1>1, <1>2
  <1>9. ~ Queued(r)' /\ \A s : Queued(s)' => Queued(s)
    <2>1. \A i \in 1..Len(queueUpload) : queueUpload[i] = r => i = 1
      BY <1>1, <1>2, <1>3 DEF PoolInv, PlaceInv
    <2> QED
      BY <1>8, <2>1 DEF Queued
  <1>10. \A i, k \in 1..Len(queueUpload') : queueUpload'[i] = queueUpload'[k] => i = k
    <2> SUFFICES ASSUME NEW i \in 1..Len(queueUpload'), NEW k \in 1..Len(queueUpload'),
                        queueUpload'[i] = queueUpload'[k]
                 PROVE  i = k
      OBVIOUS
    <2>1. i + 1 = k + 1
      BY <1>8 DEF PoolInv, PlaceInv
    <2> QED
      BY <1>2, <2>1
  <1>11. \A s : Waits(s)' <=> Waits(s)
    BY <1>4 DEF Waits
  <1>12. \A v \in Uploader : job'[v] # None => Waits(job[v])' /\ ~ Queued(job[v])'
    BY <1>5, <1>7, <1>9, <1>11 DEF PoolInv, PlaceInv
  <1>13. \A v, w \in Uploader : job'[v] # None /\ job'[v] = job'[w] => v = w
    BY <1>5, <1>7 DEF PoolInv, PlaceInv
  <1> QED
    BY <1>4, <1>5, <1>6, <1>9, <1>10, <1>11, <1>12, <1>13 DEF PoolInv, PlaceInv

(* ... so that its file and name are those it came with ...                 *)
LEMMA TakenUpload ==
    ASSUME NodeInv, NEW u \in Uploader, TakeUpload(u)
    PROVE  \E f \in File, n \in Name : UploadStart(u, f, n)
  <1>1. PICK r \in Request : r = Head(queueUpload) /\ r = queueUpload[1] /\ Queued(r)
    <2>1. queueUpload \in Seq(Request) /\ Len(queueUpload) \in Nat /\ queueUpload # <<>>
      BY DEF TakeUpload, NodeInv, PoolInv, PoolTypeOK
    <2>2. 1 \in 1..Len(queueUpload)
      BY <2>1, QueueParts
    <2> QED
      BY <2>1, <2>2, QueueParts DEF Queued
  <1>2. handler[r].file \in File /\ handler[r].name \in Name
    BY <1>1 DEF NodeInv, PoolInv, PlaceInv, Waits
  <1> QED
    BY <1>1, <1>2 DEF TakeUpload

(* ... begins and goes on with its upload ...                               *)
LEMMA WorkNodeStep ==
    ASSUME NodeInv, NEW u \in Uploader, UNCHANGED tus,
           TakeUpload(u) \/ (UploadStep(u) /\ UNCHANGED pool)
    PROVE  NodeInv'
  <1>1. TusInv'
    BY DEF NodeInv, TusInv, TusTypeOK, tus
  <1>2. CASE TakeUpload(u)
    <2>3. PICK f \in File, n \in Name : UploadStart(u, f, n)
      BY <1>2, TakenUpload
    <2>4. StoreInv' /\ \A v \in Uploader : v # u => upload'[v] = upload[v]
      BY <2>3, UploadStartType, UploadsStay DEF NodeInv
    <2>5. PoolTypeOK' /\ PlaceInv'
          /\ job'[u] # None /\ \A v \in Uploader : v # u => job'[v] = job[v]
      BY <1>2, TakePlace DEF NodeInv
    <2>6. handler' = handler
      BY <1>2 DEF TakeUpload
    <2>7. PoolInv'
      BY <2>4, <2>5, <2>6 DEF NodeInv, PoolInv
    <2> QED
      BY <1>1, <2>4, <2>7 DEF NodeInv
  <1>3. CASE UploadStep(u) /\ UNCHANGED pool
    <2>1. StoreInv' /\ \A v \in Uploader : v # u => upload'[v] = upload[v]
      BY <1>3, UploadStepType, UploadsStay DEF NodeInv
    <2>2. upload[u].pc # "idle"
      BY <1>3 DEF UploadStep, UploadWrite, UploadSum, UploadFinish, UploadLog
    <2>3. PoolInv'
      BY <1>3, <2>1, <2>2, PoolStays DEF NodeInv
    <2> QED
      BY <1>1, <2>1, <2>3 DEF NodeInv
  <1> QED
    BY <1>2, <1>3

(* ... and says that it is done.                                            *)
LEMMA SendDoneNodeStep ==
    ASSUME NodeInv, NEW u \in Uploader, UNCHANGED tus, SendDone(u)
    PROVE  NodeInv'
  <1>1. StoreInv' /\ upload' = upload /\ TusInv'
    BY StoreStays DEF NodeInv, SendDone, vars, TusInv, TusTypeOK, tus
  <1>2. job \in [Uploader -> Request \cup {None}]
    BY DEF NodeInv, PoolInv, PoolTypeOK
  <1>3. PICK r \in Request : r = job[u] /\ r # None
    BY <1>2 DEF SendDone, Uploaded
  <1>4. /\ done' = done \cup {r} /\ upload[u].pc = "idle"
        /\ job'[u] = None /\ \A v \in Uploader : v # u => job'[v] = job[v]
        /\ job' \in [Uploader -> Request \cup {None}]
        /\ UNCHANGED <<handler, tmp, queueUpload>>
    BY <1>2, <1>3 DEF SendDone, Uploaded
  <1>5. PoolTypeOK'
    BY <1>4 DEF NodeInv, PoolInv, PoolTypeOK
  <1>6. Waits(r) /\ ~ Queued(r) /\ \A v \in Uploader : v # u => job[v] # r
    BY <1>3 DEF NodeInv, PoolInv, PlaceInv
  <1>7. /\ \A s : s # r /\ Waits(s) => Waits(s)'
        /\ \A s : Queued(s)' <=> Queued(s)
    BY <1>4 DEF Waits, Queued
  <1>8. PlaceInv'
    <2>1. \A s \in Request : handler'[s].pc = "copied" => s \in tmp'
      BY <1>4 DEF NodeInv, PoolInv, PlaceInv
    <2>2. \A s \in Request : Queued(s)' => Waits(s)'
      BY <1>6, <1>7 DEF NodeInv, PoolInv, PlaceInv
    <2>3. \A i, k \in 1..Len(queueUpload') : queueUpload'[i] = queueUpload'[k] => i = k
      BY <1>4 DEF NodeInv, PoolInv, PlaceInv
    <2>4. \A v \in Uploader : job'[v] # None => Waits(job[v])' /\ ~ Queued(job[v])'
      BY <1>4, <1>6, <1>7 DEF NodeInv, PoolInv, PlaceInv
    <2>5. \A v, w \in Uploader : job'[v] # None /\ job'[v] = job'[w] => v = w
      BY <1>4 DEF NodeInv, PoolInv, PlaceInv
    <2>6. \A s \in done' : handler'[s].pc = "waits"
      BY <1>4, <1>6 DEF NodeInv, PoolInv, PlaceInv, Waits
    <2> QED
      BY <2>1, <2>2, <2>3, <2>4, <2>5, <2>6 DEF PlaceInv
  <1>9. \A v \in Uploader : upload'[v].pc # "idle" => job'[v] # None
    BY <1>1, <1>4 DEF NodeInv, PoolInv
  <1> QED
    BY <1>1, <1>4, <1>5, <1>8, <1>9 DEF NodeInv, PoolInv

(* Every step of the node keeps the invariant.                              *)
LEMMA NextNodeInv ==
    ASSUME NodeInv, [NodeNext]_<<vars, tus, pool>>
    PROVE  NodeInv'
  <1>1. CASE PoolNext /\ UNCHANGED tus
    <2>1. CASE OtherStep /\ UNCHANGED pool
      <3>1. StoreInv' /\ upload' = upload
        BY <2>1, OtherStepType, OthersLeaveUploads DEF NodeInv
      <3>2. TusInv'
        BY <1>1 DEF NodeInv, TusInv, TusTypeOK, tus
      <3> QED
        BY <2>1, <3>1, <3>2, PoolStays DEF NodeInv
    <2>2. ASSUME NEW r \in Request,
                 \/ \E f \in File, n \in Name : Receive(r, f, n)
                 \/ ReceiveFails(r) \/ HandlerStep(r)
          PROVE  NodeInv'
      BY <1>1, <2>2, HandlerNodeStep DEF HandlerStep
    <2>3. ASSUME NEW u \in Uploader, WorkerStep(u)
          PROVE  NodeInv'
      BY <1>1, <2>3, WorkNodeStep, SendDoneNodeStep DEF WorkerStep
    <2> QED
      BY <1>1, <2>1, <2>2, <2>3 DEF PoolNext
  <1>2. CASE TusStep /\ UNCHANGED pool
    BY <1>2, TusNodeStep
  <1>3. CASE UNCHANGED <<vars, tus, pool>>
    <2>1. StoreInv' /\ TusInv' /\ upload' = upload
      BY <1>3, StoreStays DEF NodeInv, TusInv, TusTypeOK, tus, vars
    <2> QED
      BY <1>3, <2>1, PoolStays DEF NodeInv
  <1> QED
    BY <1>1, <1>2, <1>3 DEF NodeNext

(* The state of both ways into the store is well typed: the goroutine of    *)
(* resumable uploads and the workers never handle what is not there.        *)
THEOREM NodeTypeCorrect == NodeSpec => []NodeTypeOK
  <1>1. NodeInv => NodeTypeOK
    BY DEF NodeInv, StoreInv, TusInv, PoolInv, NodeTypeOK
  <1>2. NodeInv /\ [NodeNext]_<<vars, tus, pool>> => NodeInv'
    BY NextNodeInv
  <1> QED
    BY <1>1, <1>2, InitNodeInv, PTL DEF NodeSpec

(* While a worker runs upload, the handler of its request waits with the    *)
(* reply open and the body's file in place, and no other worker has the     *)
(* request.                                                                 *)
THEOREM WorkerHasHandlerCorrect == NodeSpec => []WorkerHasHandler
  <1>1. NodeInv => WorkerHasHandler
    BY DEF NodeInv, PoolInv, PlaceInv, Waits, Queued, WorkerHasHandler
  <1>2. NodeInv /\ [NodeNext]_<<vars, tus, pool>> => NodeInv'
    BY NextNodeInv
  <1> QED
    BY <1>1, <1>2, InitNodeInv, PTL DEF NodeSpec

-----------------------------------------------------------------------------
(* Every upload gets a name of its own, as nobody deletes: the server draws *)
(* it (rename_file), for any number of workers and whatever clients send;   *)
(* or one worker alone decides on the numbered names, for clients that      *)
(* choose none themselves.                                                  *)
OwnNames ==
    /\ Deleter = {}
    /\ \/ RenameFile
       \/ /\ ~ CustomNames /\ TusName \subseteq {None} /\ Name \cap Unique = {}
          /\ \A u, v \in Uploader : u = v

Logged == {fileLog[i].info : i \in 1..Len(fileLog)}

(* The FileInfos that somebody has recorded, or is about to.                *)
Known == {info \in Info : \/ \E k \in Key : ldb[k] = info
                          \/ info \in Logged \cup posting \cup sent
                          \/ \E i \in TusId : ids[i] = info
                          \/ notify.pc \in {"drop", "id", "log"} /\ notify.info = info}

(* Each leads to its content ...                                            *)
StoredInv ==
    /\ \A info \in Known : disk[info.path] = info.md5
    /\ \A i \in 1..Len(fileLog) : fileLog[i].kind = "files"
    /\ \A f \in File : ldb[f] # None => ldb[f].md5 = f

(* ... which no upload writes over or removes: its path is its own.         *)
OwnPath(j) ==
    j.pc # "idle" =>
        /\ Recorded(j) = j.path /\ Duplicate(j) = j.path
        /\ j.path[2] \notin Sums /\ (RenameFile => j.path[2] \in drawn)
        /\ \A info \in Known : info.path # j.path
        /\ j.pc = "sum" => Exists(j.path)
        /\ j.pc \in {"finish", "log"} => disk[j.path] = j.md5
OwnPathInv ==
    /\ \A u \in Uploader : OwnPath(upload[u])
    /\ \A u, v \in Uploader : upload[u].pc # "idle" /\ upload[v].pc # "idle" =>
          (upload[u].path = upload[v].path => u = v)
    /\ RenameFile => \A p \in Path : Exists(p) => p[2] \in drawn \cup Sums

(* A name that is a sum has that content, or a copy of it on its way.       *)
MovedInv ==
    /\ \A f \in File : disk[<<0, SumName[f]>>] \in {None, f}
    /\ RenameFile \/ \A i \in TusId : bins[i].name = None
    /\ notify.pc \in {"drop", "move"} => notify.info.md5 = bins[notify.id].file
    /\ notify.pc = "drop" => ldb[notify.info.md5] # None
    /\ notify.pc = "move" => notify.info.path = <<0, SumName[notify.info.md5]>>

(* What is answered is recorded, or soon will be.                           *)
Recording(f) ==
    \/ ldb[f] # None
    \/ \E info \in Logged : info.md5 = f
    \/ \E i \in TusId : bins[i].file = f
    \/ notify.pc \in {"id", "log"} /\ notify.info.md5 = f
AnsweredInv == \A f \in answered : Recording(f)

KeptInv == StoredInv /\ OwnPathInv /\ MovedInv /\ AnsweredInv

-----------------------------------------------------------------------------
(* An entry less and an entry more in the log.                              *)
LEMMA LoggedShrinks ==
    ASSUME fileLog \in Seq(Log), fileLog # <<>>, fileLog' = Tail(fileLog),
           \A i \in 1..Len(fileLog) : fileLog[i].kind = "files"
    PROVE  /\ Head(fileLog).info \in Logged /\ Head(fileLog).kind = "files"
           /\ Logged' \subseteq Logged
           /\ \A info \in Logged : info \in Logged' \/ info = Head(fileLog).info
           /\ \A i \in 1..Len(fileLog') : fileLog'[i].kind = "files"
  <1>1. /\ Len(fileLog) \in Nat /\ Len(fileLog) >= 1
        /\ Head(fileLog) = fileLog[1] /\ Len(fileLog') = Len(fileLog) - 1
        /\ \A i \in 1..Len(fileLog') : fileLog'[i] = fileLog[i + 1]
    OBVIOUS
  <1>2. /\ 1 \in 1..Len(fileLog)
        /\ \A i \in 1..Len(fileLog') : i + 1 \in 1..Len(fileLog)
        /\ \A i \in 1..Len(fileLog) : i = 1 \/ (i - 1 \in 1..Len(fileLog') /\ i - 1 + 1 = i)
    BY <1>1
  <1>3. \A i \in 1..Len(fileLog) :
           fileLog[i] = Head(fileLog) \/ \E k \in 1..Len(fileLog') : fileLog'[k] = fileLog[i]
    <2> SUFFICES ASSUME NEW i \in 1..Len(fileLog), i # 1
                 PROVE  \E k \in 1..Len(fileLog') : fileLog'[k] = fileLog[i]
      BY <1>1
    <2>1. i - 1 \in 1..Len(fileLog') /\ i - 1 + 1 = i
      BY <1>2
    <2>2. fileLog'[i - 1] = fileLog[i]
      BY <1>1, <2>1
    <2> QED
      BY <2>1, <2>2
  <1>4. \A i \in 1..Len(fileLog') : \E k \in 1..Len(fileLog) : fileLog'[i] = fileLog[k]
    BY <1>1, <1>2
  <1>5. /\ Logged' \subseteq Logged
        /\ \A info \in Logged : info \in Logged' \/ info = Head(fileLog).info
    <2>1. Logged' \subseteq Logged
      BY <1>4 DEF Logged
    <2>2. ASSUME NEW i \in 1..Len(fileLog)
          PROVE  fileLog[i].info \in Logged' \/ fileLog[i].info = Head(fileLog).info
      BY <1>3 DEF Logged
    <2> QED
      BY <2>1, <2>2 DEF Logged
  <1>6. Head(fileLog).info \in Logged /\ Head(fileLog).kind = "files"
    BY <1>1, <1>2 DEF Logged
  <1> QED
    BY <1>4, <1>5, <1>6

LEMMA LoggedGrows ==
    ASSUME fileLog \in Seq(Log), NEW info \in Info,
           fileLog' = Append(fileLog, Entry("files", info)),
           \A i \in 1..Len(fileLog) : fileLog[i].kind = "files"
    PROVE  /\ Logged' = Logged \cup {info}
           /\ \A i \in 1..Len(fileLog') : fileLog'[i].kind = "files"
  <1>1. PICK e \in Log : e = Entry("files", info) /\ e.kind = "files" /\ e.info = info
    BY DEF Entry, Log
  <1>2. /\ Len(fileLog) \in Nat /\ Len(fileLog') = Len(fileLog) + 1
        /\ fileLog'[Len(fileLog) + 1] = e
        /\ \A i \in 1..Len(fileLog) : fileLog'[i] = fileLog[i]
    BY <1>1
  <1>3. /\ 1..Len(fileLog) \subseteq 1..Len(fileLog') /\ Len(fileLog) + 1 \in 1..Len(fileLog')
        /\ \A i \in 1..Len(fileLog') : i \in 1..Len(fileLog) \/ i = Len(fileLog) + 1
    BY <1>2
  <1> QED
    BY <1>1, <1>2, <1>3 DEF Logged

(* A known FileInfo is one; who has its content is not without a file.      *)
LEMMA KnownParts ==
    ASSUME StoredInv
    PROVE  \A info \in Known : /\ info \in Info /\ info.path \in Path /\ info.md5 \in File
                               /\ disk[info.path] = info.md5 /\ Exists(info.path)
  BY InfoParts DEF Known, StoredInv, Exists

(* A step that leaves files and uploads alone, and records no more.         *)
LEMMA FilesStay ==
    ASSUME StoredInv, OwnPathInv, disk' = disk, upload' = upload, drawn' = drawn,
           Known' \subseteq Known
    PROVE  OwnPathInv' /\ \A info \in Known' : disk'[info.path] = info.md5
  BY DEF StoredInv, OwnPathInv, OwnPath, Recorded, Duplicate, Exists

-----------------------------------------------------------------------------
(* The log consumer and peers.                                              *)
LEMMA OtherKept ==
    ASSUME NodeInv, KeptInv, OwnNames, OtherStep, UNCHANGED tus
    PROVE  KeptInv'
  <1>1. /\ fileLog \in Seq(Log) /\ ldb \in [Key -> Info \cup {None}]
        /\ posting \subseteq Info /\ sent \subseteq Info
    BY DEF NodeInv, StoreInv, TypeOK, Log
  <1>2. CASE CountLog
    <2>1. UNCHANGED <<disk, ldb, fileLog, upload, posting, sent, answered, drawn, tus>>
      BY <1>2 DEF CountLog
    <2>2. Logged' = Logged /\ Known' = Known
      BY <2>1 DEF Logged, Known, tus
    <2>3. OwnPathInv' /\ \A x \in Known' : disk'[x.path] = x.md5
      BY <2>1, <2>2, FilesStay DEF KeptInv
    <2> QED
      BY <2>1, <2>2, <2>3 DEF KeptInv, StoredInv, MovedInv, AnsweredInv, Recording, tus
  <1>3. CASE SaveLog
    <2>1. fileLog # <<>> /\ fileLog' = Tail(fileLog)
      BY <1>3 DEF SaveLog, NodeInv, StoreInv
    <2>2. /\ Head(fileLog).info \in Logged /\ Head(fileLog).kind = "files"
          /\ Logged' \subseteq Logged
          /\ \A info \in Logged : info \in Logged' \/ info = Head(fileLog).info
          /\ \A i \in 1..Len(fileLog') : fileLog'[i].kind = "files"
      BY <1>1, <2>1, LoggedShrinks DEF KeptInv, StoredInv
    <2>3. PICK info \in Info : info = Head(fileLog).info /\ info \in Known
      BY <1>1, <2>1, <2>2, LogParts DEF Known
    <2>4. info.md5 \in File /\ info.md5 \in Key /\ info.path \in Key /\ info.path \notin File
      BY InfoParts, KeyAssumption
    <2>5. ldb' = Saved(info)
      BY <1>3, <2>2, <2>3 DEF SaveLog
    <2>6. \A k \in Key : ldb'[k] = IF k \in {info.md5, info.path} THEN info ELSE ldb[k]
      BY <1>1, <2>4, <2>5 DEF Saved
    <2>7. UNCHANGED <<disk, upload, posting, sent, answered, drawn, tus>>
      BY <1>3 DEF SaveLog
    <2>8. Known' \subseteq Known
      BY <2>2, <2>3, <2>6, <2>7 DEF Known, tus
    <2>9. StoredInv' /\ OwnPathInv'
      BY <2>2, <2>4, <2>6, <2>7, <2>8, FilesStay DEF KeptInv, StoredInv, Key
    <2>10. \A f \in File : ldb[f] # None => ldb'[f] # None
      BY <2>6, KeyAssumption DEF Key
    <2>11. MovedInv'
      BY <2>7, <2>10 DEF KeptInv, MovedInv, tus, NodeInv, TusInv
    <2>12. AnsweredInv'
      BY <2>2, <2>3, <2>4, <2>6, <2>7, <2>10, KeyAssumption
         DEF KeptInv, AnsweredInv, Recording, tus, NodeInv, StoreInv, TypeOK
    <2> QED
      BY <2>9, <2>11, <2>12 DEF KeptInv
  <1>4. CASE \E f \in File : CheckFileExist(f)
    <2>1. PICK f \in File : CheckFileExist(f)
      BY <1>4
    <2>2. ldb[f] \in Known
      BY <1>1, <2>1 DEF CheckFileExist, Key, Known
    <2> QED
      BY <2>1, <2>2, KnownParts DEF CheckFileExist, KeptInv
  <1>5. CASE \E info \in Info : PostSend(info)
    <2>1. /\ UNCHANGED <<disk, ldb, fileLog, upload, answered, drawn, tus>>
          /\ posting' \cup sent' \subseteq posting \cup sent
      BY <1>5 DEF PostSend, store
    <2>2. Logged' = Logged /\ Known' \subseteq Known
      BY <2>1 DEF Logged, Known, tus
    <2>3. OwnPathInv' /\ \A info \in Known' : disk'[info.path] = info.md5
      BY <2>1, <2>2, FilesStay DEF KeptInv
    <2> QED
      BY <2>1, <2>2, <2>3 DEF KeptInv, StoredInv, MovedInv, AnsweredInv, Recording, tus
  <1>6. CASE \E info \in Info : PostSave(info)
    <2>1. PICK info \in Info : PostSave(info)
      BY <1>6
    <2>2. info \in Known /\ info.md5 \in File /\ info.md5 \in Key
      BY <2>1, InfoParts DEF PostSave, Known
    <2>3. /\ UNCHANGED <<disk, fileLog, upload, answered, drawn, tus, posting>> /\ sent' \subseteq sent
          /\ \A k \in Key : ldb'[k] = ldb[k] \/ (ldb'[k] = info /\ k = info.md5)
      BY <1>1, <2>1, <2>2 DEF PostSave
    <2>4. Logged' = Logged /\ Known' \subseteq Known
      BY <2>2, <2>3 DEF Logged, Known, tus
    <2>5. OwnPathInv' /\ \A x \in Known' : disk'[x.path] = x.md5
      BY <2>3, <2>4, FilesStay DEF KeptInv
    <2>6. \A f \in File : ldb[f] # None => ldb'[f] # None
      BY <2>3, KeyAssumption DEF Key
    <2>7. StoredInv'
      BY <2>3, <2>5 DEF KeptInv, StoredInv, Key
    <2>8. MovedInv' /\ AnsweredInv'
      BY <2>3, <2>4, <2>6 DEF KeptInv, MovedInv, AnsweredInv, Recording, tus, NodeInv, StoreInv,
                              TypeOK, TusInv, Info
    <2> QED
      BY <2>5, <2>7, <2>8 DEF KeptInv
  <1> QED
    BY <1>2, <1>3, <1>4, <1>5, <1>6 DEF OtherStep, OwnNames

(* An upload takes a path that no file and no other upload has ...          *)
LEMMA StartPath ==
    ASSUME NodeInv, KeptInv, OwnNames, NEW u \in Uploader,
           NEW f \in File, NEW n \in Name, UploadStart(u, f, n)
    PROVE  \E j : /\ upload' = [upload EXCEPT ![u] = j] /\ drawn \subseteq drawn'
                  /\ j.pc = "write" /\ Recorded(j) = j.path /\ Duplicate(j) = j.path
                  /\ ~ Exists(j.path)
                  /\ j.path[2] \notin Sums /\ (RenameFile => j.path[2] \in drawn')
                  /\ \A v \in Uploader : v # u /\ upload[v].pc # "idle" =>
                        upload[v].path # j.path
  <1>1. CASE RenameFile
    <2>1. PICK r \in Unique \ (Sums \cup drawn) :
             UploadChoose(u, f, n, r) /\ drawn' = drawn \cup {r}
      BY <1>1 DEF UploadStart
    <2>2. PICK p \in Path : p = <<0, r>> /\ p[2] = r /\ r # None /\ p # None
      <3>1. <<0, r>> \in Path /\ r # None
        BY InfoParts
      <3> QED
        BY <3>1, KeyAssumption
    <2>3. ~ Exists(p)
      BY <1>1, <2>2 DEF KeptInv, OwnPathInv
    <2>4. PICK j : j = [pc |-> "write", file |-> f, name |-> <<0, n>>, path |-> p,
                        rename |-> p, md5 |-> None]
      OBVIOUS
    <2>5. upload' = [upload EXCEPT ![u] = j]
      BY <2>1, <2>2, <2>3, <2>4 DEF UploadChoose
    <2>6. j.pc = "write" /\ j.path = p /\ Recorded(j) = p /\ Duplicate(j) = p
      BY <1>1, <2>2, <2>4 DEF Recorded, Duplicate
    <2>7. \A v \in Uploader : upload[v].pc # "idle" => upload[v].path # p
      BY <1>1, <2>2 DEF KeptInv, OwnPathInv, OwnPath
    <2>8. p[2] \notin Sums /\ p[2] \in drawn' /\ drawn \subseteq drawn'
      BY <2>1, <2>2
    <2> QED
      BY <2>3, <2>5, <2>6, <2>7, <2>8
  <1>2. CASE ~ RenameFile
    <2>1. UploadChoose(u, f, n, None) /\ drawn' = drawn
      BY <1>2 DEF UploadStart, OwnNames
    <2> DEFINE c == IF Exists(<<0, n>>) THEN <<FirstFree(n), n>> ELSE <<0, n>>
    <2>2. ~ Exists(c) /\ c[2] = n
      <3>1. CASE Exists(<<0, n>>)
        <4>1. \E i \in 1..MaxNumber : IsFirstFree(i, n)
          BY <2>1, <3>1 DEF UploadChoose
        <4>2. IsFirstFree(FirstFree(n), n)
          BY <4>1 DEF FirstFree
        <4> QED
          BY <3>1, <4>2 DEF IsFirstFree
      <3> QED
        BY <3>1
    <2>3. upload' = [upload EXCEPT ![u] = [pc |-> "write", file |-> f, name |-> c, path |-> c,
                                           rename |-> None, md5 |-> None]]
      BY <2>1 DEF UploadChoose
    <2> HIDE DEF c
    <2>4. PICK j : j = [pc |-> "write", file |-> f, name |-> c, path |-> c,
                        rename |-> None, md5 |-> None]
      OBVIOUS
    <2>5. j.pc = "write" /\ j.path = c /\ Recorded(j) = c /\ Duplicate(j) = c
      BY <1>2, <2>4 DEF Recorded, Duplicate
    <2>6. n \notin Sums /\ \A v \in Uploader : v = u
      BY <1>2, SumsAssumption DEF OwnNames
    <2> QED
      BY <1>2, <2>1, <2>2, <2>3, <2>4, <2>5, <2>6
  <1> QED
    BY <1>1, <1>2

LEMMA StartKept ==
    ASSUME NodeInv, KeptInv, OwnNames, UNCHANGED tus, NEW u \in Uploader,
           NEW f \in File, NEW n \in Name, UploadStart(u, f, n)
    PROVE  KeptInv'
  <1>1. PICK j : /\ upload' = [upload EXCEPT ![u] = j] /\ drawn \subseteq drawn'
                 /\ j.pc = "write" /\ Recorded(j) = j.path /\ Duplicate(j) = j.path
                 /\ ~ Exists(j.path)
                 /\ j.path[2] \notin Sums /\ (RenameFile => j.path[2] \in drawn')
                 /\ \A v \in Uploader : v # u /\ upload[v].pc # "idle" =>
                       upload[v].path # j.path
    BY StartPath
  <1>2. UNCHANGED <<disk, ldb, fileLog, posting, sent, answered, tus>>
    BY DEF UploadStart, UploadChoose, store
  <1>3. Known' = Known /\ Logged' = Logged
    BY <1>2 DEF Known, Logged, tus
  <1>4. upload'[u] = j /\ \A v \in Uploader : v # u => upload'[v] = upload[v]
    BY <1>1 DEF NodeInv, StoreInv, TypeOK
  <1>5. \A info \in Known : info.path # j.path
    BY <1>1, KnownParts DEF KeptInv
  <1>6. OwnPathInv'
    <2>1. OwnPath(upload[u])'
      BY <1>1, <1>3, <1>4, <1>5 DEF OwnPath, Recorded, Duplicate
    <2>2. ASSUME NEW v \in Uploader, v # u PROVE OwnPath(upload[v])'
      <3>1. OwnPath(upload[v])
        BY DEF KeptInv, OwnPathInv
      <3> QED
        BY <1>1, <1>2, <1>3, <1>4, <2>2, <3>1 DEF OwnPath, Recorded, Duplicate, Exists
    <2>3. ASSUME NEW v \in Uploader, NEW w \in Uploader,
                 upload'[v].pc # "idle", upload'[w].pc # "idle",
                 upload'[v].path = upload'[w].path
          PROVE  v = w
      BY <1>1, <1>4, <2>3 DEF KeptInv, OwnPathInv
    <2>4. RenameFile => \A p \in Path : Exists(p)' => p[2] \in drawn' \cup Sums
      BY <1>1, <1>2 DEF KeptInv, OwnPathInv, Exists
    <2> QED
      BY <2>1, <2>2, <2>3, <2>4 DEF OwnPathInv
  <1> QED
    BY <1>2, <1>3, <1>6 DEF KeptInv, StoredInv, MovedInv, AnsweredInv, Recording, tus

(* ... and has it to itself until it records the file, or removes it.       *)
LEMMA UploadKept ==
    ASSUME NodeInv, KeptInv, OwnNames, UNCHANGED tus, NEW u \in Uploader, UploadStep(u)
    PROVE  KeptInv'
  <1>0. PICK j \in UploadState : j = upload[u]
    BY DEF NodeInv, StoreInv, TypeOK
  <1>1. PICK p \in Path :
           /\ p = j.path /\ j.pc # "idle" /\ Recorded(j) = p /\ Duplicate(j) = p
           /\ p[2] \notin Sums /\ (RenameFile => p[2] \in drawn)
           /\ j.file \in File /\ (j.pc \in {"finish", "log"} => j.md5 \in File)
           /\ \A info \in Known : info.path # p
           /\ j.pc = "sum" => Exists(p)
           /\ j.pc \in {"finish", "log"} => disk[p] = j.md5
    BY <1>0 DEF UploadStep, UploadWrite, UploadSum, UploadFinish, UploadLog, NodeInv, StoreInv,
                JobInv, KeptInv, OwnPathInv, OwnPath
  <1>2. /\ upload \in [Uploader -> UploadState]
        /\ fileLog \in Seq(Log) /\ disk \in [Path -> File \cup {None}]
    BY DEF NodeInv, StoreInv, TypeOK, Log
  <1>3. \A f \in File : <<0, SumName[f]>> # p
    BY <1>1, SumNameAssumption
  <1>4. UNCHANGED <<drawn, ldb, sent, tus>>
    BY DEF UploadStep, UploadWrite, UploadSum, UploadFinish, UploadLog, store
  <1> DEFINE Moves(g) == upload' = [upload EXCEPT ![u] = g] /\ upload'[u] = g
  (* What its step does to the file is nothing to others.                   *)
  <1>5. ASSUME NEW g, Moves(g), g.pc # "idle" => g.path = p /\ OwnPath(upload[u])',
               \A q \in Path : q # p => disk'[q] = disk[q],
               \A info \in Known' : info \in Known \/ (info.path = p /\ g.pc = "idle")
        PROVE  OwnPathInv'
    <2>1. /\ upload'[u] = g /\ \A v \in Uploader : v # u => upload'[v] = upload[v]
          /\ \A q \in Path : q # p => disk'[q] = disk[q]
          /\ drawn' = drawn
      BY <1>2, <1>4, <1>5
    <2>2. /\ OwnPath(upload[u]) /\ upload[u].path = p /\ upload[u].pc # "idle"
          /\ RenameFile => p[2] \in drawn
      BY <1>0, <1>1 DEF KeptInv, OwnPathInv
    <2>3. ASSUME NEW v \in Uploader PROVE OwnPath(upload[v])'
      <3>1. CASE v = u
        BY <1>5, <2>1, <3>1 DEF OwnPath
      <3>2. CASE v # u /\ upload[v].pc # "idle"
        <4>1. OwnPath(upload[v]) /\ upload[v].path \in Path /\ upload[v].path # p
          BY <2>2, <3>2 DEF KeptInv, OwnPathInv, NodeInv, StoreInv, JobInv
        <4> QED
          BY <1>5, <2>1, <3>2, <4>1 DEF OwnPath, Recorded, Duplicate, Exists
      <3>3. CASE v # u /\ upload[v].pc = "idle"
        BY <2>1, <3>3 DEF OwnPath
      <3> QED
        BY <3>1, <3>2, <3>3
    <2>4. ASSUME NEW v \in Uploader, NEW w \in Uploader,
                 upload'[v].pc # "idle", upload'[w].pc # "idle",
                 upload'[v].path = upload'[w].path
          PROVE  v = w
      <3>1. \A x \in Uploader : upload'[x].pc # "idle" =>
               upload[x].pc # "idle" /\ upload'[x].path = upload[x].path
        BY <1>5, <2>1, <2>2
      <3> QED
        BY <2>4, <3>1 DEF KeptInv, OwnPathInv
    <2>5. RenameFile => \A q \in Path : Exists(q)' => q[2] \in drawn' \cup Sums
      BY <2>1, <2>2 DEF KeptInv, OwnPathInv, Exists
    <2> QED
      BY <2>3, <2>4, <2>5 DEF OwnPathInv
  <1>6. ASSUME upload' = [upload EXCEPT ![u] = NoUpload]
         PROVE  Moves(NoUpload) /\ NoUpload.pc = "idle"
    BY <1>2, <1>6 DEF NoUpload
  <1> HIDE DEF Moves
  <1>7. CASE UploadWrite(u)
    <2>1. /\ disk' = [disk EXCEPT ![p] = j.file] /\ upload' = [upload EXCEPT ![u].pc = "sum"]
          /\ UNCHANGED <<fileLog, posting, answered>>
      BY <1>0, <1>1, <1>7 DEF UploadWrite
    <2>2. /\ Known' = Known /\ Logged' = Logged /\ disk'[p] = j.file
          /\ \A q : q # p => disk'[q] = disk[q]
      BY <1>2, <1>4, <2>1 DEF Known, Logged, tus
    <2>3. PICK g : g = [j EXCEPT !.pc = "sum"]
      OBVIOUS
    <2>4. /\ g.pc = "sum" /\ g.path = j.path /\ g.name = j.name /\ g.rename = j.rename
          /\ Moves(g)
      BY <1>0, <1>2, <2>1, <2>3 DEF UploadState, Moves
    <2>7. OwnPath(upload[u])'
      BY <1>1, <1>4, <2>2, <2>4 DEF OwnPath, Exists, Recorded, Duplicate, Moves
    <2>5. OwnPathInv'
      BY <1>1, <1>5, <2>1, <2>2, <2>4, <2>7
    <2>6. StoredInv'
      BY <1>1, <1>4, <2>1, <2>2 DEF KeptInv, StoredInv
    <2> QED
      BY <1>3, <1>4, <2>1, <2>2, <2>5, <2>6 DEF KeptInv, MovedInv, AnsweredInv, Recording, tus
  <1>8. CASE UploadSum(u)
    <2>1. UNCHANGED <<disk, fileLog, posting, answered>>
      BY <1>8 DEF UploadSum, store
    <2>2. Known' = Known /\ Logged' = Logged /\ disk' = disk
      BY <1>4, <2>1 DEF Known, Logged, tus
    <2>3. ASSUME upload' = [upload EXCEPT ![u] = NoUpload] PROVE OwnPathInv'
      BY <1>5, <1>6, <2>2, <2>3
    <2>4. ASSUME upload' = [upload EXCEPT ![u].pc = "finish",
                      ![u].md5 = IF disk[p] = None THEN upload[u].file ELSE disk[p]]
          PROVE  OwnPathInv'
      <3>1. disk[p] # None
        BY <1>0, <1>1, <1>8 DEF UploadSum, Exists
      <3>2. PICK g : g = [j EXCEPT !.pc = "finish", !.md5 = disk[p]]
        OBVIOUS
      <3>3. upload' = [upload EXCEPT ![u] = g]
        BY <1>0, <1>2, <2>4, <3>1, <3>2
      <3>4. /\ g.pc = "finish" /\ g.path = j.path /\ g.name = j.name /\ g.rename = j.rename
            /\ g.md5 = disk[p] /\ Moves(g)
        BY <1>2, <3>2, <3>3 DEF UploadState, Moves
      <3>5. OwnPath(upload[u])'
        BY <1>1, <1>4, <2>1, <2>2, <3>4 DEF OwnPath, Recorded, Duplicate, Moves
      <3> QED
        BY <1>1, <1>5, <2>2, <3>4, <3>5
    <2>5. OwnPathInv'
      BY <1>1, <1>0, <1>8, <2>3, <2>4 DEF UploadSum
    <2> QED
      BY <1>4, <2>1, <2>2, <2>5 DEF KeptInv, StoredInv, MovedInv, AnsweredInv, Recording, tus
  <1>9. CASE UploadFinish(u)
    <2>1. UNCHANGED <<fileLog, posting>> /\ j.pc = "finish"
      BY <1>0, <1>9 DEF UploadFinish
    <2>2. Known' = Known /\ Logged' = Logged
      BY <1>4, <2>1 DEF Known, Logged, tus
    <2>3. CASE /\ ldb[j.md5] # None /\ disk' = [disk EXCEPT ![Duplicate(j)] = None]
               /\ Answer(j.md5) /\ upload' = [upload EXCEPT ![u] = NoUpload]
      <3>1. disk' = [disk EXCEPT ![p] = None]
        BY <1>1, <2>3
      <3>2. disk'[p] = None /\ \A q : q # p => disk'[q] = disk[q]
        BY <1>2, <3>1
      <3>3. answered' \subseteq answered \cup {j.md5}
        BY <2>3 DEF Answer
      <3>4. OwnPathInv'
        BY <1>5, <1>6, <2>2, <2>3, <3>2
      <3>5. StoredInv'
        BY <1>1, <1>4, <2>1, <2>2, <3>2 DEF KeptInv, StoredInv
      <3>6. MovedInv'
        BY <1>3, <1>4, <3>2 DEF KeptInv, MovedInv, tus
      <3>7. AnsweredInv'
        BY <1>4, <2>1, <2>2, <2>3, <3>3 DEF KeptInv, AnsweredInv, Recording, tus
      <3> QED
        BY <3>4, <3>5, <3>6, <3>7 DEF KeptInv
    <2>4. CASE upload' = [upload EXCEPT ![u].pc = "log"] /\ UNCHANGED <<disk, answered>>
      <3>1. PICK g : g = [j EXCEPT !.pc = "log"]
        OBVIOUS
      <3>2. /\ g.pc = "log" /\ g.path = j.path /\ g.name = j.name /\ g.rename = j.rename
            /\ g.md5 = j.md5 /\ Moves(g)
        BY <1>0, <1>2, <2>4, <3>1 DEF UploadState, Moves
      <3>4. OwnPath(upload[u])'
        BY <1>1, <1>4, <2>1, <2>2, <2>4, <3>2 DEF OwnPath, Recorded, Duplicate, Moves
      <3>3. OwnPathInv'
        BY <1>1, <1>5, <2>2, <2>4, <3>2, <3>4
      <3> QED
        BY <1>4, <2>1, <2>2, <2>4, <3>3
           DEF KeptInv, StoredInv, MovedInv, AnsweredInv, Recording, tus
    <2> QED
      BY <1>0, <1>9, <2>3, <2>4 DEF UploadFinish
  <1>10. CASE UploadLog(u)
    <2>1. PICK info \in Info : info = [md5 |-> j.md5, path |-> Recorded(j)]
                              /\ info.md5 = j.md5 /\ info.path = p
      BY <1>0, <1>1, <1>10, InfoParts DEF UploadLog
    <2>2. /\ fileLog' = Append(fileLog, Entry("files", info))
          /\ posting' \subseteq posting \cup {info}
          /\ upload' = [upload EXCEPT ![u] = NoUpload]
          /\ answered' \subseteq answered \cup {info.md5}
          /\ disk' = disk /\ j.pc = "log"
      BY <1>0, <1>10, <2>1 DEF UploadLog, SaveFileMd5Log, Answer, store
    <2>3. Logged' = Logged \cup {info} /\ \A i \in 1..Len(fileLog') : fileLog'[i].kind = "files"
      BY <1>2, <2>2, LoggedGrows DEF KeptInv, StoredInv
    <2>4. Known' \subseteq Known \cup {info}
      BY <1>4, <2>2, <2>3 DEF Known, tus
    <2>5. OwnPathInv'
      BY <1>5, <1>6, <2>1, <2>2, <2>4
    <2>6. StoredInv'
      BY <1>1, <1>4, <2>1, <2>2, <2>3, <2>4 DEF KeptInv, StoredInv
    <2>7. MovedInv' /\ AnsweredInv'
      BY <1>4, <2>2, <2>3 DEF KeptInv, MovedInv, AnsweredInv, Recording, tus
    <2> QED
      BY <2>5, <2>6, <2>7 DEF KeptInv
  <1> QED
    BY <1>7, <1>8, <1>9, <1>10 DEF UploadStep

-----------------------------------------------------------------------------
(* tusd completes an upload, which waits under its id.                      *)
LEMMA CompleteKept ==
    ASSUME NodeInv, KeptInv, OwnNames, NEW i \in TusId, NEW f \in File, NEW n \in TusName,
           Complete(i, f, n)
    PROVE  KeptInv'
  <1>1. /\ bins[i] = NoBin /\ notify.id # i /\ answered' \subseteq answered \cup {f}
        /\ UNCHANGED <<disk, ldb, fileLog, upload, posting, sent, drawn, ids, notify>>
    BY DEF Complete, Answer, store
  <1>2. /\ bins' = [bins EXCEPT ![i] = [file |-> f, name |-> n]]
        /\ bins \in [TusId -> [file : File \cup {None}, name : Name \cup {None}]]
        /\ RenameFile \/ n = None
    BY DEF Complete, OwnNames, NodeInv, TusInv, TusTypeOK
  <1>3. /\ bins'[i].file = f /\ bins'[i].name = n
        /\ \A k \in TusId : k # i => bins'[k] = bins[k]
    BY <1>2
  <1>4. Known' = Known /\ Logged' = Logged
    BY <1>1 DEF Known, Logged
  <1>5. StoredInv' /\ OwnPathInv'
    BY <1>1, <1>4, FilesStay DEF KeptInv, StoredInv
  <1>6. notify.pc # "idle" => notify.id \in TusId
    BY DEF NodeInv, TusInv
  <1>7. MovedInv'
    BY <1>1, <1>2, <1>3, <1>6 DEF KeptInv, MovedInv
  <1>8. AnsweredInv'
    <2>1. \A k \in TusId, g \in File : bins[k].file = g => bins'[k].file = g
      BY <1>1, <1>3, NoneAssumption DEF NoBin
    <2>2. answered \subseteq File
      BY DEF NodeInv, StoreInv, TypeOK
    <2> QED
      BY <1>1, <1>3, <1>4, <2>1, <2>2 DEF KeptInv, AnsweredInv, Recording
  <1> QED
    BY <1>5, <1>7, <1>8 DEF KeptInv

(* The goroutine finds a copy, which is known, or decides on the place that *)
(* is only for the content.                                                 *)
LEMMA NotifiedKept ==
    ASSUME NodeInv, KeptInv, OwnNames, NEW i \in TusId, Notified(i)
    PROVE  KeptInv'
  <1>1. UNCHANGED <<disk, ldb, fileLog, upload, posting, sent, answered, drawn, bins, ids>>
    BY DEF Notified, vars, store
  <1>2. PICK f \in File : f = bins[i].file /\ f \in Key
    BY DEF Notified, NodeInv, TusInv, Key
  <1>3. Logged' = Logged
    BY <1>1 DEF Logged
  <1>4. notify.pc = "idle"
    BY DEF Notified
  <1>5. CASE notify' = [pc |-> "drop", id |-> i, info |-> Copy(i)] /\ IsCopied(i)
    <2>1. PICK c \in Info : c = ldb[f] /\ c # None /\ c = Copy(i) /\ c.md5 = f
      BY <1>2, <1>5 DEF IsCopied, Copy, NodeInv, StoreInv, TypeOK, KeptInv, StoredInv
    <2>2. notify'.pc = "drop" /\ notify'.id = i /\ notify'.info = c
      BY <1>5, <2>1
    <2>3. Known' \subseteq Known
      BY <1>1, <1>2, <1>3, <2>1, <2>2 DEF Known
    <2>4. OwnPathInv' /\ \A info \in Known' : disk'[info.path] = info.md5
      BY <1>1, <2>3, FilesStay DEF KeptInv
    <2>5. StoredInv' /\ AnsweredInv'
      BY <1>1, <1>3, <1>4, <2>2, <2>4 DEF KeptInv, StoredInv, AnsweredInv, Recording
    <2>6. MovedInv'
      BY <1>1, <1>2, <2>1, <2>2 DEF KeptInv, MovedInv
    <2> QED
      BY <2>4, <2>5, <2>6 DEF KeptInv
  <1>6. CASE notify' = [pc |-> "move", id |-> i, info |-> Moved(i)]
    <2>1. PICK c \in Info : c = Moved(i) /\ c.md5 = f /\ c.path = <<0, SumName[f]>>
      <3>1. Moved(i) = [md5 |-> f, path |-> <<0, SumName[f]>>]
        BY <1>2 DEF Moved, NewName, KeptInv, MovedInv
      <3>2. <<0, SumName[f]>> \in Path
        BY SumNameAssumption, InfoParts
      <3> QED
        BY <3>1, <3>2, InfoParts
    <2>2. notify'.pc = "move" /\ notify'.id = i /\ notify'.info = c
      BY <1>6, <2>1
    <2>3. Known' \subseteq Known
      BY <1>1, <1>3, <2>2 DEF Known
    <2>4. OwnPathInv' /\ \A info \in Known' : disk'[info.path] = info.md5
      BY <1>1, <2>3, FilesStay DEF KeptInv
    <2>5. StoredInv' /\ AnsweredInv'
      BY <1>1, <1>3, <1>4, <2>2, <2>4 DEF KeptInv, StoredInv, AnsweredInv, Recording
    <2>6. MovedInv'
      BY <1>1, <1>2, <2>1, <2>2 DEF KeptInv, MovedInv
    <2> QED
      BY <2>4, <2>5, <2>6 DEF KeptInv
  <1> QED
    BY <1>5, <1>6 DEF Notified

(* It drops the upload for its copy, or moves it, which makes a new file or *)
(* writes the same content, and records it.                                 *)
LEMMA NotifyKept ==
    ASSUME NodeInv, KeptInv, OwnNames, Drop \/ Move \/ NameMoved \/ LogMoved
    PROVE  KeptInv'
  <1>1. notify.pc # "idle" /\ notify.pc \in {"drop", "move", "id", "log"}
    BY DEF Drop, Move, NameMoved, LogMoved
  <1>2. PICK i \in TusId, info \in Info :
           /\ i = notify.id /\ info = notify.info /\ info.md5 \in File /\ info.path \in Path
           /\ info.md5 \in Key
    BY <1>1, InfoParts DEF NodeInv, TusInv
  <1>3. /\ ids \in [TusId -> Info \cup {None}] /\ disk \in [Path -> File \cup {None}]
        /\ bins \in [TusId -> [file : File \cup {None}, name : Name \cup {None}]]
        /\ fileLog \in Seq(Log)
        /\ notify \in [pc : {"idle", "drop", "move", "id", "log"}, id : TusId \cup {None},
                        info : Info \cup {None}]
    BY DEF NodeInv, StoreInv, TypeOK, TusInv, TusTypeOK, Log
  <1>4. NoNotify.pc = "idle" /\ NoBin.name = None
    BY DEF NoNotify, NoBin
  <1>5. CASE Drop
    <2>1. /\ UNCHANGED <<disk, ldb, fileLog, upload, posting, sent, answered, drawn>>
          /\ notify'.pc = "idle" /\ notify.pc = "drop"
          /\ bins'[i] = NoBin /\ \A k \in TusId : k # i => bins'[k] = bins[k]
          /\ \A k \in TusId : ids'[k] = ids[k] \/ ids'[k] = info
      BY <1>2, <1>3, <1>4, <1>5 DEF Drop, SaveId
    <2>2. Logged' = Logged /\ info \in Known
      BY <1>2, <2>1 DEF Logged, Known
    <2>3. Known' \subseteq Known
      BY <1>2, <2>1, <2>2 DEF Known
    <2>4. OwnPathInv' /\ \A x \in Known' : disk'[x.path] = x.md5
      BY <2>1, <2>3, FilesStay DEF KeptInv
    <2>5. bins[i].file = info.md5 /\ ldb[info.md5] # None
      BY <1>2, <2>1 DEF KeptInv, MovedInv
    <2>6. StoredInv' /\ MovedInv'
      BY <1>4, <2>1, <2>4 DEF KeptInv, StoredInv, MovedInv
    <2>7. AnsweredInv'
      BY <2>1, <2>2, <2>5 DEF KeptInv, AnsweredInv, Recording
    <2> QED
      BY <2>4, <2>6, <2>7 DEF KeptInv
  <1>6. CASE Move
    <2>1. info.md5 = bins[i].file /\ info.path = <<0, SumName[info.md5]>>
      BY <1>2, <1>6 DEF Move, KeptInv, MovedInv
    <2>2. /\ UNCHANGED <<ldb, fileLog, upload, posting, sent, answered, drawn, ids>>
          /\ notify'.pc = "id" /\ notify'.info = info /\ notify.pc = "move"
          /\ bins'[i] = NoBin /\ \A k \in TusId : k # i => bins'[k] = bins[k]
          /\ disk'[info.path] = info.md5
          /\ \A q : q # info.path => disk'[q] = disk[q]
      BY <1>2, <1>3, <1>6, <2>1 DEF Move
    <2>3. disk[info.path] \in {None, info.md5}
      BY <1>2, <2>1 DEF KeptInv, MovedInv
    <2>4. Logged' = Logged /\ Known' \subseteq Known \cup {info}
      BY <2>2 DEF Logged, Known
    <2>5. \A x \in Known \cup {info} : disk'[x.path] = x.md5
      BY <2>2, <2>3, KnownParts DEF KeptInv, Exists
    <2>6. StoredInv'
      BY <2>2, <2>4, <2>5 DEF KeptInv, StoredInv
    <2>7. OwnPathInv'
      <3>1. info.path[2] \in Sums /\ info.path \notin {upload[u].path : u \in
                {v \in Uploader : upload[v].pc # "idle"}}
        BY <1>2, <2>1, SumNameAssumption DEF KeptInv, OwnPathInv, OwnPath
      <3>2. ASSUME NEW u \in Uploader PROVE OwnPath(upload[u])'
        <4>1. OwnPath(upload[u])
          BY DEF KeptInv, OwnPathInv
        <4> QED
          BY <2>2, <2>4, <3>1, <4>1 DEF OwnPath, Recorded, Duplicate, Exists
      <3>3. RenameFile => \A p \in Path : Exists(p)' => p[2] \in drawn' \cup Sums
        BY <2>2, <3>1 DEF KeptInv, OwnPathInv, Exists
      <3> QED
        BY <2>2, <3>2, <3>3 DEF KeptInv, OwnPathInv
    <2>8. MovedInv'
      <3>1. \A f \in File : disk'[<<0, SumName[f]>>] \in {None, f}
        <4> SUFFICES ASSUME NEW f \in File PROVE disk'[<<0, SumName[f]>>] \in {None, f}
          OBVIOUS
        <4>1. CASE SumName[f] = SumName[info.md5]
          BY <1>2, <2>1, <2>2, <4>1, SumNameAssumption
        <4>2. CASE SumName[f] # SumName[info.md5]
          BY <2>1, <2>2, <4>2 DEF KeptInv, MovedInv
        <4> QED
          BY <4>1, <4>2
      <3> QED
        BY <1>4, <2>2, <3>1 DEF KeptInv, MovedInv
    <2>9. AnsweredInv'
      BY <2>1, <2>2, <2>4 DEF KeptInv, AnsweredInv, Recording
    <2> QED
      BY <2>6, <2>7, <2>8, <2>9 DEF KeptInv
  <1>7. CASE NameMoved
    <2>1. /\ UNCHANGED <<disk, ldb, fileLog, upload, posting, sent, answered, drawn, bins>>
          /\ notify'.pc = "log" /\ notify.pc = "id" /\ notify'.info = info
          /\ \A k \in TusId : ids'[k] = ids[k] \/ ids'[k] = info
      BY <1>2, <1>3, <1>7 DEF NameMoved, SaveId
    <2>2. Logged' = Logged /\ info \in Known
      BY <1>2, <2>1 DEF Logged, Known
    <2>3. Known' \subseteq Known
      BY <2>1, <2>2 DEF Known
    <2>4. OwnPathInv' /\ \A x \in Known' : disk'[x.path] = x.md5
      BY <2>1, <2>3, FilesStay DEF KeptInv
    <2>5. StoredInv' /\ MovedInv' /\ AnsweredInv'
      BY <1>2, <2>1, <2>2, <2>4 DEF KeptInv, StoredInv, MovedInv, AnsweredInv, Recording
    <2> QED
      BY <2>4, <2>5 DEF KeptInv
  <1>8. CASE LogMoved
    <2>1. /\ UNCHANGED <<disk, ldb, upload, sent, answered, drawn, bins, ids>>
          /\ notify'.pc = "idle" /\ notify.pc = "log"
          /\ fileLog' = Append(fileLog, Entry("files", info))
          /\ posting' \subseteq posting \cup {info}
      BY <1>2, <1>4, <1>8 DEF LogMoved, SaveFileMd5Log, store
    <2>2. Logged' = Logged \cup {info} /\ \A k \in 1..Len(fileLog') : fileLog'[k].kind = "files"
      BY <1>3, <2>1, LoggedGrows DEF KeptInv, StoredInv
    <2>3. info \in Known
      BY <1>2, <2>1 DEF Known
    <2>4. Known' \subseteq Known
      BY <2>1, <2>2, <2>3 DEF Known
    <2>5. OwnPathInv' /\ \A x \in Known' : disk'[x.path] = x.md5
      BY <2>1, <2>4, FilesStay DEF KeptInv
    <2>6. StoredInv' /\ MovedInv'
      BY <2>1, <2>2, <2>5 DEF KeptInv, StoredInv, MovedInv
    <2>7. AnsweredInv'
      BY <1>2, <2>1, <2>2 DEF KeptInv, AnsweredInv, Recording
    <2> QED
      BY <2>5, <2>6, <2>7 DEF KeptInv
  <1> QED
    BY <1>5, <1>6, <1>7, <1>8

(* What it gives up stays under its id.                                     *)
LEMMA GivenUpKept ==
    ASSUME NodeInv, KeptInv, MoveFails \/ \E i \in TusId : SumFails(i)
    PROVE  KeptInv'
  <1>1. /\ UNCHANGED <<disk, ldb, fileLog, upload, posting, sent, answered, drawn, bins, ids>>
        /\ \/ notify' = notify
           \/ notify.pc = "move" /\ notify'.pc = "idle"
    BY DEF MoveFails, SumFails, NoNotify, vars, store
  <1>2. Logged' = Logged /\ Known' \subseteq Known
    BY <1>1 DEF Logged, Known
  <1>3. OwnPathInv' /\ \A x \in Known' : disk'[x.path] = x.md5
    BY <1>1, <1>2, FilesStay DEF KeptInv
  <1> QED
    BY <1>1, <1>2, <1>3 DEF KeptInv, StoredInv, MovedInv, AnsweredInv, Recording

-----------------------------------------------------------------------------
(* Initially nothing is known; handlers and their queue leave all alone.    *)
LEMMA InitKept == NodeInit /\ OwnNames => KeptInv
  <1> SUFFICES ASSUME NodeInit, OwnNames PROVE KeptInv
    OBVIOUS
  <1>1. Init /\ notify.pc = "idle" /\ \A i \in TusId : bins[i].name = None /\ ids[i] = None
    BY DEF NodeInit, TusInit, NoNotify, NoBin
  <1>2. fileLog = <<>> /\ Len(fileLog) = 0 /\ \A k \in Key : ldb[k] = None
    BY <1>1 DEF Init
  <1>3. Logged = {}
    BY <1>2 DEF Logged
  <1>4. Known = {}
    BY <1>1, <1>2, <1>3, KeyAssumption DEF Known, Init
  <1>5. \A f \in File : <<0, SumName[f]>> \in Path
    BY SumNameAssumption, InfoParts
  <1>6. StoredInv /\ OwnPathInv
    BY <1>1, <1>2, <1>4 DEF StoredInv, OwnPathInv, OwnPath, Init, NoUpload, Key, Exists
  <1>7. MovedInv /\ AnsweredInv
    BY <1>1, <1>5 DEF MovedInv, AnsweredInv, Init
  <1> QED
    BY <1>6, <1>7 DEF KeptInv

LEMMA KeptStays ==
    ASSUME KeptInv, UNCHANGED <<vars, tus>>
    PROVE  KeptInv'
  BY DEF vars, store, tus, KeptInv, StoredInv, OwnPathInv, OwnPath, MovedInv, AnsweredInv,
         Recording, Recorded, Duplicate, Known, Logged, Exists

LEMMA NextKept ==
    ASSUME NodeInv, KeptInv, OwnNames, [NodeNext]_<<vars, tus, pool>>
    PROVE  KeptInv'
  <1>1. CASE PoolNext /\ UNCHANGED tus
    <2>1. ASSUME NEW r \in Request,
                 \/ \E f \in File, n \in Name : Receive(r, f, n)
                 \/ ReceiveFails(r) \/ HandlerStep(r)
          PROVE  KeptInv'
      BY <1>1, <2>1, KeptStays DEF Receive, ReceiveFails, HandlerStep, Enqueue, Return
    <2>2. ASSUME NEW u \in Uploader, TakeUpload(u)
          PROVE  KeptInv'
      BY <1>1, <2>2, TakenUpload, StartKept
    <2>3. ASSUME NEW u \in Uploader, UploadStep(u) \/ SendDone(u)
          PROVE  KeptInv'
      BY <1>1, <2>3, UploadKept, KeptStays DEF SendDone
    <2>4. CASE OtherStep
      BY <1>1, <2>4, OtherKept
    <2> QED
      BY <1>1, <2>1, <2>2, <2>3, <2>4 DEF PoolNext, WorkerStep
  <1>2. CASE TusStep
    BY <1>2, CompleteKept, NotifiedKept, NotifyKept, GivenUpKept DEF TusStep, NotifyStep
  <1>3. CASE UNCHANGED <<vars, tus, pool>>
    BY <1>3, KeptStays
  <1> QED
    BY <1>1, <1>2, <1>3 DEF NodeNext

(* Where every upload gets a name of its own and nobody deletes, what a     *)
(* client was told is uploaded is on the disk, whichever way it came: for   *)
(* any requests, contents and names, and with rename_file any number of     *)
(* workers, whatever names clients send.  No upload that follows takes the  *)
(* name, and no duplicate that is removed was the copy.                     *)
THEOREM UploadedIsStoredCorrect == OwnNames => (NodeSpec => []UploadedIsStored)
  <1> SUFFICES ASSUME OwnNames PROVE NodeSpec => []UploadedIsStored
    OBVIOUS
  <1>1. NodeInv /\ KeptInv => UploadedIsStored
    <2> SUFFICES ASSUME NodeInv, KeptInv, NEW f \in answered
                 PROVE  \/ \E p \in Path : disk[p] = f
                        \/ \E i \in TusId : bins[i].file = f
      BY DEF UploadedIsStored
    <2>1. f \in File /\ f \in Key /\ ldb \in [Key -> Info \cup {None}]
          /\ fileLog \in Seq(Log)
      BY DEF NodeInv, StoreInv, TypeOK, Key, Log
    <2>2. CASE ldb[f] # None
      <3>1. PICK info \in Known : info = ldb[f] /\ info.md5 = f
        BY <2>1, <2>2 DEF Known, KeptInv, StoredInv
      <3> QED
        BY <3>1, KnownParts DEF KeptInv
    <2>3. CASE \E info \in Logged : info.md5 = f
      <3>1. Logged \subseteq Info
        <4>1. \A i \in 1..Len(fileLog) : fileLog[i] \in Log
          BY <2>1
        <4>2. \A e \in Log : e.info \in Info
          BY DEF Log
        <4> QED
          BY <4>1, <4>2 DEF Logged
      <3>2. PICK info \in Known : info.md5 = f
        BY <2>3, <3>1 DEF Known
      <3> QED
        BY <3>2, KnownParts DEF KeptInv
    <2>4. CASE notify.pc \in {"id", "log"} /\ notify.info.md5 = f
      BY <2>4, KnownParts DEF Known, KeptInv, NodeInv, TusInv
    <2> QED
      BY <2>2, <2>3, <2>4 DEF KeptInv, AnsweredInv, Recording
  <1>2. NodeInit => NodeInv /\ KeptInv
    BY InitNodeInv, InitKept
  <1>3. NodeInv /\ KeptInv /\ [NodeNext]_<<vars, tus, pool>> => (NodeInv /\ KeptInv)'
    BY NextNodeInv, NextKept
  <1> QED
    BY <1>1, <1>2, <1>3, PTL DEF NodeSpec

(* Under the same premise the id of a resumable upload leads to its content *)
(* for good.                                                                *)
THEOREM IdLeadsToContentCorrect == OwnNames => (NodeSpec => []IdLeadsToContent)
  <1> SUFFICES ASSUME OwnNames PROVE NodeSpec => []IdLeadsToContent
    OBVIOUS
  <1>1. NodeInv /\ KeptInv => IdLeadsToContent
    BY KnownParts DEF NodeInv, TusInv, TusTypeOK, Known, KeptInv, IdLeadsToContent
  <1>2. NodeInit => NodeInv /\ KeptInv
    BY InitNodeInv, InitKept
  <1>3. NodeInv /\ KeptInv /\ [NodeNext]_<<vars, tus, pool>> => (NodeInv /\ KeptInv)'
    BY NextNodeInv, NextKept
  <1> QED
    BY <1>1, <1>2, <1>3, PTL DEF NodeSpec
=============================================================================
