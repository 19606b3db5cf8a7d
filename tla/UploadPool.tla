----------------------------- MODULE UploadPool -----------------------------
(***************************************************************************)
(* How requests reach upload: the handler of each saves the body in a file *)
(* of its own, queues itself and waits; the upload workers, which have the *)
(* ResponseWriter and the body's file meanwhile, take turns.  The log      *)
(* queue, whose consumer they wait for, is that of the store.              *)
(***************************************************************************)
EXTENDS LocalStore

CONSTANTS
    Request,         \* POSTs of upload, each sent once
    UploadSize       \* capacity of queueUpload

ASSUME UploadSizeAssumption == UploadSize \in Nat \ {0}
ASSUME RequestAssumption == None \notin Request

VARIABLES
    handler,         \* handler[r]: the activation of HttpServer.Upload
    tmp,             \* the requests whose body is in store/_tmp
    queueUpload,     \* requests queued
    job,             \* job[u]: the request a worker has taken
    done             \* requests with a value in their channel done

pool == <<handler, tmp, queueUpload, job, done>>

NoRequest == [pc |-> "none", file |-> None, name |-> None]

PoolInit == /\ Init
            /\ handler = [r \in Request |-> NoRequest]
            /\ tmp = {}
            /\ queueUpload = <<>>
            /\ job = [u \in Uploader |-> None]
            /\ done = {}

-----------------------------------------------------------------------------
(* The body is copied to the temporary file.                                *)
Receive(r, f, n) ==
    /\ handler[r].pc = "none"
    /\ handler' = [handler EXCEPT ![r] = [pc |-> "copied", file |-> f, name |-> n]]
    /\ tmp' = tmp \cup {r}
    /\ UNCHANGED <<vars, queueUpload, job, done>>

(* Or the copy fails, and the handler returns, which removes the file.      *)
ReceiveFails(r) ==
    /\ handler[r].pc = "none"
    /\ handler' = [handler EXCEPT ![r].pc = "returned"]
    /\ UNCHANGED <<vars, tmp, queueUpload, job, done>>

Enqueue(r) ==
    /\ handler[r].pc = "copied"
    /\ Len(queueUpload) < UploadSize
    /\ queueUpload' = Append(queueUpload, r)
    /\ handler' = [handler EXCEPT ![r].pc = "waits"]
    /\ UNCHANGED <<vars, tmp, job, done>>

(* A worker takes a request, and upload begins.                             *)
TakeUpload(u) ==
    LET r == Head(queueUpload) IN
    /\ job[u] = None
    /\ queueUpload # <<>>
    /\ queueUpload' = Tail(queueUpload)
    /\ job' = [job EXCEPT ![u] = r]
    /\ UploadStart(u, handler[r].file, handler[r].name)
    /\ UNCHANGED <<handler, tmp, done>>

(* wr.Done <- true, when upload has returned.                               *)
Taken(u) == job[u] # None
Uploaded(u) == job[u] # None /\ upload[u].pc = "idle"

SendDone(u) ==
    /\ Uploaded(u)
    /\ done' = done \cup {job[u]}
    /\ job' = [job EXCEPT ![u] = None]
    /\ UNCHANGED <<vars, handler, tmp, queueUpload>>

(* <-done: the handler returns, which closes the reply and removes the file.*)
Return(r) ==
    /\ handler[r].pc = "waits"
    /\ r \in done
    /\ done' = done \ {r}
    /\ handler' = [handler EXCEPT ![r].pc = "returned"]
    /\ tmp' = tmp \ {r}
    /\ UNCHANGED <<vars, queueUpload, job>>

HandlerStep(r) == Enqueue(r) \/ Return(r)
WorkerStep(u) == \/ TakeUpload(u)
                 \/ UploadStep(u) /\ UNCHANGED pool
                 \/ SendDone(u)

PoolNext ==
    \/ \E r \in Request : \/ \E f \in File, n \in Name : Receive(r, f, n)
                           \/ ReceiveFails(r)
                           \/ HandlerStep(r)
    \/ \E u \in Uploader : WorkerStep(u)
    \/ OtherStep /\ UNCHANGED pool

-----------------------------------------------------------------------------
PoolTypeOK ==
    /\ handler \in [Request -> [pc : {"none", "copied", "waits", "returned"},
                                file : File \cup {None}, name : Name \cup {None}]]
    /\ tmp \subseteq Request
    /\ queueUpload \in Seq(Request) /\ Len(queueUpload) <= UploadSize
    /\ job \in [Uploader -> Request \cup {None}]
    /\ done \subseteq Request

(* While upload runs, which reads the body and writes the reply, the        *)
(* handler of its request waits and the file is there; and no request is    *)
(* with two workers, or with one and queued.                                *)
WorkerHasHandler ==
    \A u \in Uploader : upload[u].pc # "idle" =>
        /\ job[u] \in tmp
        /\ handler[job[u]].pc = "waits"
        /\ job[u] \notin done
        /\ \A i \in 1..Len(queueUpload) : queueUpload[i] # job[u]
        /\ \A v \in Uploader \ {u} : job[v] # job[u]

(* A request whose body is there returns, whatever else fills the queue of  *)
(* requests and that of the log.                                            *)
EveryRequestReturns ==
    \A r \in Request : (handler[r].pc = "copied") ~> (handler[r].pc = "returned")
=============================================================================
