---------------------------- MODULE WorkerQueue ----------------------------
(***************************************************************************)
(* queueFromPeers: a Go channel that HTTP handlers and loadQueueSendToPeer *)
(* fill and that sync workers empty, and into which the same workers put a *)
(* FileInfo back when its transfer failed.  appendToDownloadQueue sleeps   *)
(* while the channel is nearly full, then sends, which blocks on a full    *)
(* channel; the test and the send are two steps.  appendToQueue does the   *)
(* same with queueToPeers and the posting workers.                         *)
(***************************************************************************)
EXTENDS Naturals, Sequences, FiniteSets

CONSTANTS
    Worker,          \* goroutines of consumerDownLoad
    Handler,         \* goroutines that only append: SyncFileInfo, the reload
    QueueSize,       \* CONST_QUEUE_SIZE
    RetryCount,      \* retry_count of the configuration
    MaxItems         \* bound: FileInfos that the handlers bring

ASSUME WorkerAssumption == Worker \cap Handler = {}
ASSUME FiniteAssumption == IsFiniteSet(Worker) /\ IsFiniteSet(Handler)
ASSUME SizeAssumption == QueueSize \in Nat \ {0}
ASSUME CountAssumption == RetryCount \in Nat /\ MaxItems \in Nat

Thread == Worker \cup Handler

(* The channel counts as nearly full above this length.                     *)
Watermark == QueueSize - (QueueSize \div 10)

VARIABLES
    queue,       \* the channel: the Retry counters of the FileInfos in it
    pc,          \* pc[t]: where goroutine t is
    retry,       \* retry[t]: the Retry counter of the FileInfo t holds
    items        \* FileInfos brought so far

vars == <<queue, pc, retry, items>>

Init == /\ queue = <<>>
        /\ pc = [t \in Thread |-> "idle"]
        /\ retry = [t \in Thread |-> 0]
        /\ items = 0

Go(t, from, to) == /\ pc[t] = from
                   /\ pc' = [pc EXCEPT ![t] = to]

(* A handler has a FileInfo to append, with the counter its sender or       *)
(* queue.md5 gives it; counters above retry_count act like retry_count.     *)
Bring(h) == /\ items < MaxItems
            /\ items' = items + 1
            /\ Go(h, "idle", "wait")
            /\ \E r \in 0..RetryCount : retry' = [retry EXCEPT ![h] = r]
            /\ UNCHANGED queue

(* A worker receives from the channel. *)
Take(w) == /\ queue # <<>>
           /\ queue' = Tail(queue)
           /\ retry' = [retry EXCEPT ![w] = Head(queue)]
           /\ Go(w, "idle", "work")
           /\ UNCHANGED items

(* The file is there, its source gives it or refuses it, or the retries are *)
(* used up.                                                                 *)
Settle(w) == /\ Go(w, "work", "idle")
             /\ UNCHANGED <<queue, retry, items>>

CountedDown(r) == r - 1
NotCounted(r) == r
Counted(r) == r + 1

(* The transfer fails: count the retry and append. *)
Fail(w) == /\ retry[w] < RetryCount
           /\ retry' = [retry EXCEPT ![w] = Counted(@)]
           /\ Go(w, "work", "wait")
           /\ UNCHANGED <<queue, items>>

NeverFull == TRUE
Room == Len(queue) <= Watermark

(* The loop of appendToDownloadQueue ends when there is room. *)
Pass(t) == /\ Room
           /\ Go(t, "wait", "send")
           /\ UNCHANGED <<queue, retry, items>>

(* The send on the channel. *)
Send(t) == /\ Len(queue) < QueueSize
           /\ queue' = Append(queue, retry[t])
           /\ Go(t, "send", "idle")
           /\ UNCHANGED <<retry, items>>

WorkerStep(w) == Take(w) \/ Settle(w) \/ Fail(w)
AppendStep(t) == Pass(t) \/ Send(t)

Next == \/ \E w \in Worker : WorkerStep(w)
        \/ \E h \in Handler : Bring(h)
        \/ \E t \in Thread : AppendStep(t)

Spec == Init /\ [][Next]_vars

(* Every goroutine that can run does; a request comes to an end, one way or *)
(* the other.                                                               *)
Fairness == /\ \A w \in Worker : WF_vars(WorkerStep(w))
            /\ \A t \in Thread : WF_vars(AppendStep(t))

FairSpec == Spec /\ Fairness

-----------------------------------------------------------------------------
TypeOK == /\ queue \in Seq(Nat)
          /\ pc \in [Thread -> {"idle", "work", "wait", "send"}]
          /\ retry \in [Thread -> Nat]
          /\ items \in Nat

Sending == {t \in Thread : pc[t] = "send"}

(* The test for room and the send are not atomic: goroutines that passed    *)
(* the test together overrun the watermark, by at most one FileInfo each.   *)
OverrunBounded == Len(queue) + Cardinality(Sending) <= Watermark + Cardinality(Thread)

(* So a tenth of the channel is slack enough for the send itself never to   *)
(* block while there are no more goroutines than that.                      *)
SendNeverBlocks ==
    Cardinality(Thread) <= QueueSize \div 10
        => \A t \in Thread : pc[t] = "send" => Len(queue) < QueueSize

Settled == queue = <<>> /\ \A t \in Thread : pc[t] = "idle"

(* The workers process the queue (service.go:189): whatever transfers fail  *)
(* and are put back, the queue is empty in the end, as long as all there    *)
(* ever is fits under the watermark.                                        *)
SmallLoadDrains == [](items <= Watermark) => <>[]Settled
=============================================================================
