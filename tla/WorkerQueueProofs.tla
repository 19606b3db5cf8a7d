------------------------- MODULE WorkerQueueProofs -------------------------
(***************************************************************************)
(* Theorems about the worker queues, for every queue size, retry count and *)
(* finite set of goroutines.                                               *)
(***************************************************************************)
EXTENDS WorkerQueue, FiniteSetTheorems, TLAPS

(* The tail of a queue of counters is one, shorter by one.                  *)
LEMMA TailShorter ==
    ASSUME NEW s \in Seq(Nat), s # <<>>
    PROVE  /\ Head(s) \in Nat
           /\ Tail(s) \in Seq(Nat)
           /\ Len(Tail(s)) = Len(s) - 1
  OBVIOUS

(* Initially the type invariant holds.                                      *)
LEMMA InitTypeOK == Init => TypeOK
  BY CountAssumption DEF Init, TypeOK

(* No step of a goroutine breaks the type invariant.                        *)
LEMMA NextTypeOK == TypeOK /\ [Next]_vars => TypeOK'
  <1> SUFFICES ASSUME TypeOK, [Next]_vars PROVE TypeOK'
    OBVIOUS
  <1> USE DEF TypeOK, Go, Thread
  <1>1. ASSUME NEW w \in Worker, Take(w) PROVE TypeOK'
    BY <1>1, TailShorter DEF Take
  <1>2. ASSUME NEW w \in Worker, Settle(w) PROVE TypeOK'
    BY <1>2 DEF Settle
  <1>3. ASSUME NEW w \in Worker, Fail(w) PROVE TypeOK'
    BY <1>3 DEF Fail, Counted
  <1>4. ASSUME NEW h \in Handler, Bring(h) PROVE TypeOK'
    BY <1>4, CountAssumption DEF Bring
  <1>5. ASSUME NEW t \in Thread, Pass(t) PROVE TypeOK'
    BY <1>5 DEF Pass
  <1>6. ASSUME NEW t \in Thread, Send(t) PROVE TypeOK'
    BY <1>6 DEF Send
  <1>7. CASE UNCHANGED vars
    BY <1>7 DEF vars
  <1> QED
    BY <1>1, <1>2, <1>3, <1>4, <1>5, <1>6, <1>7 DEF Next, WorkerStep, AppendStep

(* TypeOK is an invariant: the channel holds counters and every goroutine   *)
(* is at one of its places.                                                 *)
THEOREM TypeCorrect == Spec => []TypeOK
  BY InitTypeOK, NextTypeOK, PTL DEF Spec

-----------------------------------------------------------------------------
(* The goroutines between the test for room and the send are finitely many, *)
(* and no more than there are goroutines.                                   *)
LEMMA SendingFinite ==
    /\ IsFiniteSet(Thread)
    /\ IsFiniteSet(Sending)
    /\ Cardinality(Thread) \in Nat
    /\ Cardinality(Sending) \in Nat
    /\ Cardinality(Sending) <= Cardinality(Thread)
  <1>1. IsFiniteSet(Thread)
    BY FiniteAssumption, FS_Union DEF Thread
  <1>2. Sending \subseteq Thread
    BY DEF Sending
  <1> QED
    BY <1>1, <1>2, FS_Subset, FS_CardinalityType

(* A tenth of the channel size is a natural number below it.                *)
LEMMA TenthType == /\ QueueSize \div 10 \in Nat
                   /\ QueueSize \div 10 <= QueueSize
                   /\ Watermark \in Nat
  BY SizeAssumption DEF Watermark

(* Initially no goroutine sends and the channel is empty.                   *)
LEMMA InitOverrun == Init => OverrunBounded
  <1> SUFFICES ASSUME Init PROVE OverrunBounded
    OBVIOUS
  <1>1. Len(queue) = 0
    BY DEF Init
  <1> QED
    BY <1>1, SendingFinite, TenthType DEF OverrunBounded

(* A goroutine that leaves the send is one less of them.                    *)
LEMMA SendLeaves ==
    ASSUME TypeOK, NEW t \in Thread, Go(t, "send", "idle")
    PROVE  Cardinality(Sending') = Cardinality(Sending) - 1
  <1>1. Sending' = Sending \ {t} /\ t \in Sending
    BY DEF Go, Sending, TypeOK
  <1> QED
    BY <1>1, SendingFinite, FS_RemoveElement

(* Passing the test leaves room for every goroutine above the watermark, a  *)
(* send moves one FileInfo from the goroutine to the channel, and nothing   *)
(* else makes the channel longer or starts a send.                          *)
LEMMA NextOverrun == TypeOK /\ OverrunBounded /\ [Next]_vars => OverrunBounded'
  <1> SUFFICES ASSUME TypeOK, OverrunBounded, [Next]_vars PROVE OverrunBounded'
    OBVIOUS
  <1>0. Len(queue) \in Nat
    BY DEF TypeOK
  <1>1. ASSUME NEW w \in Worker, Take(w) PROVE OverrunBounded'
    <2>1. Sending' = Sending
      BY <1>1 DEF Take, Go, Sending, TypeOK, Thread
    <2>2. Len(queue') = Len(queue) - 1
      BY <1>1, TailShorter DEF Take, TypeOK
    <2> QED
      BY <1>0, <2>1, <2>2, SendingFinite, TenthType DEF OverrunBounded
  <1>2. ASSUME NEW w \in Worker, Settle(w) \/ Fail(w) PROVE OverrunBounded'
    <2>1. Sending' = Sending /\ queue' = queue
      BY <1>2 DEF Settle, Fail, Go, Sending, TypeOK, Thread
    <2> QED
      BY <2>1 DEF OverrunBounded
  <1>3. ASSUME NEW h \in Handler, Bring(h) PROVE OverrunBounded'
    <2>1. Sending' = Sending /\ queue' = queue
      BY <1>3 DEF Bring, Go, Sending, TypeOK, Thread
    <2> QED
      BY <2>1 DEF OverrunBounded
  <1>4. ASSUME NEW t \in Thread, Pass(t) PROVE OverrunBounded'
    <2>1. Len(queue') <= Watermark /\ Len(queue') \in Nat
      BY <1>0, <1>4 DEF Pass, Room
    <2>2. Cardinality(Sending') \in Nat /\ Cardinality(Sending') <= Cardinality(Thread)
      <3>1. Sending' \subseteq Thread
        BY DEF Sending
      <3> QED
        BY <3>1, SendingFinite, FS_Subset, FS_CardinalityType
    <2> QED
      BY <2>1, <2>2, SendingFinite, TenthType DEF OverrunBounded
  <1>5. ASSUME NEW t \in Thread, Send(t) PROVE OverrunBounded'
    <2>1. Len(queue') = Len(queue) + 1
      BY <1>5 DEF Send, TypeOK
    <2>2. Cardinality(Sending') = Cardinality(Sending) - 1
      BY <1>5, SendLeaves DEF Send
    <2> QED
      BY <1>0, <2>1, <2>2, SendingFinite, TenthType DEF OverrunBounded
  <1>6. CASE UNCHANGED vars
    BY <1>6 DEF vars, OverrunBounded, Sending
  <1> QED
    BY <1>1, <1>2, <1>3, <1>4, <1>5, <1>6 DEF Next, WorkerStep, AppendStep

(* However the goroutines interleave, appendToDownloadQueue overruns the    *)
(* watermark by at most one FileInfo per goroutine.                         *)
THEOREM OverrunCorrect == Spec => []OverrunBounded
  BY InitOverrun, NextOverrun, TypeCorrect, PTL DEF Spec

(* The bound on the overrun leaves a free place for whoever sends.          *)
LEMMA OverrunLeavesRoom == TypeOK /\ OverrunBounded => SendNeverBlocks
  <1> SUFFICES ASSUME TypeOK, OverrunBounded,
                      Cardinality(Thread) <= QueueSize \div 10,
                      NEW t \in Thread, pc[t] = "send"
               PROVE  Len(queue) < QueueSize
    BY DEF SendNeverBlocks
  <1>1. t \in Sending
    BY DEF Sending
  <1>2. Cardinality(Sending) >= 1
    BY <1>1, SendingFinite, FS_EmptySet
  <1>3. Len(queue) \in Nat
    BY DEF TypeOK
  <1> QED
    BY <1>2, <1>3, SendingFinite, TenthType, SizeAssumption
       DEF OverrunBounded, Watermark

(* With no more goroutines than a tenth of the channel, a send on it never  *)
(* blocks: only the sleeping loop before it holds a goroutine back.         *)
THEOREM SendCorrect == Spec => []SendNeverBlocks
  BY TypeCorrect, OverrunCorrect, OverrunLeavesRoom, PTL
=============================================================================
