-------------------------- MODULE SmallFileProofs --------------------------
(***************************************************************************)
(* Whatever a node of the group gives a reader of a small file is that     *)
(* file's content, and what a node knows or has answered it can give: for  *)
(* every group, any haystacks and contents, and any bounds.                *)
(***************************************************************************)
EXTENDS SmallFile, SequenceTheorems, TLAPS

USE OwnerAssumption, LengthAssumption, BoundAssumption, ByteAssumption, NoneAssumption

(* The haystack file at the node that appends to it. *)
Original(h) == hay[Owner[h]][h]

(* The bytes s have what info names, behind its "1". *)
Holds(s, info) ==
    /\ info.off + info.size <= Len(s)
    /\ s[info.off + 1] = "1"
    /\ \A i \in (info.off + 2)..(info.off + info.size) : s[i] = info.file

(* No client was answered with bytes of h past the end. *)
Before(h, end) ==
    \A info \in answered : info.hay = h => info.off + info.size <= end

(* An upload under the lock: the last bytes of its haystack are its own.    *)
JobInv(job, u) ==
    job.pc # "idle" =>
        /\ job.hay \in Hay /\ job.file \in File
        /\ job.pc # "lock" => lock[job.hay] = u
        /\ job.pc # "copy" => job.left = Length[job.file]
        /\ job.pc = "seek" => LET s == Original(job.hay) IN
              /\ Len(s) >= 1 /\ s[Len(s)] = "1"
              /\ Before(job.hay, Len(s) - 1)
        /\ job.pc = "copy" => LET s == Original(job.hay) IN
              /\ Len(s) + job.left = job.off + 1 + Length[job.file]
              /\ job.left <= Length[job.file]
              /\ s[job.off + 1] = "1"
              /\ \A i \in (job.off + 2)..Len(s) : s[i] = job.file
              /\ Before(job.hay, job.off)

UploadInv == \A u \in Uploader : JobInv(up[u], u)

(* What was answered is in the original, and no two answers share a byte. *)
AnsweredInv ==
    \A info \in answered :
        info.size = Length[info.file] + 1 /\ Holds(Original(info.hay), info)

Apart ==
    \A x, y \in answered : x.hay = y.hay =>
        \/ x = y
        \/ x.off + x.size <= y.off
        \/ y.off + y.size <= x.off

(* A "1" in a copy of a haystack begins a small file that is all there. *)
CopyInv ==
    \A n \in Node, h \in Hay : n # Owner[h] =>
        \A i \in 1..Len(hay[n][h]) : hay[n][h][i] = "1" =>
            \E info \in answered :
                info.hay = h /\ info.off + 1 = i /\ Holds(hay[n][h], info)

(* Only copies are downloaded into, and data of the right length is right. *)
Fetched(n, g) ==
    g.info # None =>
        /\ g.info \in answered /\ Owner[g.info.hay] # n
        /\ Len(g.data) + 1 = g.info.size =>
              \A i \in 1..Len(g.data) : g.data[i] = g.info.file

FetchInv ==
    \A n \in Node :
        /\ \A info \in offered[n] : Owner[info.hay] # n
        /\ \A d \in Getter : Fetched(n, get[n][d])

(* What is logged, or was, can be read. *)
LogInv ==
    \A n \in Node : \A info \in index[n] \cup fileLog[n] : Found(n, info)

(* The inductive invariant; the part that no upload in progress enters. *)
StoredInv == AnsweredInv /\ Apart /\ CopyInv /\ FetchInv /\ LogInv

IInv == TypeOK /\ UploadInv /\ StoredInv

-----------------------------------------------------------------------------
(* A byte is appended. *)
LEMMA Appended ==
    ASSUME NEW S, NEW s \in Seq(S), NEW x \in S
    PROVE  LET t == Append(s, x) IN
           /\ t \in Seq(S)
           /\ Len(t) = Len(s) + 1
           /\ t[Len(t)] = x
           /\ \A i \in 1..Len(s) : t[i] = s[i]
  OBVIOUS

(* One of the haystacks of one of the nodes is another. *)
LEMMA OneHaystack ==
    ASSUME NEW n \in Node, NEW h \in Hay, NEW t \in Seq(Byte),
           hay \in [Node -> [Hay -> Seq(Byte)]],
           hay' = [hay EXCEPT ![n] = [hay[n] EXCEPT ![h] = t]]
    PROVE  /\ hay' \in [Node -> [Hay -> Seq(Byte)]]
           /\ hay'[n][h] = t
           /\ \A m \in Node, g \in Hay : m # n \/ g # h => hay'[m][g] = hay[m][g]
  OBVIOUS

(* A haystack after a write at an offset: the data at its place, the rest   *)
(* as it was, holes in between.                                             *)
LEMMA WrittenAtOffset ==
    ASSUME NEW s \in Seq(Byte), NEW off \in Nat, NEW data \in Seq(Byte)
    PROVE  LET t == WrittenAt(s, off, data) IN
           /\ t \in Seq(Byte)
           /\ Len(t) >= Len(s) /\ Len(t) >= off + Len(data)
           /\ \A i \in (off + 1)..(off + Len(data)) : t[i] = data[i - off]
           /\ \A i \in 1..Len(t) : i \notin (off + 1)..(off + Len(data)) =>
                 t[i] = IF i <= Len(s) THEN s[i] ELSE "0"
  <1> DEFINE e == off + Len(data)
             m == IF Len(s) > e THEN Len(s) ELSE e
             v(i) == IF i \in (off + 1)..e THEN data[i - off]
                     ELSE IF i <= Len(s) THEN s[i] ELSE "0"
             t == [i \in 1..m |-> v(i)]
  <1>1. e \in Nat /\ m \in Nat /\ m >= Len(s) /\ m >= e /\ Len(s) \in Nat
    OBVIOUS
  <1>2. \A i \in 1..m : v(i) \in Byte
    <2> TAKE i \in 1..m
    <2>1. CASE i \in (off + 1)..e
      <3>1. i - off \in 1..Len(data)
        BY <1>1, <2>1
      <3> QED
        BY <2>1, <3>1
    <2>2. CASE i \notin (off + 1)..e /\ i <= Len(s)
      BY <1>1, <2>2
    <2>3. CASE i \notin (off + 1)..e /\ ~ (i <= Len(s))
      BY <2>3 DEF Byte
    <2> QED
      BY <2>1, <2>2, <2>3
  <1>3. t = WrittenAt(s, off, data)
    BY DEF WrittenAt
  <1> HIDE DEF v, m
  <1>4. t \in Seq(Byte) /\ Len(t) = m /\ \A i \in 1..m : t[i] = v(i)
    BY <1>1, <1>2
  <1> HIDE DEF t
  <1>5. \A i \in (off + 1)..e : i \in 1..m /\ v(i) = data[i - off]
    BY <1>1 DEF v
  <1>6. \A i \in 1..m : i \notin (off + 1)..e =>
            v(i) = IF i <= Len(s) THEN s[i] ELSE "0"
    BY DEF v
  <1> QED
    BY <1>1, <1>3, <1>4, <1>5, <1>6

(* What is held stays held while the bytes of its range stay. *)
LEMMA HoldsOn ==
    ASSUME NEW s \in Seq(Byte), NEW t \in Seq(Byte), NEW info \in Info,
           info.size >= 1, Holds(s, info), Len(t) >= Len(s),
           \A i \in (info.off + 1)..(info.off + info.size) : t[i] = s[i]
    PROVE  Holds(t, info)
  <1>1. info.off \in Nat /\ info.size \in Nat
    BY DEF Info
  <1>2. info.off + 1 \in (info.off + 1)..(info.off + info.size)
    BY <1>1
  <1>3. Len(s) \in Nat /\ Len(t) \in Nat
    OBVIOUS
  <1>4. \A i \in (info.off + 2)..(info.off + info.size) :
            i \in (info.off + 1)..(info.off + info.size)
    BY <1>1
  <1>5. info.off + info.size <= Len(t)
    BY <1>1, <1>3 DEF Holds
  <1>6. t[info.off + 1] = "1"
    BY <1>2 DEF Holds
  <1>7. \A i \in (info.off + 2)..(info.off + info.size) : t[i] = info.file
    BY <1>4 DEF Holds
  <1> QED
    BY <1>5, <1>6, <1>7 DEF Holds

(* What an answer names. *)
LEMMA AnsweredType ==
    ASSUME TypeOK, AnsweredInv, NEW info \in answered
    PROVE  /\ info \in Info /\ info.file \in File /\ info.hay \in Hay
           /\ info.off \in Nat /\ info.size \in Nat /\ info.size >= 1
           /\ Owner[info.hay] \in Node
  <1>1. info \in Info /\ info.size = Length[info.file] + 1
    BY DEF TypeOK, AnsweredInv
  <1>2. info.file \in File /\ info.hay \in Hay /\ info.off \in Nat /\ info.size \in Nat
    BY <1>1 DEF Info
  <1>3. Length[info.file] \in Nat
    BY <1>2
  <1> QED
    BY <1>1, <1>2, <1>3

(* Found at a node: held by its haystack. *)
LEMMA FoundIsHeld ==
    ASSUME TypeOK, AnsweredInv, Apart, CopyInv,
           NEW n \in Node, NEW info \in answered, Found(n, info)
    PROVE  Holds(hay[n][info.hay], info)
  <1>1. info \in Info /\ hay[n][info.hay] \in Seq(Byte) /\ info.size >= 1
    BY DEF TypeOK, Info, AnsweredInv
  <1>2. CASE n = Owner[info.hay]
    BY <1>2 DEF AnsweredInv, Original
  <1>3. CASE n # Owner[info.hay]
    <2>1. info.off + 1 \in 1..Len(hay[n][info.hay])
      BY <1>1 DEF Found, LongEnough, Info
    <2>2. PICK x \in answered : /\ x.hay = info.hay /\ x.off + 1 = info.off + 1
                                /\ Holds(hay[n][info.hay], x)
      <3>1. hay[n][info.hay][info.off + 1] = "1" /\ info.hay \in Hay
        BY <1>1 DEF Found, Info
      <3> QED
        BY <1>3, <2>1, <3>1 DEF CopyInv
    <2>3. x \in Info /\ x.size >= 1
      BY AnsweredType
    <2>4. x = info
      <3>1. x.off = info.off
        BY <1>1, <2>2, <2>3 DEF Info
      <3> QED
        BY <1>1, <2>2, <2>3, <3>1 DEF Apart, Info
    <2> QED
      BY <2>2, <2>4
  <1> QED
    BY <1>2, <1>3

(* Held by a node's haystack: found there. *)
LEMMA HeldIsFound ==
    ASSUME NEW n \in Node, NEW info \in Info, info.size >= 1,
           Holds(hay[n][info.hay], info)
    PROVE  Found(n, info)
  BY DEF Holds, Found, LongEnough, Info

(* A part of a sequence that is one element over and over. *)
LEMMA Repeated ==
    ASSUME NEW S, NEW s \in Seq(S), NEW x \in S, NEW off \in Nat, NEW len \in Nat,
           \A i \in (off + 2)..(off + len + 1) : s[i] = x
    PROVE  SubSeq(s, off + 2, off + len + 1) = [i \in 1..len |-> x]
  <1> DEFINE m == off + 2
             k == off + len + 1
             r == SubSeq(s, m, k)
             c == [i \in 1..len |-> x]
  <1>1. m \in Int /\ k \in Int /\ k - m + 1 = len
    OBVIOUS
  <1>2. \A i \in m..k : s[i] \in S
    OBVIOUS
  <1>3. /\ r \in Seq(S)
        /\ Len(r) = IF m <= k THEN k - m + 1 ELSE 0
        /\ \A i \in 1..(k - m + 1) : r[i] = s[m + i - 1]
    <2> HIDE DEF m, k
    <2> QED
      BY <1>1, <1>2, SubSeqProperties
  <1>4. Len(r) = len /\ \A i \in 1..len : r[i] = x
    <2> HIDE DEF r
    <2> QED
      BY <1>1, <1>3
  <1>5. c \in Seq(S) /\ Len(c) = len /\ \A i \in 1..len : c[i] = x
    OBVIOUS
  <1> HIDE DEF r, c
  <1>6. r = c
    BY <1>3, <1>4, <1>5
  <1> QED
    BY <1>6 DEF r, c, m, k

(* A reader of what is held is given the content. *)
LEMMA HeldIsContent ==
    ASSUME TypeOK, NEW n \in Node, NEW info \in Info,
           info.size = Length[info.file] + 1, Holds(hay[n][info.hay], info)
    PROVE  Read(n, info) = Content(info.file)
  <1>1. PICK len \in Nat : len = Length[info.file]
    BY DEF Info
  <1>2. PICK off \in Nat : off = info.off
    BY DEF Info
  <1>3. info.off + info.size = off + len + 1
    BY <1>1, <1>2
  <1>4. hay[n][info.hay] \in Seq(Byte) /\ info.file \in Byte
    BY DEF TypeOK, Info, Byte
  <1>5. \A i \in (off + 2)..(off + len + 1) : hay[n][info.hay][i] = info.file
    BY <1>2, <1>3 DEF Holds
  <1>6. SubSeq(hay[n][info.hay], off + 2, off + len + 1) = [i \in 1..len |-> info.file]
    BY <1>4, <1>5, Repeated
  <1> QED
    BY <1>1, <1>2, <1>3, <1>6 DEF Read, Content

-----------------------------------------------------------------------------
(* Initially haystacks are empty and nothing was answered. *)
LEMMA InitIInv == Init => IInv
  <1> SUFFICES ASSUME Init PROVE IInv
    OBVIOUS
  <1>1. NoUpload \in UploadState
    BY DEF NoUpload, UploadState
  <1>2. NoGet \in GetState
    BY DEF NoGet, GetState
  <1>3. TypeOK
    BY <1>1, <1>2 DEF Init, TypeOK
  <1>4. UploadInv
    BY DEF Init, UploadInv, JobInv, NoUpload
  <1>5. AnsweredInv /\ Apart /\ LogInv
    BY DEF Init, AnsweredInv, Apart, LogInv
  <1>6. CopyInv
    BY DEF Init, CopyInv
  <1>7. FetchInv
    BY DEF Init, FetchInv, Fetched, NoGet
  <1> QED
    BY <1>3, <1>4, <1>5, <1>6, <1>7 DEF IInv, StoredInv

(* An upload beyond its start has a haystack of its node and a content. *)
LEMMA JobType ==
    ASSUME TypeOK, UploadInv, NEW u \in Uploader, up[u].pc # "idle"
    PROVE  /\ up[u].hay \in Hay /\ up[u].file \in File
           /\ up[u].off \in Nat /\ up[u].left \in Nat
           /\ Length[up[u].file] \in Nat
           /\ Owner[up[u].hay] \in Node
           /\ Original(up[u].hay) \in Seq(Byte)
  <1>1. up[u] \in UploadState
    BY DEF TypeOK
  <1>2. up[u].hay \in Hay /\ up[u].file \in File
    BY DEF UploadInv, JobInv
  <1>3. up[u].off \in Nat /\ up[u].left \in Nat
    BY <1>1 DEF UploadState
  <1> QED
    BY <1>2, <1>3 DEF TypeOK, Original

(* Two uploads under the lock have different haystacks. *)
LEMMA OneHolds ==
    ASSUME UploadInv, NEW u \in Uploader, NEW v \in Uploader, u # v,
           up[u].pc \notin {"idle", "lock"}, up[v].pc \notin {"idle", "lock"}
    PROVE  up[u].hay # up[v].hay
  BY DEF UploadInv, JobInv

(* A byte written under the lock changes the end of one haystack at its     *)
(* owner.                                                                   *)
LEMMA WrittenByte ==
    ASSUME TypeOK, UploadInv, NEW u \in Uploader, up[u].pc # "idle",
           NEW h \in Hay, h = up[u].hay,
           NEW byte \in Byte, Written(u, byte)
    PROVE  /\ hay' \in [Node -> [Hay -> Seq(Byte)]]
           /\ \A n \in Node, g \in Hay :
                 n # Owner[h] \/ g # h => hay'[n][g] = hay[n][g]
           /\ \A g \in Hay : g # h => Original(g)' = Original(g)
           /\ Original(h) \in Seq(Byte) /\ Original(h)' \in Seq(Byte)
           /\ Len(Original(h)') = Len(Original(h)) + 1
           /\ Original(h)'[Len(Original(h)')] = byte
           /\ \A i \in 1..Len(Original(h)) : Original(h)'[i] = Original(h)[i]
  <1> DEFINE o == Owner[h]
             s == hay[o][h]
             t == Append(s, byte)
  <1>1. o \in Node /\ s \in Seq(Byte)
    BY DEF TypeOK
  <1>2. hay' = [hay EXCEPT ![o] = [hay[o] EXCEPT ![h] = t]]
    BY DEF Written
  <1> HIDE DEF o, s
  <1>3. /\ t \in Seq(Byte) /\ Len(t) = Len(s) + 1 /\ t[Len(t)] = byte
        /\ \A i \in 1..Len(s) : t[i] = s[i]
    BY <1>1, Appended
  <1> HIDE DEF t
  <1>4. hay \in [Node -> [Hay -> Seq(Byte)]]
    BY DEF TypeOK
  <1>5. hay' \in [Node -> [Hay -> Seq(Byte)]]
    BY <1>1, <1>2, <1>3, <1>4, OneHaystack
  <1>6. hay'[o][h] = t
    BY <1>1, <1>2, <1>3, <1>4, OneHaystack
  <1>7. \A n \in Node, g \in Hay : n # o \/ g # h => hay'[n][g] = hay[n][g]
    BY <1>1, <1>2, <1>3, <1>4, OneHaystack
  <1>8. Original(h)' = t /\ Original(h) = s
    BY <1>6 DEF Original, o, s
  <1>9. \A g \in Hay : g # h => Original(g)' = Original(g)
    BY <1>7, OwnerAssumption DEF Original
  <1> QED
    BY <1>1, <1>3, <1>5, <1>7, <1>8, <1>9 DEF o

(* Where no haystack, answer or log changes, what is stored stays. *)
LEMMA StoredStays ==
    ASSUME StoredInv, UNCHANGED <<hay, answered, known>>
    PROVE  StoredInv'
  BY DEF known, StoredInv, AnsweredInv, Apart, CopyInv, FetchInv, Fetched, LogInv, Found, Original

(* Downloads end, or have fetched what the owner is not asked to fetch.     *)
LEMMA FetchStays ==
    ASSUME FetchInv, answered' = answered,
           \A n \in Node : offered'[n] \subseteq offered[n],
           \A n \in Node, d \in Getter : get'[n][d] = get[n][d] \/ Fetched(n, get'[n][d])
    PROVE  FetchInv'
  <1> SUFFICES ASSUME NEW n \in Node
               PROVE  /\ \A info \in offered'[n] : Owner[info.hay] # n
                      /\ \A d \in Getter : Fetched(n, get[n][d])'
    BY DEF FetchInv
  <1>1. \A info \in offered'[n] : Owner[info.hay] # n
    BY DEF FetchInv
  <1>2. \A d \in Getter : Fetched(n, get'[n][d])
    BY DEF FetchInv
  <1> QED
    BY <1>1, <1>2 DEF Fetched

(* What is in the haystacks can be read on after a byte is appended. *)
LEMMA StoredGrows ==
    ASSUME TypeOK, UploadInv, StoredInv, NEW u \in Uploader, up[u].pc # "idle",
           NEW byte \in Byte, Written(u, byte), UNCHANGED <<answered, known>>
    PROVE  StoredInv'
  <1>1. PICK h \in Hay : h = up[u].hay
    BY JobType
  <1>2. /\ \A n \in Node, g \in Hay :
              n # Owner[h] \/ g # h => hay'[n][g] = hay[n][g]
        /\ \A g \in Hay : g # h => Original(g)' = Original(g)
        /\ Original(h) \in Seq(Byte) /\ Original(h)' \in Seq(Byte)
        /\ Len(Original(h)') = Len(Original(h)) + 1
        /\ \A i \in 1..Len(Original(h)) : Original(h)'[i] = Original(h)[i]
    BY <1>1, WrittenByte
  <1>3. AnsweredInv'
    <2> SUFFICES ASSUME NEW info \in answered
                 PROVE  /\ info.size = Length[info.file] + 1
                        /\ Holds(Original(info.hay)', info)
      BY DEF known, AnsweredInv
    <2>1. info \in Info /\ info.size >= 1 /\ info.hay \in Hay
          /\ info.size = Length[info.file] + 1 /\ Holds(Original(info.hay), info)
      BY DEF TypeOK, Info, StoredInv, AnsweredInv
    <2>2. CASE info.hay # h
      BY <1>2, <2>1, <2>2
    <2>3. CASE info.hay = h
      <3>1. \A i \in (info.off + 1)..(info.off + info.size) : i \in 1..Len(Original(h))
        BY <1>2, <2>1, <2>3 DEF Holds, Info
      <3> QED
        BY <1>2, <2>1, <2>3, <3>1, HoldsOn
    <2> QED
      BY <2>2, <2>3
  <1>4. Apart' /\ FetchInv'
    BY DEF known, StoredInv, Apart, FetchInv, Fetched
  <1>5. CopyInv'
    BY <1>2 DEF known, StoredInv, CopyInv
  <1>6. LogInv'
    <2> SUFFICES ASSUME NEW n \in Node, NEW info \in index[n] \cup fileLog[n]
                 PROVE  Found(n, info)'
      BY DEF known, LogInv
    <2>1. info \in answered /\ info \in Info /\ info.size >= 1 /\ info.hay \in Hay
      BY AnsweredType DEF TypeOK, StoredInv
    <2>2. CASE n = Owner[info.hay]
      <3>1. Holds(hay'[n][info.hay], info)
        BY <1>3, <2>1, <2>2 DEF known, AnsweredInv, Original
      <3> QED
        BY <2>1, <3>1 DEF Holds, Found, LongEnough, Info
    <2>3. CASE n # Owner[info.hay]
      <3>1. hay'[n][info.hay] = hay[n][info.hay]
        BY <1>2, <2>1, <2>3
      <3> QED
        BY <3>1 DEF StoredInv, LogInv, Found
    <2> QED
      BY <2>2, <2>3
  <1> QED
    BY <1>3, <1>4, <1>5, <1>6 DEF StoredInv

(* The original is as long as anything answered of it. *)
LEMMA AnsweredBefore ==
    ASSUME TypeOK, AnsweredInv, NEW h \in Hay
    PROVE  Before(h, Len(Original(h)))
  BY DEF AnsweredInv, Before, Holds

(* An upload is as it was where its haystack, its lock and the answers are. *)
LEMMA JobStays ==
    ASSUME TypeOK, UploadInv, NEW v \in Uploader, up'[v] = up[v],
           up[v].pc \notin {"idle", "lock"} =>
              /\ \A info \in answered' : info \in answered \/ info.hay # up[v].hay
              /\ lock'[up[v].hay] = lock[up[v].hay]
              /\ hay'[Owner[up[v].hay]][up[v].hay] = hay[Owner[up[v].hay]][up[v].hay]
    PROVE  JobInv(up[v], v)'
  <1> SUFFICES ASSUME up[v].pc # "idle" PROVE JobInv(up[v], v)'
    BY DEF JobInv
  <1>1. JobInv(up[v], v)
    BY DEF UploadInv
  <1>2. PICK job : job = up[v]
    OBVIOUS
  <1>3. job.hay \in Hay /\ job.file \in File
    BY <1>1, <1>2 DEF JobInv
  <1>4. CASE job.pc = "lock"
    BY <1>1, <1>2, <1>4 DEF JobInv
  <1>5. CASE job.pc # "lock"
    <2>1. lock'[job.hay] = lock[job.hay] /\ Original(job.hay)' = Original(job.hay)
      BY <1>2, <1>5 DEF Original
    <2>2. \A end : Before(job.hay, end) => Before(job.hay, end)'
      BY <1>2, <1>5 DEF Before
    <2> HIDE DEF Before
    <2> QED
      BY <1>1, <1>2, <2>1, <2>2 DEF JobInv
  <1> QED
    BY <1>4, <1>5

-----------------------------------------------------------------------------
(* The steps of an upload: where all but one upload, and all that is stored *)
(* and logged, is as it was, that upload remains to be looked at.           *)
LEMMA UploadStep ==
    ASSUME TypeOK, UploadInv, NEW u \in Uploader, NEW job \in UploadState,
           up' = [up EXCEPT ![u] = job],
           \A info \in answered' :
              info \in answered
              \/ (info.hay = up[u].hay /\ up[u].pc \notin {"idle", "lock"}),
           \A h \in Hay : u # lock[h] /\ lock[h] # None => lock'[h] = lock[h],
           \A h \in Hay : h # up[u].hay \/ up[u].pc \in {"idle", "lock"} =>
              Original(h)' = Original(h),
           JobInv(job, u)'
    PROVE  UploadInv' /\ up' \in [Uploader -> UploadState]
  <1>1. up \in [Uploader -> UploadState]
    BY DEF TypeOK
  <1>2. up' \in [Uploader -> UploadState] /\ up'[u] = job
        /\ \A v \in Uploader : v # u => up'[v] = up[v]
    BY <1>1
  <1>3. ASSUME NEW v \in Uploader, v # u PROVE JobInv(up[v], v)'
    <2>1. ASSUME up[v].pc \notin {"idle", "lock"}
          PROVE  /\ \A info \in answered' : info \in answered \/ info.hay # up[v].hay
                 /\ lock'[up[v].hay] = lock[up[v].hay]
                 /\ hay'[Owner[up[v].hay]][up[v].hay] = hay[Owner[up[v].hay]][up[v].hay]
      <3>1. up[v].hay \in Hay /\ lock[up[v].hay] = v /\ v # None
        BY <2>1 DEF UploadInv, JobInv
      <3>2. CASE up[u].pc \in {"idle", "lock"}
        BY <1>3, <3>1, <3>2 DEF Original
      <3>3. CASE up[u].pc \notin {"idle", "lock"}
        <4>1. up[v].hay # up[u].hay
          BY <1>3, <2>1, <3>3, OneHolds
        <4> QED
          BY <1>3, <3>1, <4>1 DEF Original
      <3> QED
        BY <3>2, <3>3
    <2> QED
      BY <1>2, <1>3, <2>1, JobStays
  <1>4. JobInv(up[u], u)'
    BY <1>2 DEF JobInv
  <1> QED
    BY <1>2, <1>3, <1>4 DEF UploadInv


(* saveSmallFile draws a haystack. *)
LEMMA StartStep ==
    ASSUME IInv, NEW u \in Uploader, NEW f \in File, NEW h \in Hay, Start(u, f, h)
    PROVE  IInv'
  <1> DEFINE job == [pc |-> "lock", file |-> f, hay |-> h, off |-> 0, left |-> Length[f]]
  <1>1. job \in UploadState
    BY DEF UploadState
  <1>2. JobInv(job, u)'
    BY DEF JobInv
  <1> HIDE DEF job
  <1>3. UploadInv' /\ up' \in [Uploader -> UploadState]
    <2>1. up' = [up EXCEPT ![u] = job] /\ lock' = lock /\ answered' = answered
      BY DEF Start, job
    <2>2. \A g \in Hay : Original(g)' = Original(g)
      BY DEF Start, Original
    <2> QED
      BY <1>1, <1>2, <2>1, <2>2, UploadStep DEF IInv
  <1>4. uploads' \in 0..MaxUploads
    BY DEF Start, IInv, TypeOK
  <1>5. TypeOK' /\ StoredInv'
    BY <1>3, <1>4, StoredStays DEF Start, known, env, IInv, TypeOK
  <1> QED
    BY <1>3, <1>5 DEF IInv

(* ... and locks its key. *)
LEMMA LockKeyStep ==
    ASSUME IInv, NEW u \in Uploader, LockKey(u)
    PROVE  IInv'
  <1>1. up[u].pc = "lock" /\ up[u] \in UploadState /\ JobInv(up[u], u)
    BY DEF LockKey, IInv, TypeOK, UploadInv
  <1>2. PICK job \in UploadState : job = [up[u] EXCEPT !.pc = "flag"]
    BY <1>1 DEF UploadState
  <1>3. /\ job.pc = "flag" /\ job.hay = up[u].hay /\ job.file = up[u].file
        /\ job.left = up[u].left
    BY <1>1, <1>2 DEF UploadState
  <1>4. up[u].hay \in Hay /\ lock[up[u].hay] = None
    BY <1>1 DEF LockKey, Unlocked, JobInv
  <1>5. /\ lock' \in [Hay -> Uploader \cup {None}]
        /\ lock'[up[u].hay] = u
        /\ \A h \in Hay : lock[h] # None => lock'[h] = lock[h]
    BY <1>4 DEF LockKey, IInv, TypeOK
  <1>6. JobInv(job, u)'
    BY <1>1, <1>3, <1>5 DEF JobInv
  <1>7. UploadInv' /\ up' \in [Uploader -> UploadState]
    <2>1. up' = [up EXCEPT ![u] = job] /\ answered' = answered
      BY <1>2 DEF LockKey
    <2>2. \A g \in Hay : Original(g)' = Original(g)
      BY DEF LockKey, Original
    <2> QED
      BY <1>5, <1>6, <2>1, <2>2, UploadStep DEF IInv
  <1>8. TypeOK' /\ StoredInv'
    BY <1>5, <1>7, StoredStays DEF LockKey, known, env, IInv, TypeOK
  <1> QED
    BY <1>7, <1>8 DEF IInv

(* The "1" is written: it is the last byte, behind all that was answered. *)
LEMMA WriteFlagStep ==
    ASSUME IInv, NEW u \in Uploader, WriteFlag(u)
    PROVE  IInv'
  <1>1. up[u].pc = "flag" /\ up[u] \in UploadState /\ JobInv(up[u], u)
    BY DEF WriteFlag, IInv, TypeOK, UploadInv
  <1>2. PICK job \in UploadState : job = [up[u] EXCEPT !.pc = "seek"]
    BY <1>1 DEF UploadState
  <1>3. /\ job.pc = "seek" /\ job.hay = up[u].hay /\ job.file = up[u].file
        /\ job.left = up[u].left
    BY <1>1, <1>2 DEF UploadState
  <1>4. PICK h \in Hay : h = up[u].hay
    BY <1>1 DEF JobInv
  <1>5. /\ hay' \in [Node -> [Hay -> Seq(Byte)]]
        /\ \A g \in Hay : g # h => Original(g)' = Original(g)
        /\ Original(h) \in Seq(Byte) /\ Original(h)' \in Seq(Byte)
        /\ Len(Original(h)') = Len(Original(h)) + 1
        /\ Original(h)'[Len(Original(h)')] = "1"
    <2>1. Written(u, "1") /\ "1" \in Byte /\ up[u].pc # "idle"
      BY <1>1 DEF WriteFlag, Byte
    <2>2. TypeOK /\ UploadInv
      BY DEF IInv
    <2> QED
      BY <1>4, <2>1, <2>2, WrittenByte
  <1>6. Before(h, Len(Original(h)) - 1)'
    <2>1. Before(h, Len(Original(h)))
      BY AnsweredBefore DEF IInv, StoredInv
    <2> QED
      BY <1>5, <2>1 DEF Before, WriteFlag
  <1>7. JobInv(job, u)'
    BY <1>1, <1>3, <1>4, <1>5, <1>6 DEF JobInv, WriteFlag
  <1>8. UploadInv' /\ up' \in [Uploader -> UploadState]
    <2>1. up' = [up EXCEPT ![u] = job] /\ lock' = lock /\ answered' = answered
      BY <1>2 DEF WriteFlag
    <2> QED
      BY <1>1, <1>4, <1>5, <1>7, <2>1, UploadStep DEF IInv
  <1>9. StoredInv'
    BY <1>1, StoredGrows DEF WriteFlag, IInv, Byte
  <1>10. TypeOK'
    BY <1>5, <1>8 DEF WriteFlag, known, env, IInv, TypeOK
  <1> QED
    BY <1>8, <1>9, <1>10 DEF IInv


(* The end is sought: the offset is that of the "1". *)
LEMMA SeekEndStep ==
    ASSUME IInv, NEW u \in Uploader, SeekEnd(u)
    PROVE  IInv'
  <1>1. up[u].pc = "seek" /\ up[u] \in UploadState /\ JobInv(up[u], u)
    BY DEF SeekEnd, IInv, TypeOK, UploadInv
  <1>2. PICK h \in Hay : h = up[u].hay
    BY <1>1 DEF JobInv
  <1>3. /\ Original(h) \in Seq(Byte) /\ Len(Original(h)) >= 1
        /\ Original(h)[Len(Original(h))] = "1"
        /\ Before(h, Len(Original(h)) - 1)
        /\ Length[up[u].file] \in Nat /\ up[u].left = Length[up[u].file]
    BY <1>1, <1>2, JobType DEF IInv, JobInv
  <1>4. PICK end \in Nat : end = Len(Original(h)) - 1
    BY <1>3
  <1>5. PICK job \in UploadState : job = [up[u] EXCEPT !.pc = "copy", !.off = end]
    BY <1>1 DEF UploadState
  <1>6. /\ job.pc = "copy" /\ job.hay = h /\ job.file = up[u].file
        /\ job.left = up[u].left /\ job.off = end
    BY <1>1, <1>2, <1>5 DEF UploadState
  <1>7. \A g \in Hay : Original(g)' = Original(g)
    BY DEF SeekEnd, Original
  <1>8. JobInv(job, u)'
    <2>1. lock'[h] = u /\ h \in Hay /\ job.file \in File
      BY <1>1, <1>2, <1>6 DEF JobInv, SeekEnd
    <2>2. Before(h, end)'
      BY <1>3, <1>4 DEF Before, SeekEnd
    <2>3. /\ Len(Original(h)) + job.left = job.off + 1 + Length[job.file]
          /\ job.left <= Length[job.file]
          /\ Original(h)[job.off + 1] = "1"
          /\ \A i \in (job.off + 2)..Len(Original(h)) : Original(h)[i] = job.file
      BY <1>3, <1>4, <1>6
    <2> QED
      BY <1>6, <1>7, <2>1, <2>2, <2>3 DEF JobInv
  <1>9. UploadInv' /\ up' \in [Uploader -> UploadState]
    <2>1. /\ up' = [up EXCEPT ![u] = job] /\ lock' = lock /\ answered' = answered
      BY <1>2, <1>4, <1>5 DEF SeekEnd, OffSet, EndOf, Original
    <2> QED
      BY <1>7, <1>8, <2>1, UploadStep DEF IInv
  <1>10. TypeOK' /\ StoredInv'
    BY <1>9, StoredStays DEF SeekEnd, known, env, IInv, TypeOK
  <1> QED
    BY <1>9, <1>10 DEF IInv

(* A byte of the content follows those before it. *)
LEMMA CopyByteStep ==
    ASSUME IInv, NEW u \in Uploader, CopyByte(u)
    PROVE  IInv'
  <1>1. up[u].pc = "copy" /\ up[u] \in UploadState /\ JobInv(up[u], u) /\ up[u].left > 0
    BY DEF CopyByte, More, IInv, TypeOK, UploadInv
  <1>2. PICK h \in Hay, f \in File : h = up[u].hay /\ f = up[u].file
    BY <1>1 DEF JobInv
  <1>3. up[u].left \in Nat /\ up[u].off \in Nat /\ Length[f] \in Nat
    BY <1>1, <1>2 DEF UploadState
  <1>4. PICK job \in UploadState : job = [up[u] EXCEPT !.left = up[u].left - 1]
    <2>1. up[u].left - 1 \in Nat
      BY <1>1, <1>3
    <2> QED
      BY <1>1, <2>1 DEF UploadState
  <1>5. /\ job.pc = "copy" /\ job.hay = h /\ job.file = f
        /\ job.left = up[u].left - 1 /\ job.off = up[u].off
    BY <1>1, <1>2, <1>4 DEF UploadState
  <1>6. /\ hay' \in [Node -> [Hay -> Seq(Byte)]]
        /\ \A g \in Hay : g # h => Original(g)' = Original(g)
        /\ Original(h) \in Seq(Byte) /\ Original(h)' \in Seq(Byte)
        /\ Len(Original(h)') = Len(Original(h)) + 1
        /\ Original(h)'[Len(Original(h)')] = f
        /\ \A i \in 1..Len(Original(h)) : Original(h)'[i] = Original(h)[i]
    <2>1. Written(u, f) /\ f \in Byte /\ up[u].pc # "idle"
      BY <1>1, <1>2 DEF CopyByte, Byte
    <2>2. TypeOK /\ UploadInv
      BY DEF IInv
    <2> QED
      BY <1>2, <2>1, <2>2, WrittenByte
  <1>7. /\ Len(Original(h)) + up[u].left = up[u].off + 1 + Length[f]
        /\ up[u].left <= Length[f]
        /\ Original(h)[up[u].off + 1] = "1"
        /\ \A i \in (up[u].off + 2)..Len(Original(h)) : Original(h)[i] = f
        /\ Before(h, up[u].off) /\ lock[h] = u
    BY <1>1, <1>2 DEF JobInv
  <1>8. JobInv(job, u)'
    <2>1. Before(h, job.off)' /\ lock'[h] = u
      <3>1. Before(h, job.off) /\ answered' = answered /\ lock' = lock
        BY <1>5, <1>7 DEF CopyByte
      <3> QED
        BY <1>7, <3>1 DEF Before
    <2>2. PICK l \in Nat, o \in Nat, left \in Nat, all \in Nat :
             l = Len(Original(h)) /\ o = up[u].off /\ left = up[u].left /\ all = Length[f]
      <3>1. Len(Original(h)) \in Nat
        BY <1>6
      <3> QED
        BY <1>3, <3>1
    <2>3. l + left = o + 1 + all /\ left <= all /\ left > 0
      BY <1>1, <1>7, <2>2
    <2>4. l + 1 + (left - 1) = o + 1 + all /\ left - 1 <= all /\ o + 1 \in 1..l
      BY <2>3
    <2>5. /\ Len(Original(h)') + job.left = job.off + 1 + Length[f]
          /\ job.left <= Length[f]
          /\ job.off + 1 \in 1..Len(Original(h))
      BY <1>5, <1>6, <2>2, <2>4
    <2>6. ASSUME NEW i \in (o + 2)..(l + 1) PROVE Original(h)'[i] = f
      <3>1. CASE i = l + 1
        BY <1>6, <2>2, <3>1
      <3>2. CASE i \in 1..l /\ i \in (o + 2)..l
        BY <1>6, <1>7, <2>2, <3>2
      <3> QED
        BY <3>1, <3>2
    <2>7. \A i \in (job.off + 2)..Len(Original(h)') : Original(h)'[i] = f
      BY <1>5, <1>6, <2>2, <2>6
    <2> QED
      BY <1>5, <1>6, <1>7, <2>1, <2>5, <2>7 DEF JobInv
  <1>9. UploadInv' /\ up' \in [Uploader -> UploadState]
    <2>1. /\ up' = [up EXCEPT ![u] = job] /\ lock' = lock /\ answered' = answered
      BY <1>4 DEF CopyByte
    <2> QED
      BY <1>1, <1>2, <1>6, <1>8, <2>1, UploadStep DEF IInv
  <1>10. StoredInv'
    BY <1>1, <1>2, StoredGrows DEF CopyByte, IInv, Byte
  <1>11. TypeOK'
    BY <1>6, <1>9 DEF CopyByte, known, env, IInv, TypeOK
  <1> QED
    BY <1>9, <1>10, <1>11 DEF IInv

(* An upload gives up its lock. *)
LEMMA LockReleased ==
    ASSUME TypeOK, UploadInv, NEW u \in Uploader, up[u].pc \notin {"idle", "lock"},
           Released(up[u].hay)
    PROVE  /\ lock' \in [Hay -> Uploader \cup {None}]
           /\ \A h \in Hay : u # lock[h] => lock'[h] = lock[h]
  BY DEF TypeOK, UploadInv, JobInv, Released

(* A write fails: what is written stays, unanswered. *)
LEMMA CopyFailsStep ==
    ASSUME IInv, NEW u \in Uploader, CopyFails(u)
    PROVE  IInv'
  <1>1. NoUpload \in UploadState /\ JobInv(NoUpload, u)'
    BY DEF NoUpload, UploadState, JobInv
  <1>2. PICK job \in UploadState : job = NoUpload
    BY <1>1
  <1>3. JobInv(job, u)'
    BY <1>1, <1>2 DEF JobInv
  <1>4. /\ lock' \in [Hay -> Uploader \cup {None}]
        /\ \A h \in Hay : u # lock[h] => lock'[h] = lock[h]
    BY LockReleased DEF CopyFails, IInv
  <1>5. UploadInv' /\ up' \in [Uploader -> UploadState]
    <2>1. up' = [up EXCEPT ![u] = job] /\ answered' = answered
      BY <1>2 DEF CopyFails
    <2>2. \A g \in Hay : Original(g)' = Original(g)
      BY DEF CopyFails, Original
    <2> QED
      BY <1>3, <1>4, <2>1, <2>2, UploadStep DEF IInv
  <1>6. faults' \in 0..MaxFaults
    BY DEF CopyFails, Fault, IInv, TypeOK
  <1>7. TypeOK' /\ StoredInv'
    BY <1>4, <1>5, <1>6, StoredStays DEF CopyFails, known, env, IInv, TypeOK
  <1> QED
    BY <1>5, <1>7 DEF IInv


(* The FileInfo of a finished upload names bytes that the original has and  *)
(* no earlier answer names.                                                 *)
LEMMA FinishStep ==
    ASSUME IInv, NEW u \in Uploader, Finish(u)
    PROVE  IInv'
  <1>1. up[u].pc = "copy" /\ up[u] \in UploadState /\ JobInv(up[u], u) /\ up[u].left = 0
    BY DEF Finish, IInv, TypeOK, UploadInv
  <1>2. PICK h \in Hay, f \in File, o \in Nat, all \in Nat :
           h = up[u].hay /\ f = up[u].file /\ o = up[u].off /\ all = Length[f]
    BY <1>1 DEF JobInv, UploadState
  <1>3. PICK n \in Node : n = Owner[h]
    OBVIOUS
  <1>4. PICK info \in Info : info = [file |-> f, hay |-> h, off |-> o, size |-> all + 1]
    <2>1. all + 1 \in Nat
      OBVIOUS
    <2> QED
      BY <2>1 DEF Info
  <1>5. /\ info.file = f /\ info.hay = h /\ info.off = o /\ info.size = all + 1
    BY <1>4
  <1>6. /\ answered' = answered \cup {info}
        /\ fileLog' = [fileLog EXCEPT ![n] = @ \cup {info}]
        /\ hay' = hay /\ index' = index /\ get' = get
    <2>1. /\ info = [file |-> up[u].file, hay |-> up[u].hay, off |-> up[u].off,
                     size |-> Length[up[u].file] + 1]
          /\ n = Owner[up[u].hay]
      BY <1>2, <1>3, <1>4
    <2>2. answered' = answered \cup {info}
      BY <2>1 DEF Finish
    <2>3. fileLog' = [fileLog EXCEPT ![n] = @ \cup {info}]
      BY <2>1 DEF Finish
    <2>4. hay' = hay /\ index' = index /\ get' = get
      BY DEF Finish
    <2> QED
      BY <2>2, <2>3, <2>4
  <1>7. PICK to \in SUBSET (Node \ {n}) :
            offered' = [m \in Node |-> IF m \in to THEN offered[m] \cup {info}
                                                   ELSE offered[m]]
    <2>1. /\ info = [file |-> up[u].file, hay |-> up[u].hay, off |-> up[u].off,
                     size |-> Length[up[u].file] + 1]
          /\ n = Owner[up[u].hay]
      BY <1>2, <1>3, <1>4
    <2> DEFINE new == [file |-> up[u].file, hay |-> up[u].hay, off |-> up[u].off,
                       size |-> Length[up[u].file] + 1]
    <2>2. \E to \in SUBSET (Node \ {Owner[up[u].hay]}) :
             offered' = [m \in Node |-> IF m \in to THEN offered[m] \cup {new}
                                                    ELSE offered[m]]
      BY DEF Finish
    <2>3. info = new
      BY <2>1
    <2> HIDE DEF new
    <2> QED
      BY <2>1, <2>2, <2>3, Zenon
  <1>8. /\ Original(h) \in Seq(Byte)
        /\ Len(Original(h)) = o + 1 + all
        /\ Original(h)[o + 1] = "1"
        /\ \A i \in (o + 2)..(o + 1 + all) : Original(h)[i] = f
        /\ Before(h, o)
    <2>1. Original(h) \in Seq(Byte)
      BY <1>1, <1>2, JobType DEF IInv
    <2>2. /\ Len(Original(h)) + up[u].left = o + 1 + all
          /\ Original(h)[o + 1] = "1"
          /\ \A i \in (o + 2)..Len(Original(h)) : Original(h)[i] = f
          /\ Before(h, o)
      BY <1>1, <1>2 DEF JobInv
    <2>3. Len(Original(h)) \in Nat
      BY <2>1
    <2>4. Len(Original(h)) = o + 1 + all
      BY <1>1, <2>2, <2>3
    <2> QED
      BY <2>1, <2>2, <2>4
  <1>9. Holds(Original(h), info)
    BY <1>5, <1>8 DEF Holds
  <1>10. AnsweredInv'
    <2>1. \A x \in answered : x.size = Length[x.file] + 1 /\ Holds(Original(x.hay), x)
      BY DEF IInv, StoredInv, AnsweredInv
    <2>2. \A x \in answered' : x.size = Length[x.file] + 1 /\ Holds(Original(x.hay), x)
      BY <1>2, <1>5, <1>6, <1>9, <2>1
    <2> QED
      BY <1>6, <2>2 DEF AnsweredInv, Original
  <1>11. Apart'
    <2>1. \A x \in answered : x.hay = h => x.off + x.size <= info.off
      BY <1>5, <1>8 DEF Before
    <2> QED
      BY <1>5, <1>6, <2>1 DEF IInv, StoredInv, Apart
  <1>12. CopyInv'
    <2>1. hay' = hay /\ answered \subseteq answered'
      BY <1>6
    <2>2. CopyInv
      BY DEF IInv, StoredInv
    <2> QED
      BY <2>1, <2>2 DEF CopyInv
  <1>13. FetchInv'
    <2>1. \A m \in Node : \A x \in offered'[m] : Owner[x.hay] # m
      <3>1. \A m \in Node : \A x \in offered[m] : Owner[x.hay] # m
        BY DEF IInv, StoredInv, FetchInv
      <3>2. \A m \in Node : \A x \in offered'[m] : x \in offered[m] \/ (x = info /\ m # n)
        BY <1>7
      <3> QED
        BY <1>3, <1>5, <3>1, <3>2
    <2>2. \A m \in Node, d \in Getter : Fetched(m, get[m][d])
      BY DEF IInv, StoredInv, FetchInv
    <2>3. get' = get /\ answered \subseteq answered'
      BY <1>6
    <2>4. \A m \in Node, d \in Getter : Fetched(m, get[m][d])'
      <3> SUFFICES ASSUME NEW m \in Node, NEW d \in Getter
                   PROVE  Fetched(m, get[m][d])'
        OBVIOUS
      <3>1. PICK g : g = get[m][d] /\ g = get'[m][d]
        BY <2>3
      <3>2. Fetched(m, g)
        BY <2>2, <3>1
      <3>3. Fetched(m, g)'
        BY <2>3, <3>2 DEF Fetched
      <3> QED
        BY <3>1, <3>3 DEF Fetched
    <2> QED
      BY <2>1, <2>4 DEF FetchInv
  <1>14. fileLog \in [Node -> SUBSET answered] /\ index \in [Node -> SUBSET answered]
         /\ offered \in [Node -> SUBSET answered]
    BY DEF IInv, TypeOK
  <1>15. LogInv'
    <2>1. Found(n, info)
      BY <1>3, <1>5, <1>9, HeldIsFound DEF Original
    <2>2. \A m \in Node : fileLog'[m] \subseteq fileLog[m] \cup (IF m = n THEN {info} ELSE {})
      BY <1>6, <1>14
    <2>3. \A m \in Node : \A x \in index'[m] \cup fileLog'[m] : Found(m, x)
      BY <1>6, <2>1, <2>2 DEF IInv, StoredInv, LogInv
    <2> QED
      BY <1>6, <2>3 DEF LogInv, Found
  <1>16. /\ lock' \in [Hay -> Uploader \cup {None}]
         /\ \A g \in Hay : u # lock[g] => lock'[g] = lock[g]
    BY <1>1, LockReleased DEF Finish, IInv
  <1>17. UploadInv' /\ up' \in [Uploader -> UploadState]
    <2>1. PICK job \in UploadState : job = NoUpload
      BY DEF NoUpload, UploadState
    <2>2. JobInv(job, u)'
      BY <2>1 DEF JobInv, NoUpload
    <2>3. up' = [up EXCEPT ![u] = job]
      BY <2>1 DEF Finish
    <2>4. \A g \in Hay : Original(g)' = Original(g)
      BY <1>6 DEF Original
    <2>5. \A x \in answered' : x \in answered \/ (x.hay = up[u].hay /\ up[u].pc \notin {"idle", "lock"})
      BY <1>1, <1>2, <1>5, <1>6
    <2> QED
      BY <1>16, <2>2, <2>3, <2>4, <2>5, UploadStep DEF IInv
  <1>18. TypeOK'
    <2>1. answered' \subseteq Info /\ answered \subseteq answered'
      BY <1>6 DEF IInv, TypeOK
    <2>2. fileLog' \in [Node -> SUBSET answered']
      BY <1>6, <1>14
    <2>3. index' \in [Node -> SUBSET answered']
      BY <1>6, <1>14
    <2>4. offered' \in [Node -> SUBSET answered']
      BY <1>6, <1>7, <1>14
    <2> QED
      BY <1>6, <1>16, <1>17, <2>1, <2>2, <2>3, <2>4 DEF Finish, env, IInv, TypeOK
  <1> QED
    BY <1>10, <1>11, <1>12, <1>13, <1>15, <1>17, <1>18 DEF IInv, StoredInv

-----------------------------------------------------------------------------
(* Uploads are as they were where haystacks, locks and answers are. *)
LEMMA UploadsStay ==
    ASSUME TypeOK, UploadInv, UNCHANGED <<hay, lock, up, answered>>
    PROVE  UploadInv'
  BY JobStays DEF UploadInv

(* A log entry is saved in ldb. *)
LEMMA ConsumeStep ==
    ASSUME IInv, NEW n \in Node, NEW info \in answered, Consume(n, info)
    PROVE  IInv'
  <1>1. /\ fileLog' \in [Node -> SUBSET answered] /\ index' \in [Node -> SUBSET answered]
        /\ \A m \in Node : index'[m] \cup fileLog'[m] \subseteq index[m] \cup fileLog[m]
    BY DEF Consume, IInv, TypeOK
  <1>2. LogInv'
    BY <1>1 DEF Consume, IInv, StoredInv, LogInv, Found
  <1>3. AnsweredInv' /\ Apart' /\ CopyInv' /\ FetchInv'
    BY DEF Consume, IInv, StoredInv, AnsweredInv, Apart, CopyInv, FetchInv, Fetched, Original
  <1>4. UploadInv'
    BY UploadsStay DEF Consume, IInv
  <1>5. TypeOK'
    BY <1>1 DEF Consume, env, IInv, TypeOK
  <1> QED
    BY <1>2, <1>3, <1>4, <1>5 DEF IInv, StoredInv

(* A reader that got nothing: the node is not the one of the upload. *)
LEMMA MissedStep ==
    ASSUME IInv, NEW n \in Node, NEW info \in answered, Missed(n, info)
    PROVE  IInv'
  <1>1. info \in Info /\ info.size >= 1 /\ info.hay \in Hay
    BY AnsweredType DEF IInv, StoredInv
  <1>2. Owner[info.hay] # n
    <2>1. ~ Found(n, info)
      BY DEF Missed
    <2>2. Holds(hay[Owner[info.hay]][info.hay], info)
      BY DEF IInv, StoredInv, AnsweredInv, Original
    <2> QED
      BY <1>1, <2>1, <2>2, HeldIsFound
  <1>3. offered \in [Node -> SUBSET answered]
    BY DEF IInv, TypeOK
  <1>4. offered' \in [Node -> SUBSET answered]
        /\ \A m \in Node : offered'[m] \subseteq offered[m] \cup (IF m = n THEN {info} ELSE {})
    BY <1>3 DEF Missed
  <1>5. FetchInv'
    BY <1>2, <1>4 DEF Missed, IInv, StoredInv, FetchInv, Fetched
  <1>6. AnsweredInv' /\ Apart' /\ CopyInv' /\ LogInv'
    BY DEF Missed, IInv, StoredInv, AnsweredInv, Apart, CopyInv, LogInv, Found, Original
  <1>7. UploadInv'
    BY UploadsStay DEF Missed, IInv
  <1>8. TypeOK'
    BY <1>4 DEF Missed, env, IInv, TypeOK
  <1> QED
    BY <1>5, <1>6, <1>7, <1>8 DEF IInv, StoredInv


(* What a peer gives for the name is the content, or of another length. *)
LEMMA AskStep ==
    ASSUME IInv, NEW n \in Node, NEW d \in Getter, NEW info \in answered,
           NEW src \in Node, Ask(n, d, info, src)
    PROVE  IInv'
  <1>1. info \in Info /\ Owner[info.hay] # n
    BY DEF Ask, IInv, TypeOK, StoredInv, FetchInv
  <1>2. \A data : /\ Found(src, info) /\ data = Read(src, info)
                  => data \in Seq(Byte) /\ \A i \in 1..Len(data) : data[i] = info.file
    <2> SUFFICES ASSUME Found(src, info)
                 PROVE  LET data == Read(src, info) IN
                        data \in Seq(Byte) /\ \A i \in 1..Len(data) : data[i] = info.file
      OBVIOUS
    <2>1. Read(src, info) = Content(info.file)
      BY <1>1, FoundIsHeld, HeldIsContent DEF IInv, StoredInv, AnsweredInv
    <2>2. PICK len \in Nat, f \in Byte : len = Length[info.file] /\ f = info.file
      BY <1>1 DEF Info, Byte
    <2>3. [i \in 1..len |-> f] \in Seq(Byte) /\ Len([i \in 1..len |-> f]) = len
      BY <2>2
    <2> QED
      BY <2>1, <2>2, <2>3 DEF Content
  <1>3. PICK g \in GetState : /\ Fetched(n, g)
                              /\ get' = get \/ get' = [get EXCEPT ![n][d] = g]
    <2>1. CASE get' = get
      <3>1. NoGet \in GetState /\ Fetched(n, NoGet)
        BY DEF NoGet, GetState, Fetched
      <3> QED
        BY <2>1, <3>1
    <2>2. ASSUME NEW data \in Seq(Byte), \A i \in 1..Len(data) : data[i] = info.file
          PROVE  /\ [info |-> info, data |-> data] \in GetState
                 /\ Fetched(n, [info |-> info, data |-> data])
      BY <1>1, <2>2 DEF GetState, Fetched
    <2>3. CASE /\ Found(src, info)
               /\ get' = [get EXCEPT ![n][d] = [info |-> info, data |-> Read(src, info)]]
      BY <1>2, <2>2, <2>3
    <2>4. CASE get' = [get EXCEPT ![n][d] = [info |-> info, data |-> <<>>]]
      <3>1. << >> \in Seq(Byte) /\ \A i \in 1..Len(<< >>) : << >>[i] = info.file
        OBVIOUS
      <3> QED
        BY <2>2, <2>4, <3>1
    <2> QED
      BY <2>1, <2>3, <2>4 DEF Ask
  <1>4. get \in [Node -> [Getter -> GetState]] /\ offered \in [Node -> SUBSET answered]
    BY DEF IInv, TypeOK
  <1>5. get' \in [Node -> [Getter -> GetState]]
        /\ \A m \in Node, e \in Getter :
              get'[m][e] = get[m][e] \/ (m = n /\ get'[m][e] = g)
    BY <1>3, <1>4
  <1>6. offered' \in [Node -> SUBSET answered] /\ \A m \in Node : offered'[m] \subseteq offered[m]
    BY <1>4 DEF Ask
  <1>7. FetchInv'
    BY <1>3, <1>5, <1>6, FetchStays DEF Ask, IInv, StoredInv
  <1>8. AnsweredInv' /\ Apart' /\ CopyInv' /\ LogInv'
    BY DEF Ask, IInv, StoredInv, AnsweredInv, Apart, CopyInv, LogInv, Found, Original
  <1>9. UploadInv'
    BY UploadsStay DEF Ask, IInv
  <1>10. faults' \in 0..MaxFaults
    BY DEF Ask, Fault, IInv, TypeOK
  <1>11. TypeOK'
    BY <1>5, <1>6, <1>10 DEF Ask, IInv, TypeOK
  <1> QED
    BY <1>7, <1>8, <1>9, <1>11 DEF IInv, StoredInv

(* The processes of a node stop: its uploads in progress are gone. *)
LEMMA CrashStep ==
    ASSUME IInv, NEW n \in Node, Crash(n)
    PROVE  IInv'
  <1>1. NoUpload \in UploadState /\ NoUpload.pc = "idle"
        /\ NoGet \in GetState /\ NoGet.info = None
    BY DEF NoUpload, UploadState, NoGet, GetState
  <1>2. up' \in [Uploader -> UploadState]
    BY <1>1 DEF Crash, IInv, TypeOK
  <1>3. get' \in [Node -> [Getter -> GetState]]
        /\ \A m \in Node, e \in Getter : get'[m][e] = get[m][e] \/ get'[m][e].info = None
    <2>1. get \in [Node -> [Getter -> GetState]]
      BY DEF IInv, TypeOK
    <2>2. get' = [get EXCEPT ![n] = [e \in Getter |-> NoGet]]
      BY DEF Crash
    <2> QED
      BY <1>1, <2>1, <2>2
  <1>4. lock' \in [Hay -> Uploader \cup {None}]
        /\ \A h \in Hay : Owner[h] # n => lock'[h] = lock[h]
    BY DEF Crash, IInv, TypeOK
  <1>5. fileLog' \in [Node -> SUBSET answered] /\ \A m \in Node : fileLog'[m] \subseteq fileLog[m]
    BY DEF Crash, IInv, TypeOK
  <1>6. UploadInv'
    <2> SUFFICES ASSUME NEW v \in Uploader PROVE JobInv(up[v], v)'
      BY DEF UploadInv
    <2>1. CASE up[v].pc # "idle" /\ Owner[up[v].hay] = n
      <3>1. up'[v] = NoUpload
        BY <2>1 DEF Crash
      <3> QED
        BY <1>1, <3>1 DEF JobInv
    <2>2. CASE ~ (up[v].pc # "idle" /\ Owner[up[v].hay] = n)
      <3>1. up'[v] = up[v] /\ hay' = hay /\ answered' = answered
        BY <2>2 DEF Crash
      <3>2. up[v].pc \notin {"idle", "lock"} => lock'[up[v].hay] = lock[up[v].hay]
        BY <1>4, <2>2 DEF IInv, UploadInv, JobInv
      <3> QED
        BY <3>1, <3>2, JobStays DEF IInv
    <2> QED
      BY <2>1, <2>2
  <1>7. FetchInv'
    <2>1. \A m \in Node, e \in Getter : get'[m][e] = get[m][e] \/ Fetched(m, get'[m][e])
      BY <1>3 DEF Fetched
    <2> QED
      BY <2>1, FetchStays DEF Crash, IInv, StoredInv
  <1>8. LogInv'
    BY <1>5 DEF Crash, IInv, StoredInv, LogInv, Found
  <1>9. AnsweredInv' /\ Apart' /\ CopyInv'
    BY DEF Crash, IInv, StoredInv, AnsweredInv, Apart, CopyInv, Original
  <1>10. crashes' \in 0..MaxCrashes
    BY DEF Crash, IInv, TypeOK
  <1>11. TypeOK'
    BY <1>2, <1>3, <1>4, <1>5, <1>10 DEF Crash, IInv, TypeOK
  <1> QED
    BY <1>6, <1>7, <1>8, <1>9, <1>11 DEF IInv, StoredInv


(* The fetched data, "1" before it, is what the FileInfo names. *)
LEMMA FetchedIsFlagged ==
    ASSUME IInv, NEW n \in Node, NEW d \in Getter, get[n][d].info # None,
           RightLength(Flagged(get[n][d].data), get[n][d].info)
    PROVE  LET info == get[n][d].info
               data == Flagged(get[n][d].data) IN
           /\ data \in Seq(Byte) /\ Len(data) = info.size
           /\ data[1] = "1"
           /\ \A i \in 2..Len(data) : data[i] = info.file
  <1>1. PICK got \in Seq(Byte) : got = get[n][d].data
    BY DEF IInv, TypeOK, GetState
  <1>2. Fetched(n, get[n][d])
    BY DEF IInv, StoredInv, FetchInv
  <1>3. "1" \in Byte
    BY DEF Byte
  <1>4. /\ Flagged(got) \in Seq(Byte) /\ Len(Flagged(got)) = Len(got) + 1
        /\ Flagged(got)[1] = "1"
        /\ \A i \in 2..Len(Flagged(got)) : i - 1 \in 1..Len(got) /\ Flagged(got)[i] = got[i - 1]
    BY <1>3 DEF Flagged
  <1>5. Len(got) + 1 = get[n][d].info.size
    BY <1>1, <1>4 DEF RightLength
  <1>6. \A i \in 1..Len(got) : got[i] = get[n][d].info.file
    BY <1>1, <1>2, <1>5 DEF Fetched
  <1> QED
    BY <1>1, <1>4, <1>5, <1>6

(* Written at its offset, the small file is there, and what else was there  *)
(* is untouched.                                                            *)
LEMMA StoredAtOffset ==
    ASSUME TypeOK, AnsweredInv, Apart, NEW info \in answered,
           NEW s \in Seq(Byte), NEW data \in Seq(Byte), Len(data) = info.size,
           data[1] = "1", \A i \in 2..Len(data) : data[i] = info.file
    PROVE  LET t == WrittenAt(s, info.off, data) IN
           /\ t \in Seq(Byte) /\ Holds(t, info)
           /\ \A x \in answered : x.hay = info.hay /\ Holds(s, x) => Holds(t, x)
           /\ \A i \in 1..Len(t) : t[i] = "1" =>
                 \/ i = info.off + 1
                 \/ /\ i \in 1..Len(s) /\ s[i] = "1"
                    /\ i \notin (info.off + 1)..(info.off + info.size)
  <1>1. PICK off \in Nat, size \in Nat : off = info.off /\ size = info.size
    BY DEF TypeOK, Info
  <1>2. info \in Info /\ info.file \in File /\ size >= 1
    BY <1>1, AnsweredType
  <1>3. PICK t : t = WrittenAt(s, off, data)
    OBVIOUS
  <1>4. /\ t \in Seq(Byte)
        /\ Len(t) >= Len(s) /\ Len(t) >= off + size
        /\ \A i \in (off + 1)..(off + size) : t[i] = data[i - off]
        /\ \A i \in 1..Len(t) : i \notin (off + 1)..(off + size) =>
              t[i] = IF i <= Len(s) THEN s[i] ELSE "0"
    <2>1. Len(data) = size
      BY <1>1
    <2>2. off \in Nat /\ t = WrittenAt(s, off, data)
      BY <1>3
    <2>3. /\ t \in Seq(Byte)
          /\ Len(t) >= Len(s) /\ Len(t) >= off + Len(data)
          /\ \A i \in (off + 1)..(off + Len(data)) : t[i] = data[i - off]
          /\ \A i \in 1..Len(t) : i \notin (off + 1)..(off + Len(data)) =>
                t[i] = IF i <= Len(s) THEN s[i] ELSE "0"
      BY SMTT(30), <2>2, WrittenAtOffset
    <2> QED
      BY <2>1, <2>3
  <1>5. t[off + 1] = "1" /\ \A i \in (off + 2)..(off + size) : t[i] = info.file
    <2>1. off + 1 \in (off + 1)..(off + size) /\ (off + 1) - off = 1
      BY <1>2
    <2>2. t[off + 1] = "1"
      BY <1>4, <2>1
    <2>3. ASSUME NEW i \in (off + 2)..(off + size) PROVE t[i] = info.file
      <3>1. i \in (off + 1)..(off + size) /\ i - off \in 2..size
        BY <2>3
      <3> QED
        BY <1>1, <1>4, <3>1
    <2> QED
      BY <2>2, <2>3
  <1>6. Holds(t, info)
    BY <1>1, <1>4, <1>5 DEF Holds
  <1>7. ASSUME NEW x \in answered, x.hay = info.hay, Holds(s, x)
        PROVE  Holds(t, x)
    <2>1. CASE x = info
      BY <1>6, <2>1
    <2>2. CASE x # info
      <3>1. PICK xo \in Nat, xs \in Nat : xo = x.off /\ xs = x.size
        BY DEF TypeOK, Info
      <3>2. x \in Info /\ xs >= 1
        BY <3>1, AnsweredType
      <3>3. xo + xs <= off \/ off + size <= xo
        BY <1>1, <1>7, <2>2, <3>1 DEF Apart
      <3>4. xo + xs <= Len(s)
        BY <1>7, <3>1 DEF Holds
      <3>5. Len(s) \in Nat /\ Len(t) \in Nat
        BY <1>4
      <3>6. ASSUME NEW i \in (xo + 1)..(xo + xs) PROVE t[i] = s[i]
        <4>1. i \in 1..Len(t) /\ i <= Len(s) /\ i \notin (off + 1)..(off + size)
          BY <1>4, <3>3, <3>4, <3>5
        <4> QED
          BY <1>4, <4>1
      <3> QED
        BY <1>4, <1>7, <3>1, <3>2, <3>6, HoldsOn
    <2> QED
      BY <2>1, <2>2
  <1>8. ASSUME NEW i \in 1..Len(t), t[i] = "1", i # off + 1
        PROVE  i \in 1..Len(s) /\ s[i] = "1" /\ i \notin (off + 1)..(off + size)
    <2>1. i \notin (off + 1)..(off + size)
      <3> SUFFICES ASSUME i \in (off + 1)..(off + size) PROVE FALSE
        OBVIOUS
      <3>1. i \in (off + 2)..(off + size)
        BY <1>8
      <3> QED
        BY <1>2, <1>5, <1>8, <3>1
    <2>2. t[i] = IF i <= Len(s) THEN s[i] ELSE "0"
      BY <1>4, <2>1
    <2> QED
      BY <1>8, <2>1, <2>2
  <1> QED
    BY <1>1, <1>3, <1>4, <1>6, <1>7, <1>8

(* A node that is not the owner writes what it fetched, or drops it. *)
LEMMA StoreStep ==
    ASSUME IInv, NEW n \in Node, NEW d \in Getter, Store(n, d)
    PROVE  IInv'
  <1>1. PICK info \in answered : info = get[n][d].info
    BY DEF Store, IInv, StoredInv, FetchInv, Fetched
  <1>2. PICK h \in Hay : h = info.hay
    BY DEF IInv, TypeOK, Info
  <1>3. get[n][d].info # None /\ n # Owner[h] /\ info \in Info /\ info.size >= 1
    BY <1>1, <1>2 DEF Store, IInv, StoredInv, FetchInv, Fetched, TypeOK, AnsweredInv, Info
  <1>4. get' = [get EXCEPT ![n][d] = NoGet] /\ answered' = answered
        /\ UNCHANGED <<lock, up, index, offered>>
    BY DEF Store
  <1>5. FetchInv' /\ get' \in [Node -> [Getter -> GetState]]
    <2>1. NoGet \in GetState /\ NoGet.info = None
      BY DEF NoGet, GetState
    <2>2. get \in [Node -> [Getter -> GetState]]
      BY DEF IInv, TypeOK
    <2>3. get' \in [Node -> [Getter -> GetState]]
          /\ \A m \in Node, e \in Getter : get'[m][e] = get[m][e] \/ get'[m][e].info = None
      BY <1>4, <2>1, <2>2
    <2>4. \A m \in Node, e \in Getter : get'[m][e] = get[m][e] \/ Fetched(m, get'[m][e])
      BY <2>3 DEF Fetched
    <2> QED
      BY <1>4, <2>3, <2>4, FetchStays DEF IInv, StoredInv
  <1>6. CASE UNCHANGED <<hay, fileLog>>
    <2>1. AnsweredInv' /\ Apart' /\ CopyInv' /\ LogInv'
      BY <1>4, <1>6 DEF IInv, StoredInv, AnsweredInv, Apart, CopyInv, LogInv, Found, Original
    <2>2. UploadInv'
      BY <1>4, <1>6, UploadsStay DEF IInv
    <2>3. TypeOK'
      BY <1>4, <1>5, <1>6 DEF Store, env, IInv, TypeOK
    <2> QED
      BY <1>5, <2>1, <2>2, <2>3 DEF IInv, StoredInv
  <1>7. CASE /\ RightLength(Flagged(get[n][d].data), info)
             /\ hay' = [hay EXCEPT ![n][h] =
                           WrittenAt(@, info.off, Flagged(get[n][d].data))]
             /\ fileLog' = [fileLog EXCEPT ![n] = @ \cup {info}]
    <2>1. PICK data \in Seq(Byte) :
             /\ data = Flagged(get[n][d].data)
             /\ Len(data) = info.size /\ data[1] = "1"
             /\ \A i \in 2..Len(data) : data[i] = info.file
      BY <1>1, <1>3, <1>7, FetchedIsFlagged
    <2>2. PICK s \in Seq(Byte) : s = hay[n][h]
      BY DEF IInv, TypeOK
    <2>3. PICK t \in Seq(Byte) :
             /\ t = WrittenAt(s, info.off, data) /\ Holds(t, info)
             /\ \A x \in answered : x.hay = h /\ Holds(s, x) => Holds(t, x)
             /\ \A i \in 1..Len(t) : t[i] = "1" =>
                   \/ i = info.off + 1
                   \/ /\ i \in 1..Len(s) /\ s[i] = "1"
                      /\ i \notin (info.off + 1)..(info.off + info.size)
      <3>1. TypeOK /\ AnsweredInv /\ Apart
        BY DEF IInv, StoredInv
      <3> QED
        BY SMTT(30), <1>2, <2>1, <3>1, StoredAtOffset
    <2>4. hay \in [Node -> [Hay -> Seq(Byte)]]
      BY DEF IInv, TypeOK
    <2>5. /\ hay' \in [Node -> [Hay -> Seq(Byte)]]
          /\ hay'[n][h] = t
          /\ \A m \in Node, g \in Hay : m # n \/ g # h => hay'[m][g] = hay[m][g]
      <3>1. hay' = [hay EXCEPT ![n] = [hay[n] EXCEPT ![h] = t]]
        BY <1>7, <2>1, <2>2, <2>3
      <3> QED
        BY <2>4, <3>1, OneHaystack
    <2>6. \A g \in Hay : Original(g)' = Original(g)
      BY <1>3, <2>5 DEF Original
    <2>7. \A x \in answered : x \in Info /\ x.hay \in Hay /\ x.size >= 1
      BY AnsweredType DEF IInv, StoredInv
    <2>8. AnsweredInv' /\ Apart'
      BY <1>4, <2>6, <2>7 DEF IInv, StoredInv, AnsweredInv, Apart
    <2>9. CopyInv'
      <3> SUFFICES ASSUME NEW m \in Node, NEW g \in Hay, m # Owner[g],
                          NEW i \in 1..Len(hay'[m][g]), hay'[m][g][i] = "1"
                   PROVE  \E x \in answered :
                             x.hay = g /\ x.off + 1 = i /\ Holds(hay'[m][g], x)
        BY <1>4 DEF CopyInv
      <3>1. CASE m # n \/ g # h
        <4>1. hay'[m][g] = hay[m][g]
          BY <2>5, <3>1
        <4> QED
          BY <4>1 DEF IInv, StoredInv, CopyInv
      <3>2. CASE m = n /\ g = h
        <4>1. i \in 1..Len(t) /\ t[i] = "1"
          BY <2>5, <3>2
        <4>2. CASE i = info.off + 1
          BY <1>2, <2>3, <2>5, <3>2, <4>2
        <4>3. CASE i \in 1..Len(s) /\ s[i] = "1"
          <5>1. PICK x \in answered : x.hay = h /\ x.off + 1 = i /\ Holds(s, x)
            BY <1>3, <2>2, <4>3 DEF IInv, StoredInv, CopyInv
          <5> QED
            BY <2>3, <2>5, <3>2, <5>1
        <4> QED
          BY <2>3, <4>1, <4>2, <4>3
      <3> QED
        BY <3>1, <3>2
    <2>10. fileLog \in [Node -> SUBSET answered]
      BY DEF IInv, TypeOK
    <2>11. fileLog' \in [Node -> SUBSET answered]
           /\ \A m \in Node : fileLog'[m] \subseteq fileLog[m] \cup (IF m = n THEN {info} ELSE {})
      BY <1>7, <2>10
    <2>12. LogInv'
      <3> SUFFICES ASSUME NEW m \in Node, NEW x \in index'[m] \cup fileLog'[m]
                   PROVE  Found(m, x)'
        BY DEF LogInv
      <3>1. x \in answered /\ (x \in index[m] \cup fileLog[m] \/ (m = n /\ x = info))
        BY <1>4, <2>11 DEF IInv, TypeOK
      <3>2. CASE m # n \/ x.hay # h
        <4>1. Found(m, x) /\ hay'[m][x.hay] = hay[m][x.hay]
          BY <1>2, <2>5, <2>7, <3>1, <3>2 DEF IInv, StoredInv, LogInv
        <4> QED
          BY <4>1 DEF Found
      <3>3. CASE m = n /\ x.hay = h
        <4>1. Holds(t, x)
          <5>1. CASE x = info
            BY <2>3, <5>1
          <5>2. CASE x # info
            <6>1. Found(m, x)
              BY <3>1, <5>2 DEF IInv, StoredInv, LogInv
            <6>2. Holds(s, x)
              BY <2>2, <3>1, <3>3, <6>1, FoundIsHeld DEF IInv, StoredInv
            <6> QED
              BY <2>3, <3>1, <3>3, <6>2
          <5> QED
            BY <5>1, <5>2
        <4>2. Holds(hay'[m][x.hay], x)
          BY <2>5, <3>3, <4>1
        <4> QED
          BY <2>7, <3>1, <4>2 DEF Holds, Found, LongEnough, Info
      <3> QED
        BY <3>2, <3>3
    <2>13. UploadInv'
      <3> SUFFICES ASSUME NEW v \in Uploader PROVE JobInv(up[v], v)'
        BY DEF UploadInv
      <3>1. up[v].pc \notin {"idle", "lock"} =>
               hay'[Owner[up[v].hay]][up[v].hay] = hay[Owner[up[v].hay]][up[v].hay]
        <4>1. up[v].pc # "idle" => up[v].hay \in Hay /\ Owner[up[v].hay] \in Node
          BY JobType DEF IInv
        <4>2. ASSUME up[v].pc # "idle"
              PROVE  hay'[Owner[up[v].hay]][up[v].hay] = hay[Owner[up[v].hay]][up[v].hay]
          <5>1. PICK g \in Hay, m \in Node : g = up[v].hay /\ m = Owner[g]
            BY <4>1, <4>2
          <5>2. m # n \/ g # h
            BY <1>3, <5>1
          <5> QED
            BY <2>5, <5>1, <5>2
        <4> QED
          BY <4>2
      <3> QED
        BY <1>4, <3>1, JobStays DEF IInv
    <2>14. TypeOK'
      BY <1>4, <1>5, <2>5, <2>11 DEF Store, env, IInv, TypeOK
    <2> QED
      BY <1>5, <2>8, <2>9, <2>12, <2>13, <2>14 DEF IInv, StoredInv
  <1> QED
    BY <1>1, <1>2, <1>6, <1>7 DEF Store


-----------------------------------------------------------------------------
(* Every step keeps the inductive invariant. *)
LEMMA NextIInv == IInv /\ [Next]_vars => IInv'
  <1> SUFFICES ASSUME IInv, [Next]_vars PROVE IInv'
    OBVIOUS
  <1>1. ASSUME NEW u \in Uploader, NEW f \in File, NEW h \in Hay, Start(u, f, h)
        PROVE  IInv'
    BY <1>1, StartStep
  <1>2. ASSUME NEW u \in Uploader,
               LockKey(u) \/ WriteFlag(u) \/ SeekEnd(u) \/ CopyByte(u)
               \/ CopyFails(u) \/ Finish(u)
        PROVE  IInv'
    BY <1>2, LockKeyStep, WriteFlagStep, SeekEndStep, CopyByteStep, CopyFailsStep,
       FinishStep
  <1>3. ASSUME NEW n \in Node, NEW info \in answered,
               Consume(n, info) \/ Missed(n, info)
        PROVE  IInv'
    BY <1>3, ConsumeStep, MissedStep
  <1>4. ASSUME NEW n \in Node, NEW d \in Getter, Store(n, d)
        PROVE  IInv'
    BY <1>4, StoreStep
  <1>5. ASSUME NEW n \in Node, NEW d \in Getter, NEW info \in answered,
               NEW src \in Node, Ask(n, d, info, src)
        PROVE  IInv'
    BY <1>5, AskStep
  <1>6. ASSUME NEW n \in Node, Crash(n)
        PROVE  IInv'
    BY <1>6, CrashStep
  <1>7. CASE UNCHANGED vars
    <2>1. UploadInv' /\ StoredInv'
      BY <1>7, UploadsStay, StoredStays DEF IInv, vars, known
    <2>2. TypeOK'
      BY <1>7 DEF IInv, TypeOK, vars, known, env
    <2> QED
      BY <2>1, <2>2 DEF IInv
  <1> QED
    BY <1>1, <1>2, <1>3, <1>4, <1>5, <1>6, <1>7 DEF Next

(* What the inductive invariant means to a reader and to ldb. *)
LEMMA IInvImplies == IInv => ReadIsContent /\ KnownIsFound /\ AnsweredIsFound
  <1> SUFFICES ASSUME IInv PROVE ReadIsContent /\ KnownIsFound /\ AnsweredIsFound
    OBVIOUS
  <1>1. \A info \in answered :
           info \in Info /\ info.size = Length[info.file] + 1 /\ info.size >= 1
    BY DEF IInv, StoredInv, AnsweredInv, TypeOK, Info
  <1>2. ReadIsContent
    BY <1>1, FoundIsHeld, HeldIsContent DEF IInv, StoredInv, ReadIsContent
  <1>3. KnownIsFound
    BY DEF IInv, StoredInv, LogInv, KnownIsFound
  <1>4. AnsweredIsFound
    <2> SUFFICES ASSUME NEW info \in answered PROVE Found(Owner[info.hay], info)
      BY DEF AnsweredIsFound
    <2>1. Holds(hay[Owner[info.hay]][info.hay], info) /\ Owner[info.hay] \in Node
      BY <1>1 DEF IInv, StoredInv, AnsweredInv, Original, Info
    <2> QED
      BY <1>1, <2>1, HeldIsFound
  <1> QED
    BY <1>2, <1>3, <1>4

(* The inductive invariant holds throughout. *)
LEMMA IInvCorrect == Spec => []IInv
  BY InitIInv, NextIInv, PTL DEF Spec

(* TypeOK is an invariant: offsets and counts left stay natural numbers     *)
(* and every log, index and offer names what a client was answered with.    *)
THEOREM TypeCorrect == Spec => []TypeOK
  <1>1. IInv => TypeOK
    BY DEF IInv
  <1> QED
    BY <1>1, IInvCorrect, PTL

(* Whatever uploads, copies, failures and crashes came before, a reader of  *)
(* an answered name is given its content or nothing, by any node.           *)
THEOREM ReadIsContentCorrect == Spec => []ReadIsContent
  BY IInvCorrect, IInvImplies, PTL

(* A node's ldb never names a small file that the node could not give.      *)
THEOREM KnownIsFoundCorrect == Spec => []KnownIsFound
  BY IInvCorrect, IInvImplies, PTL

(* The node of the upload can always give what it answered.                 *)
THEOREM AnsweredIsFoundCorrect == Spec => []AnsweredIsFound
  BY IInvCorrect, IInvImplies, PTL
=============================================================================
