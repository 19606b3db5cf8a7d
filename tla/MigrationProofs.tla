-------------------------- MODULE MigrationProofs --------------------------
(* Theorems about Migration: the types, and that a migration from the node *)
(* with the newest version leaves no peer without it.                       *)
EXTENDS Migration, TLAPS

USE PeersAssumption, OriginAssumption, CopiesAssumption, RetryAssumption, BoundAssumption

-----------------------------------------------------------------------------
(* The newest version, and the FileInfos that are made of it.               *)
LEMMA NewestType ==
    /\ Newest \in Version /\ Newest \in 1..MaxClock /\ Newest + 1 \in 1..MaxClock
    /\ \A v \in Version : v \in Nat \ {0} /\ v <= Newest
<1>1. Newest \in Version /\ \A w \in Version : w <= Newest
    BY ClockAssumption DEF Newest
<1>2. \A v \in Version : v \in Nat \ {0}
    BY DEF Version
<1>3. Newest < MaxClock
    <2>1. PICK v \in Version : v < MaxClock /\ \A w \in Version : w <= v
        BY ClockAssumption
    <2>2. v \in Nat /\ Newest \in Nat /\ Newest <= v /\ MaxClock \in Nat
        BY <1>1, <1>2, <2>1
    <2> QED
        BY <2>1, <2>2
<1> QED
    BY <1>1, <1>2, <1>3

Job == [pc : {"off", "post", "look", "remove", "lock", "get"},
        info : Info, todo : SUBSET Node]

LEMMA JobType ==
    /\ Off \in Job
    /\ \A n \in Node, info \in Info : Posting(n, info) \in Job
<1>1. [version |-> Newest, time |-> Newest, listed |-> {Origin}, retry |-> 0] \in Info
    BY NewestType DEF Info
<1> QED
    BY <1>1 DEF Off, Posting, Job

LEMMA WorkType ==
    ASSUME TypeOK, NEW n \in Node, NEW t \in Thread
    PROVE  /\ work[n][t] \in Job
           /\ work[n][t].info \in Info /\ work[n][t].todo \in SUBSET Node
<1>1. work[n][t] \in Job
    BY DEF TypeOK, Job
<1> QED
    BY <1>1 DEF Job

(* The steps of a goroutine, and of a node.                                 *)
ThreadStep(n, t) ==
    \/ PostTake(n, t) \/ PostEnd(n, t)
    \/ \E p \in Node : \/ PostSkip(n, t, p) \/ PostDone(n, t, p)
                       \/ PostFails(n, t, p) \/ PostRefused(n, t, p)
    \/ GetTake(n, t) \/ GetLook(n, t) \/ GetRemove(n, t)
    \/ GetLock(n, t) \/ GetAnswered(n, t) \/ GetFails(n, t)

LEMMA NextSteps ==
    ASSUME Next
    PROVE  \/ Migrate
           \/ \E n \in Node : Crash(n) \/ Restart(n) \/ \E t \in Thread : ThreadStep(n, t)
    BY DEF Next, ThreadStep

(* One goroutine's work is replaced, the others' stays.                     *)
LEMMA Update ==
    ASSUME NEW A, NEW B, NEW S, NEW g \in [A -> [B -> S]],
           NEW x \in A, NEW y \in B, NEW v \in S
    PROVE  [g EXCEPT ![x][y] = v] \in [A -> [B -> S]]
    OBVIOUS

LEMMA HeadTail ==
    ASSUME NEW S, NEW s \in Seq(S), s # <<>>
    PROVE  Head(s) \in S /\ Tail(s) \in Seq(S)
    OBVIOUS

(* What is appended to one node's channel.                                  *)
LEMMA ChannelAppend ==
    ASSUME NEW S, NEW c \in [Node -> Seq(S)], NEW n \in Node, NEW x \in S
    PROVE  [c EXCEPT ![n] = Append(@, x)] \in [Node -> Seq(S)]
<1>1. Append(c[n], x) \in Seq(S)
    OBVIOUS
<1> QED
    BY <1>1

LEMMA ChannelTail ==
    ASSUME NEW S, NEW c \in [Node -> Seq(S)], NEW n \in Node, c[n] # <<>>
    PROVE  [c EXCEPT ![n] = Tail(@)] \in [Node -> Seq(S)]
<1>1. Tail(c[n]) \in Seq(S)
    BY HeadTail
<1> QED
    BY <1>1

-----------------------------------------------------------------------------
(* A file has a version and a time, or it is not there.                     *)
Stamped == \A n \in Node : file[n].version = 0 <=> file[n].time = 0

LEMMA HasVersion ==
    ASSUME TypeOK, Stamped, NEW n \in Node, Has(n)
    PROVE  file[n].version \in Version /\ file[n].time \in 1..MaxClock
<1>1. file[n] \in [version : Version \cup {0}, time : 0..MaxClock]
    BY DEF TypeOK
<1>2. file[n].version = 0 => file[n] = [version |-> 0, time |-> 0]
    BY <1>1 DEF Stamped
<1> QED
    BY <1>1, <1>2 DEF Stamped, Has, NoFile

LEMMA BoundType == MaxMigrations \in Nat /\ MaxFailures \in Nat /\ MaxClock \in Nat
    OBVIOUS

LEMMA InitTypeOK == Init => TypeOK /\ Stamped
<1> SUFFICES ASSUME Init PROVE TypeOK /\ Stamped
    OBVIOUS
<1>1. \A n \in Node : Copies[n] \in Version \cup {0} /\ Copies[n] \in 0..MaxClock
    BY NewestType DEF Version
<1>2. work \in [Node -> [Thread -> Job]]
    BY JobType DEF Init
<1>3. clock \in 1..MaxClock
    BY NewestType DEF Init
<1>4. toPeers \in [Node -> Seq(Info)] /\ fromPeers \in [Node -> Seq(Info)]
    BY DEF Init
<1>5. file \in [Node -> [version : Version \cup {0}, time : 0..MaxClock]] /\ Stamped
    BY <1>1 DEF Init, Stamped
<1>6. failures \in 0..MaxFailures /\ migrations \in 0..MaxMigrations
    BY BoundType DEF Init
<1> QED
    BY <1>2, <1>3, <1>4, <1>5, <1>6 DEF Init, TypeOK, Job

LEMMA FailureType ==
    ASSUME TypeOK
    PROVE  /\ Failure => failures' \in 0..MaxFailures /\ clean' \in BOOLEAN
           /\ \A p \in Node : Fails(p) => failures' \in 0..MaxFailures /\ clean' \in BOOLEAN
<1>1. failures \in 0..MaxFailures /\ clean \in BOOLEAN
    BY DEF TypeOK
<1>2. Failure => failures' \in 0..MaxFailures
    BY <1>1, BoundType DEF Failure
<1>3. Failure => clean' \in BOOLEAN
    BY DEF Failure
<1> QED
    BY <1>1, <1>2, <1>3 DEF Fails

(* The parts of the type invariant, by what an action changes.              *)
LEMMA InfoChange ==
    ASSUME NEW info \in Info, NEW p \in Node
    PROVE  /\ [info EXCEPT !.listed = @ \cup {p}] \in Info
           /\ info.retry <= RetryCount => [info EXCEPT !.retry = @ + 1] \in Info
           /\ info.retry \in Nat /\ info.time \in 1..MaxClock
<1>1. info.retry \in 0..(RetryCount + 1)
    BY DEF Info
<1>2. info.retry <= RetryCount => info.retry + 1 \in 0..(RetryCount + 1)
    BY <1>1
<1> QED
    BY <1>1, <1>2 DEF Info

LEMMA ThreadType ==
    ASSUME TypeOK, Stamped, NEW n \in Node, NEW t \in Thread, ThreadStep(n, t)
    PROVE  TypeOK' /\ Stamped'
<1>1. /\ work[n][t] \in Job /\ work[n][t].info \in Info
      /\ work[n][t].todo \in SUBSET Node
    BY WorkType
<1>2. /\ work \in [Node -> [Thread -> Job]]
      /\ toPeers \in [Node -> Seq(Info)] /\ fromPeers \in [Node -> Seq(Info)]
    BY DEF TypeOK, Job
<1>3. ASSUME work' \in [Node -> [Thread -> Job]],
             toPeers' \in [Node -> Seq(Info)], fromPeers' \in [Node -> Seq(Info)],
             failures' \in 0..MaxFailures, clean' \in BOOLEAN,
             UNCHANGED <<alive, file, clock, migrations>>
      PROVE  TypeOK' /\ Stamped'
    BY <1>3 DEF TypeOK, Stamped, Job
<1>4. ASSUME NEW job \in Job, Step(n, t, job)
      PROVE  work' \in [Node -> [Thread -> Job]]
    BY <1>2, <1>4, Update DEF Step
<1>5. ASSUME NEW pc \in {"remove", "lock", "get"}, GoOn(n, t, pc)
      PROVE  work' \in [Node -> [Thread -> Job]]
    <2>1. [work[n][t] EXCEPT !.pc = pc] \in Job
        BY <1>1 DEF Job
    <2>2. work' = [work EXCEPT ![n][t] = [work[n][t] EXCEPT !.pc = pc]]
        BY <1>5 DEF GoOn
    <2> QED
        BY <1>2, <2>1, <2>2, Update
<1>6. ASSUME NEW info \in Info, NEW p \in Node
      PROVE  Done(work[n][t], p, info) \in Job
    BY <1>1 DEF Done, Job
<1>7. CASE PostTake(n, t)
    <2>1. Head(toPeers[n]) \in Info /\ toPeers' \in [Node -> Seq(Info)]
        BY <1>2, <1>7, HeadTail, ChannelTail DEF PostTake
    <2> QED
        BY <1>2, <1>3, <1>4, <1>7, <2>1, JobType DEF PostTake, TypeOK, chans
<1>8. CASE PostEnd(n, t)
    BY <1>2, <1>3, <1>4, <1>8, JobType DEF PostEnd, TypeOK, chans
<1>9. ASSUME NEW p \in Node, PostSkip(n, t, p) PROVE TypeOK' /\ Stamped'
    BY <1>1, <1>2, <1>3, <1>4, <1>6, <1>9 DEF PostSkip, TypeOK, chans
<1>10. ASSUME NEW p \in Node, PostDone(n, t, p) PROVE TypeOK' /\ Stamped'
    <2>1. fromPeers' \in [Node -> Seq(Info)]
        BY <1>1, <1>2, <1>10, ChannelAppend DEF PostDone
    <2> QED
        BY <1>1, <1>2, <1>3, <1>4, <1>6, <1>10, <2>1, InfoChange DEF PostDone, TypeOK, chans
<1>11. ASSUME NEW p \in Node, PostFails(n, t, p) PROVE TypeOK' /\ Stamped'
    <2> DEFINE again == MayRepost(work[n][t].info)
               info  == IF again THEN [work[n][t].info EXCEPT !.retry = @ + 1]
                                 ELSE work[n][t].info
    <2>1. info \in Info
        BY <1>1, InfoChange DEF MayRepost
    <2> HIDE DEF info
    <2>2. Done(work[n][t], p, info) \in Job
        BY <1>6, <2>1
    <2>3. Step(n, t, Done(work[n][t], p, info))
        BY <1>11 DEF PostFails, info
    <2>4. fromPeers' \in [Node -> Seq(Info)]
        <3>1. [fromPeers EXCEPT ![p] = Append(@, work[n][t].info)] \in [Node -> Seq(Info)]
            BY <1>1, <1>2, ChannelAppend
        <3> QED
            BY <1>2, <1>11, <3>1 DEF PostFails
    <2>5. toPeers' = [toPeers EXCEPT ![n] = Append(@, info)] \/ toPeers' = toPeers
        BY <1>11 DEF PostFails, info
    <2>6. [toPeers EXCEPT ![n] = Append(@, info)] \in [Node -> Seq(Info)]
        BY <1>2, <2>1, ChannelAppend
    <2>7. failures' \in 0..MaxFailures /\ clean' \in BOOLEAN
        BY <1>11, FailureType DEF PostFails
    <2>8. toPeers' \in [Node -> Seq(Info)]
        BY <1>2, <2>5, <2>6
    <2>9. UNCHANGED <<alive, file, clock, migrations>>
        BY <1>11 DEF PostFails
    <2> QED
        BY <1>3, <1>4, <2>2, <2>3, <2>4, <2>7, <2>8, <2>9
<1>12. ASSUME NEW p \in Node, PostRefused(n, t, p) PROVE TypeOK' /\ Stamped'
    BY <1>1, <1>2, <1>3, <1>4, <1>6, <1>12, FailureType DEF PostRefused, TypeOK, chans
<1>13. CASE GetTake(n, t)
    <2>1. Head(fromPeers[n]) \in Info /\ fromPeers' \in [Node -> Seq(Info)]
        BY <1>2, <1>13, HeadTail, ChannelTail DEF GetTake
    <2> DEFINE job == IF Head(fromPeers[n]).retry >= RetryCount THEN Off
                      ELSE [pc |-> "look", todo |-> {},
                            info |-> [Head(fromPeers[n]) EXCEPT !.retry = @ + 1]]
    <2>2. job \in Job
        <3>1. CASE Head(fromPeers[n]).retry >= RetryCount
            BY <3>1, JobType
        <3>2. CASE ~ (Head(fromPeers[n]).retry >= RetryCount)
            <4> DEFINE info == Head(fromPeers[n])
            <4>2. info \in Info
                BY <2>1
            <4> HIDE DEF info
            <4>3. info.retry <= RetryCount
                <5>1. info.retry \in Nat /\ RetryCount \in Nat
                    BY <4>2, InfoChange
                <5>2. ~ (info.retry >= RetryCount)
                    BY <3>2 DEF info
                <5> QED
                    BY <5>1, <5>2
            <4>4. [info EXCEPT !.retry = @ + 1] \in Info
                BY <4>2, <4>3, InfoChange
            <4> QED
                BY <3>2, <4>4 DEF Job, info
        <3> QED
            BY <3>1, <3>2
    <2>3. Step(n, t, job)
        BY <1>13 DEF GetTake
    <2> QED
        BY <1>2, <1>3, <1>4, <1>13, <2>1, <2>2, <2>3 DEF GetTake, TypeOK, chans
<1>14. CASE GetLook(n, t)
    <2>1. CASE GoOn(n, t, "lock") \/ GoOn(n, t, "remove")
        BY <1>2, <1>3, <1>5, <1>14, <2>1 DEF GetLook, TypeOK, chans
    <2>2. CASE /\ Has(n)
               /\ Step(n, t, Posting(n, [work[n][t].info EXCEPT !.time = file[n].time]))
        <3>1. [work[n][t].info EXCEPT !.time = file[n].time] \in Info
            BY <1>1, <2>2, HasVersion DEF Info
        <3> QED
            BY <1>2, <1>3, <1>4, <1>14, <2>2, <3>1, JobType DEF GetLook, TypeOK, chans
    <2> QED
        BY <1>14, <2>1, <2>2 DEF GetLook
<1>15. CASE GetRemove(n, t)
    <2>1. work' \in [Node -> [Thread -> Job]]
        BY <1>5, <1>15 DEF GetRemove
    <2>2. file' \in [Node -> [version : Version \cup {0}, time : 0..MaxClock]] /\ Stamped'
        BY <1>15 DEF GetRemove, NoFile, TypeOK, Stamped
    <2> QED
        BY <1>15, <2>1, <2>2 DEF GetRemove, TypeOK, Job, chans
<1>16. CASE GetLock(n, t)
    BY <1>2, <1>3, <1>4, <1>5, <1>16, JobType DEF GetLock, TypeOK, chans
<1>17. CASE GetAnswered(n, t)
    <2>1. work' \in [Node -> [Thread -> Job]]
        BY <1>4, <1>17, JobType DEF GetAnswered
    <2>2. file[Origin].version \in Version /\ clock' \in 1..MaxClock
        <3>1. Has(Origin) /\ clock' \in {clock, clock + 1} /\ clock' <= MaxClock
            BY <1>17 DEF GetAnswered, Now
        <3>2. clock \in 1..MaxClock
            BY DEF TypeOK
        <3>3. clock' \in 1..MaxClock
            BY <3>1, <3>2, BoundType
        <3> QED
            BY <3>1, <3>3, HasVersion
    <2>3. Version \subseteq Nat \ {0}
        BY NewestType
    <2>4. [version |-> file[Origin].version, time |-> clock']
              \in [version : Version \cup {0}, time : 0..MaxClock]
        BY <2>2
    <2>5. file' \in [Node -> [version : Version \cup {0}, time : 0..MaxClock]]
        BY <1>17, <2>4 DEF GetAnswered, TypeOK
    <2>6. Stamped'
        BY <1>17, <2>2, <2>3 DEF GetAnswered, TypeOK, Stamped
    <2> QED
        BY <1>17, <2>1, <2>2, <2>5, <2>6 DEF GetAnswered, TypeOK, Job, chans
<1>18. CASE GetFails(n, t)
    <2>1. fromPeers' \in [Node -> Seq(Info)]
        BY <1>1, <1>2, <1>18, ChannelAppend DEF GetFails
    <2> QED
        BY <1>2, <1>3, <1>4, <1>18, <2>1, JobType, FailureType DEF GetFails, TypeOK, chans
<1> QED
    BY <1>7, <1>8, <1>9, <1>10, <1>11, <1>12, <1>13, <1>14, <1>15, <1>16, <1>17, <1>18
    DEF ThreadStep

LEMMA NextTypeOK == TypeOK /\ Stamped /\ [Next]_vars => TypeOK' /\ Stamped'
<1> SUFFICES ASSUME TypeOK, Stamped, [Next]_vars PROVE TypeOK' /\ Stamped'
    OBVIOUS
<1>1. CASE UNCHANGED vars
    BY <1>1 DEF vars, chans, TypeOK, Stamped
<1>2. CASE Migrate
    <2> DEFINE info == [version |-> file[Origin].version, time |-> file[Origin].time,
                        listed |-> {Origin}, retry |-> 0]
    <2>1. info \in Info
        BY <1>2, HasVersion DEF Migrate, Info
    <2>2. toPeers' \in [Node -> Seq(Info)]
        BY <1>2, <2>1, ChannelAppend DEF Migrate, TypeOK
    <2>3. migrations' \in 0..MaxMigrations /\ clean' \in BOOLEAN
        BY <1>2 DEF Migrate, TypeOK, Quiet
    <2> QED
        BY <1>2, <2>2, <2>3 DEF Migrate, TypeOK, Stamped
<1>3. ASSUME NEW n \in Node, Crash(n) PROVE TypeOK' /\ Stamped'
    <2>1. work' \in [Node -> [Thread -> Job]]
        BY <1>3, JobType DEF Crash, TypeOK, Job
    <2>2. <<>> \in Seq(Info)
        OBVIOUS
    <2>3. /\ toPeers' \in [Node -> Seq(Info)] /\ fromPeers' \in [Node -> Seq(Info)]
          /\ alive' \in [Node -> BOOLEAN]
        BY <1>3, <2>2 DEF Crash, TypeOK
    <2> QED
        BY <1>3, <2>1, <2>3, FailureType DEF Crash, TypeOK, Stamped, Job
<1>4. ASSUME NEW n \in Node, Restart(n) PROVE TypeOK' /\ Stamped'
    BY <1>4 DEF Restart, chans, TypeOK, Stamped
<1> QED
    BY <1>1, <1>2, <1>3, <1>4, ThreadType, NextSteps

(* Every queue, FileInfo and goroutine keeps its shape, the counters stay   *)
(* within their bounds, and the file that is migrated has a version.        *)
THEOREM TypeCorrect == Spec => []TypeOK
<1> QED
    BY InitTypeOK, NextTypeOK, PTL DEF Spec
-----------------------------------------------------------------------------
(* What the runs choose: the node that migrates has the newest version.     *)
OriginIsNewest == \A n \in Node : Copies[n] <= Copies[Origin]

Original == [version |-> Copies[Origin], time |-> Copies[Origin]]

(* Nobody sends the node its own file: it is the first of every list.       *)
OriginInv ==
    /\ file[Origin] = Original
    /\ fromPeers[Origin] = <<>>
    /\ \A t \in GetWorker : work[Origin][t].pc = "off"

(* A FileInfo is of its version, and claims no older time.                  *)
OfOrigin(info) == /\ info.version = Copies[Origin]
                  /\ info.time >= Copies[Origin]
                  /\ Origin \in info.listed

Kept(chan) == \A n \in Node : \A i \in 1..Len(chan[n]) : OfOrigin(chan[n][i])

InfoInv ==
    /\ Kept(toPeers) /\ Kept(fromPeers)
    /\ \A n \in Node, t \in Thread : work[n][t].pc # "off" => OfOrigin(work[n][t].info)

(* Only a worker of queueFromPeers fetches.                                 *)
WorkInv == \A n \in Node, t \in PostWorker : work[n][t].pc \in {"off", "post"}

(* A file that is newer than the version is a copy of it, downloaded since. *)
CopyInv == \A n \in Node : file[n].time > Copies[Origin] => file[n].version = Copies[Origin]

(* The file is on its way to p: to be posted, posted, or being fetched, and *)
(* the counter has an attempt left.                                         *)
Counted(info) == info.retry < RetryCount
ToPost(p) == \E i \in 1..Len(toPeers[Origin]) :
                 p \notin toPeers[Origin][i].listed /\ Counted(toPeers[Origin][i])
Posted(p) == \E t \in PostWorker :
                 LET job == work[Origin][t] IN
                 job.pc = "post" /\ p \in job.todo \ job.info.listed /\ Counted(job.info)
ToFetch(p) == \E i \in 1..Len(fromPeers[p]) : Counted(fromPeers[p][i])
FetchState == {"look", "remove", "lock", "get"}
Fetched(p) == \E t \in GetWorker : work[p][t].pc \in FetchState
OnItsWay(p) == ToPost(p) \/ Posted(p) \/ ToFetch(p) \/ Fetched(p)

Provided(p) == file[p].version = Copies[Origin] \/ OnItsWay(p)

MigrationInv ==
    clean => /\ \A n \in Node : alive[n]
             /\ Has(Origin)
             /\ \A p \in Peers[Origin] \ {Origin} : Provided(p)

MoveInv == WorkInv /\ OriginInv /\ InfoInv /\ CopyInv /\ MigrationInv

LEMMA OriginVersion ==
    ASSUME OriginIsNewest
    PROVE  Copies[Origin] \in Version /\ Copies[Origin] \in Nat \ {0}
<1>1. Copies[Origin] \in Nat /\ \A n \in Node : Copies[n] \in Nat
    OBVIOUS
<1>2. PICK n \in Node : Newest = Copies[n] /\ Copies[n] # 0
    BY NewestType DEF Version
<1>3. Copies[n] <= Copies[Origin]
    BY DEF OriginIsNewest
<1>4. Copies[Origin] # 0
    BY <1>1, <1>2, <1>3
<1> QED
    BY <1>1, <1>4 DEF Version

LEMMA InitMove == OriginIsNewest /\ Init => MoveInv
<1> SUFFICES ASSUME OriginIsNewest, Init PROVE MoveInv
    OBVIOUS
<1>1. \A n \in Node, t \in Thread : work[n][t].pc = "off"
    BY DEF Init, Off
<1>2. \A n \in Node : toPeers[n] = <<>> /\ fromPeers[n] = <<>>
    BY DEF Init
<1>3. \A n \in Node : Copies[n] \in Nat /\ Copies[n] <= Copies[Origin]
    BY DEF OriginIsNewest
<1>4. CopyInv
    BY <1>3 DEF Init, CopyInv
<1> QED
    BY <1>1, <1>2, <1>4 DEF Init, MoveInv, WorkInv, OriginInv, Original, InfoInv, Kept,
       MigrationInv, Thread

-----------------------------------------------------------------------------
(* What the channels and the goroutines hold after a step.                  *)
LEMMA Others ==
    ASSUME TypeOK, NEW n \in Node, NEW t \in Thread, NEW job, Step(n, t, job)
    PROVE  /\ work'[n][t] = job
           /\ \A m \in Node, s \in Thread : <<m, s>> # <<n, t>> => work'[m][s] = work[m][s]
    BY DEF TypeOK, Step

LEMMA GoesOn ==
    ASSUME TypeOK, NEW n \in Node, NEW t \in Thread, NEW pc, GoOn(n, t, pc)
    PROVE  /\ Step(n, t, [work[n][t] EXCEPT !.pc = pc])
           /\ work'[n][t].pc = pc /\ work'[n][t].info = work[n][t].info
<1>1. Step(n, t, [work[n][t] EXCEPT !.pc = pc])
    BY DEF Step, GoOn
<1>2. work'[n][t] = [work[n][t] EXCEPT !.pc = pc]
    BY <1>1, Others
<1>3. work[n][t] \in Job
    BY WorkType
<1> QED
    BY <1>1, <1>2, <1>3 DEF Job

LEMMA Appended ==
    ASSUME NEW c \in [Node -> Seq(Info)], NEW m \in Node, NEW x \in Info, NEW n \in Node
    PROVE  LET d == [c EXCEPT ![m] = Append(@, x)] IN
           /\ \A i \in 1..Len(c[n]) : i \in 1..Len(d[n]) /\ d[n][i] = c[n][i]
           /\ \A i \in 1..Len(d[n]) : \/ i \in 1..Len(c[n]) /\ d[n][i] = c[n][i]
                                      \/ n = m /\ d[n][i] = x
           /\ Len(d[m]) \in 1..Len(d[m]) /\ d[m][Len(d[m])] = x
<1>1. c[n] \in Seq(Info) /\ c[m] \in Seq(Info)
    OBVIOUS
<1> QED
    BY <1>1

LEMMA Shortened ==
    ASSUME NEW c \in [Node -> Seq(Info)], NEW m \in Node, c[m] # <<>>, NEW n \in Node,
           NEW d, d = [c EXCEPT ![m] = Tail(@)]
    PROVE  /\ \A i \in 1..Len(d[n]) : \E j \in 1..Len(c[n]) : d[n][i] = c[n][j]
           /\ \E j \in 1..Len(c[m]) : c[m][j] = Head(c[m])
<1>1. c[n] \in Seq(Info) /\ c[m] \in Seq(Info) /\ Len(c[m]) >= 1
    OBVIOUS
<1>2. CASE n # m
    <2>1. d[n] = c[n]
        BY <1>2
    <2>2. 1 \in 1..Len(c[m]) /\ Head(c[m]) = c[m][1]
        BY <1>1
    <2> QED
        BY <1>2, <2>1, <2>2
<1>3. CASE n = m
    <2>1. d[m] = Tail(c[m]) /\ Len(d[m]) = Len(c[m]) - 1
        BY <1>1
    <2>2. \A i \in 1..Len(d[m]) : i + 1 \in 1..Len(c[m]) /\ d[m][i] = c[m][i + 1]
        BY <1>1, <2>1
    <2>3. 1 \in 1..Len(c[m]) /\ c[m][1] = Head(c[m])
        BY <1>1
    <2> QED
        BY <1>3, <2>2, <2>3
<1> QED
    BY <1>2, <1>3

LEMMA StillThere ==
    ASSUME NEW S, NEW s \in Seq(S), s # <<>>, NEW i \in 1..Len(s)
    PROVE  s[i] = Head(s) \/ (i - 1 \in 1..Len(Tail(s)) /\ Tail(s)[i - 1] = s[i])
    OBVIOUS

LEMMA KeptAppended ==
    ASSUME NEW c \in [Node -> Seq(Info)], Kept(c), NEW m \in Node, NEW x \in Info, OfOrigin(x)
    PROVE  Kept([c EXCEPT ![m] = Append(@, x)])
<1> DEFINE d == [c EXCEPT ![m] = Append(@, x)]
<1>1. ASSUME NEW n \in Node, NEW i \in 1..Len(d[n]) PROVE OfOrigin(d[n][i])
    <2>1. (i \in 1..Len(c[n]) /\ d[n][i] = c[n][i]) \/ d[n][i] = x
        BY Appended
    <2> QED
        BY <2>1 DEF Kept
<1> QED
    BY <1>1 DEF Kept

LEMMA KeptShortened ==
    ASSUME NEW c \in [Node -> Seq(Info)], Kept(c), NEW m \in Node, c[m] # <<>>
    PROVE  Kept([c EXCEPT ![m] = Tail(@)]) /\ OfOrigin(Head(c[m]))
<1> DEFINE d == [c EXCEPT ![m] = Tail(@)]
<1>1. ASSUME NEW n \in Node, NEW i \in 1..Len(d[n]) PROVE OfOrigin(d[n][i])
    <2>1. \E j \in 1..Len(c[n]) : d[n][i] = c[n][j]
        BY Shortened
    <2> QED
        BY <2>1 DEF Kept
<1>2. OfOrigin(Head(c[m]))
    BY Shortened DEF Kept
<1> QED
    BY <1>1, <1>2 DEF Kept

-----------------------------------------------------------------------------
SafeInv == WorkInv /\ OriginInv /\ InfoInv /\ CopyInv

(* Who fetches is a worker of queueFromPeers, and not of the node that      *)
(* migrates.                                                                *)
Gets(n, t) == \/ GetTake(n, t) \/ GetLook(n, t) \/ GetRemove(n, t)
              \/ GetLock(n, t) \/ GetAnswered(n, t) \/ GetFails(n, t)

LEMMA WhoGets ==
    ASSUME WorkInv, OriginInv, NEW n \in Node, NEW t \in Thread, Gets(n, t)
    PROVE  n # Origin /\ t \in GetWorker /\ t \notin PostWorker
<1>1. \/ t \in GetWorker /\ fromPeers[n] # <<>>
      \/ work[n][t].pc \in {"look", "remove", "lock", "get"}
    BY DEF Gets, GetTake, GetLook, GetRemove, GetLock, GetAnswered, GetFails, Doing
<1>2. t \in PostWorker => work[n][t].pc \in {"off", "post"}
    BY DEF WorkInv
<1>3. t \in GetWorker /\ t \notin PostWorker
    BY <1>1, <1>2, WorkerAssumption DEF Thread
<1> QED
    BY <1>1, <1>3 DEF OriginInv

LEMMA ThreadSafe ==
    ASSUME TypeOK, Stamped, SafeInv, NEW n \in Node, NEW t \in Thread, ThreadStep(n, t)
    PROVE  SafeInv'
<1> USE DEF SafeInv
<1> DEFINE job == work[n][t]
<1>1. /\ job \in Job /\ job.info \in Info
      /\ job.pc # "off" => OfOrigin(job.info)
      /\ toPeers \in [Node -> Seq(Info)] /\ fromPeers \in [Node -> Seq(Info)]
    BY WorkType DEF InfoInv, TypeOK
<1>2. ASSUME NEW next, Step(n, t, next),
             t \in PostWorker => next.pc \in {"off", "post"},
             t \in GetWorker /\ n = Origin => next.pc = "off",
             next.pc # "off" => OfOrigin(next.info)
      PROVE  /\ WorkInv' /\ \A s \in GetWorker : (work[Origin][s].pc = "off")'
             /\ \A m \in Node, s \in Thread :
                   (work[m][s].pc # "off" => OfOrigin(work[m][s].info))'
    <2>1. /\ work'[n][t] = next
          /\ \A m \in Node, s \in Thread : <<m, s>> # <<n, t>> => work'[m][s] = work[m][s]
        BY <1>2, Others
    <2>2. WorkInv'
        BY <1>2, <2>1 DEF WorkInv, Thread
    <2>3. \A s \in GetWorker : (work[Origin][s].pc = "off")'
        BY <1>2, <2>1 DEF OriginInv, Thread
    <2>4. \A m \in Node, s \in Thread : (work[m][s].pc # "off" => OfOrigin(work[m][s].info))'
        BY <1>2, <2>1 DEF InfoInv, OfOrigin
    <2> QED
        BY <2>2, <2>3, <2>4
<1>3. Off.pc = "off"
    BY DEF Off
<1>4. ASSUME NEW info
      PROVE  Posting(n, info).pc = "post" /\ Posting(n, info).info = info
    BY DEF Posting
<1>5. ASSUME NEW p \in Node, NEW info \in Info
      PROVE  Done(job, p, info).pc = job.pc /\ Done(job, p, info).info = info
    BY <1>1 DEF Done, Job
<1>6. t \in GetWorker /\ n = Origin => job.pc = "off"
    BY DEF OriginInv
<1>7. ASSUME Kept(toPeers)', Kept(fromPeers)', fromPeers'[Origin] = <<>>,
             file' = file, NEW next, Step(n, t, next),
             t \in PostWorker => next.pc \in {"off", "post"},
             t \in GetWorker /\ n = Origin => next.pc = "off",
             next.pc # "off" => OfOrigin(next.info)
      PROVE  SafeInv'
    BY <1>2, <1>7 DEF OriginInv, InfoInv, CopyInv
<1>8. Kept(toPeers) /\ Kept(fromPeers) /\ fromPeers[Origin] = <<>>
    BY DEF InfoInv, OriginInv
<1>9. ASSUME chans' = chans PROVE Kept(toPeers)' /\ Kept(fromPeers)' /\ fromPeers'[Origin] = <<>>
    BY <1>8, <1>9 DEF chans, Kept
<1>10. CASE PostTake(n, t)
    <2>1. OfOrigin(Head(toPeers[n])) /\ Kept([toPeers EXCEPT ![n] = Tail(@)])
        BY <1>1, <1>8, <1>10, KeptShortened DEF PostTake
    <2>2. Kept(toPeers)' /\ Kept(fromPeers)' /\ fromPeers'[Origin] = <<>> /\ file' = file
        BY <1>8, <1>10, <2>1 DEF PostTake, Kept
    <2>3. ~ (t \in GetWorker)
        BY <1>10, WorkerAssumption DEF PostTake
    <2> QED
        BY <1>4, <1>7, <1>10, <2>1, <2>2, <2>3 DEF PostTake
<1>11. CASE PostEnd(n, t)
    BY <1>3, <1>7, <1>9, <1>11 DEF PostEnd
<1>12. ASSUME NEW p \in Node, PostSkip(n, t, p) \/ PostRefused(n, t, p) PROVE SafeInv'
    <2>1. Step(n, t, Done(job, p, job.info)) /\ job.pc = "post" /\ chans' = chans /\ file' = file
        BY <1>12 DEF PostSkip, PostRefused, Doing
    <2> QED
        BY <1>1, <1>5, <1>6, <1>7, <1>9, <2>1
<1>13. ASSUME NEW p \in Node, job.pc = "post", ~ Listed(job.info, p),
              \/ fromPeers' = fromPeers
              \/ fromPeers' = [fromPeers EXCEPT ![p] = Append(@, job.info)]
       PROVE  Kept(fromPeers)' /\ fromPeers'[Origin] = <<>>
    <2>1. p # Origin
        BY <1>1, <1>13 DEF OfOrigin, Listed
    <2>2. Kept([fromPeers EXCEPT ![p] = Append(@, job.info)])
        BY <1>1, <1>8, <1>13, KeptAppended
    <2>3. Kept(fromPeers)'
        BY <1>8, <1>13, <2>2 DEF Kept
    <2>4. fromPeers'[Origin] = <<>>
        BY <1>1, <1>8, <1>13, <2>1
    <2> QED
        BY <2>3, <2>4
<1>14. ASSUME NEW p \in Node, PostDone(n, t, p) PROVE SafeInv'
    <2> DEFINE info == [job.info EXCEPT !.listed = @ \cup {p}]
    <2>1. /\ Step(n, t, Done(job, p, info)) /\ job.pc = "post" /\ ~ Listed(job.info, p)
          /\ fromPeers' = [fromPeers EXCEPT ![p] = Append(@, job.info)]
          /\ toPeers' = toPeers /\ file' = file
        BY <1>14 DEF PostDone, Doing
    <2>2. info \in Info /\ OfOrigin(info)
        BY <1>1, <2>1, InfoChange DEF OfOrigin, Info
    <2>3. Kept(toPeers)' /\ Kept(fromPeers)' /\ fromPeers'[Origin] = <<>>
        BY <1>8, <1>13, <2>1 DEF Kept
    <2> HIDE DEF info
    <2> QED
        BY <1>5, <1>6, <1>7, <2>1, <2>2, <2>3
<1>15. ASSUME NEW p \in Node, PostFails(n, t, p) PROVE SafeInv'
    <2> DEFINE again == MayRepost(job.info)
               info  == IF again THEN [job.info EXCEPT !.retry = @ + 1] ELSE job.info
    <2>1. /\ job.pc = "post" /\ ~ Listed(job.info, p)
          /\ \/ fromPeers' = fromPeers
             \/ fromPeers' = [fromPeers EXCEPT ![p] = Append(@, job.info)]
          /\ file' = file
        BY <1>15 DEF PostFails, Doing
    <2>2. info \in Info /\ OfOrigin(info)
        BY <1>1, <2>1, InfoChange DEF OfOrigin, Info, MayRepost
    <2> HIDE DEF info
    <2>3. /\ Step(n, t, Done(job, p, info))
          /\ toPeers' = [toPeers EXCEPT ![n] = Append(@, info)] \/ toPeers' = toPeers
        BY <1>15 DEF PostFails, info
    <2>4. Kept([toPeers EXCEPT ![n] = Append(@, info)])
        BY <1>1, <1>8, <2>2, KeptAppended
    <2>5. Kept(toPeers)' /\ Kept(fromPeers)' /\ fromPeers'[Origin] = <<>>
        BY <1>8, <1>13, <2>1, <2>3, <2>4 DEF Kept
    <2> QED
        BY <1>5, <1>6, <1>7, <2>1, <2>2, <2>3, <2>5
<1>16. CASE GetTake(n, t)
    <2> DEFINE info == Head(fromPeers[n])
    <2>1. /\ OfOrigin(info) /\ info \in Info /\ Kept([fromPeers EXCEPT ![n] = Tail(@)])
          /\ n # Origin /\ t \notin PostWorker
        BY <1>1, <1>8, <1>16, KeptShortened, HeadTail, WhoGets DEF GetTake, Gets
    <2>2. Kept(toPeers)' /\ Kept(fromPeers)' /\ fromPeers'[Origin] = <<>> /\ file' = file
        BY <1>8, <1>16, <2>1 DEF GetTake, Kept
    <2>3. OfOrigin([info EXCEPT !.retry = @ + 1])
        BY <2>1 DEF OfOrigin, Info
    <2> HIDE DEF info
    <2>4. \/ Step(n, t, Off)
          \/ Step(n, t, [pc |-> "look", todo |-> {}, info |-> [info EXCEPT !.retry = @ + 1]])
        BY <1>16 DEF GetTake, info
    <2> QED
        BY <1>3, <1>7, <2>1, <2>2, <2>3, <2>4
<1>17. ASSUME NEW pc, GoOn(n, t, pc), Gets(n, t), job.pc # "off", file' = file, chans' = chans
       PROVE  SafeInv'
    <2>1. /\ Step(n, t, [job EXCEPT !.pc = pc])
          /\ [job EXCEPT !.pc = pc].pc = pc /\ [job EXCEPT !.pc = pc].info = job.info
        BY <1>1, <1>17, GoesOn DEF Job
    <2> QED
        BY <1>1, <1>7, <1>9, <1>17, <2>1, WhoGets
<1>18. CASE GetLook(n, t)
    <2> DEFINE info == [job.info EXCEPT !.time = file[n].time]
    <2>1. Gets(n, t) /\ job.pc = "look" /\ file' = file /\ chans' = chans
        BY <1>18 DEF GetLook, Gets, Doing
    <2>2. CASE GoOn(n, t, "lock") \/ GoOn(n, t, "remove")
        BY <1>17, <2>1, <2>2
    <2>3. CASE Has(n) /\ Newer(n, job.info) /\ Step(n, t, Posting(n, info))
        <3>1. /\ job.info.time \in Nat /\ file[n].time \in Nat /\ Copies[Origin] \in Nat
              /\ job.info.time >= Copies[Origin] /\ file[n].time > job.info.time
            <4>1. OfOrigin(job.info)
                BY <1>1, <2>1
            <4>2. job.info.time \in 1..MaxClock /\ file[n].time \in 1..MaxClock
                BY <1>1, <2>3, HasVersion, InfoChange
            <4> QED
                BY <2>3, <4>1, <4>2 DEF Newer, OfOrigin
        <3>2. file[n].time >= Copies[Origin]
            BY <3>1
        <3>3. OfOrigin(info)
            BY <1>1, <2>1, <3>2 DEF OfOrigin, Info
        <3> QED
            BY <1>4, <1>7, <1>9, <2>1, <2>3, <3>3, WhoGets
    <2> QED
        BY <1>18, <2>2, <2>3 DEF GetLook
<1>19. ASSUME CopyInv', file'[Origin] = file[Origin], chans' = chans,
              NEW next, Step(n, t, next), Gets(n, t), next.pc # "off" => OfOrigin(next.info)
       PROVE  SafeInv'
    <2>1. n # Origin /\ t \notin PostWorker
        BY <1>19, WhoGets
    <2> QED
        BY <1>2, <1>9, <1>19, <2>1 DEF OriginInv, InfoInv
<1>20. CASE GetRemove(n, t)
    <2>1. Gets(n, t) /\ job.pc = "remove" /\ GoOn(n, t, "lock") /\ chans' = chans
        BY <1>20 DEF GetRemove, Gets, Doing
    <2>2. file' = [file EXCEPT ![n] = NoFile] /\ n # Origin
        BY <1>20, <2>1, WhoGets DEF GetRemove
    <2>3. Step(n, t, [job EXCEPT !.pc = "lock"]) /\ [job EXCEPT !.pc = "lock"].info = job.info
        BY <1>1, <2>1, GoesOn DEF Job
    <2>6. file'[n] = NoFile /\ \A m \in Node \ {n} : file'[m] = file[m]
        BY <2>2 DEF TypeOK
    <2>7. ~ (NoFile.time > Copies[Origin])
        <3>1. NoFile.time = 0 /\ Copies[Origin] \in Nat
            BY DEF NoFile
        <3> QED
            BY <3>1
    <2>4. CopyInv'
        BY <2>6, <2>7 DEF CopyInv
    <2>5. file'[Origin] = file[Origin]
        BY <2>2 DEF TypeOK
    <2> QED
        BY <1>1, <1>19, <2>1, <2>3, <2>4, <2>5
<1>21. CASE GetLock(n, t)
    <2>1. Gets(n, t) /\ job.pc = "lock" /\ file' = file /\ chans' = chans
        BY <1>21 DEF GetLock, Gets, Doing
    <2> QED
        BY <1>3, <1>7, <1>9, <1>17, <1>21, <2>1 DEF GetLock
<1>22. CASE GetAnswered(n, t)
    <2>1. /\ Gets(n, t) /\ n # Origin /\ Step(n, t, Off) /\ chans' = chans
          /\ file' = [file EXCEPT ![n] = [version |-> file[Origin].version, time |-> clock']]
        BY <1>22, WhoGets DEF GetAnswered, Gets
    <2>2. file[Origin].version = Copies[Origin]
        BY DEF OriginInv, Original
    <2>3. CopyInv'
        BY <2>1, <2>2 DEF CopyInv, TypeOK
    <2> QED
        BY <1>3, <1>19, <2>1, <2>3 DEF TypeOK
<1>23. CASE GetFails(n, t)
    <2>1. /\ Gets(n, t) /\ n # Origin /\ Step(n, t, Off) /\ file' = file /\ toPeers' = toPeers
          /\ fromPeers' = [fromPeers EXCEPT ![n] = Append(@, job.info)] /\ job.pc = "get"
        BY <1>23, WhoGets DEF GetFails, Gets, Doing
    <2>2. Kept([fromPeers EXCEPT ![n] = Append(@, job.info)])
        BY <1>1, <1>8, <2>1, KeptAppended
    <2>3. Kept(toPeers)' /\ Kept(fromPeers)' /\ fromPeers'[Origin] = <<>>
        BY <1>1, <1>8, <2>1, <2>2 DEF Kept
    <2> QED
        BY <1>3, <1>7, <2>1, <2>3
<1> QED
    BY <1>10, <1>11, <1>12, <1>14, <1>15, <1>16, <1>18, <1>20, <1>21, <1>22, <1>23
    DEF ThreadStep

LEMMA NextSafe == TypeOK /\ Stamped /\ SafeInv /\ [Next]_vars => SafeInv'
<1> SUFFICES ASSUME TypeOK, Stamped, SafeInv, [Next]_vars PROVE SafeInv'
    OBVIOUS
<1> USE DEF SafeInv
<1>1. CASE UNCHANGED vars
    BY <1>1 DEF vars, chans, WorkInv, OriginInv, InfoInv, Kept, CopyInv
<1>2. CASE Migrate
    <2> DEFINE info == [version |-> file[Origin].version, time |-> file[Origin].time,
                        listed |-> {Origin}, retry |-> 0]
    <2>1. info \in Info
        BY <1>2, HasVersion DEF Migrate, Info
    <2>2. OfOrigin(info)
        BY DEF OfOrigin, OriginInv, Original
    <2> HIDE DEF info
    <2>3. toPeers' = [toPeers EXCEPT ![Origin] = Append(@, info)]
        BY <1>2 DEF Migrate, info
    <2>4. Kept(toPeers)'
        BY <2>1, <2>2, <2>3, KeptAppended DEF InfoInv, TypeOK, Kept
    <2> QED
        BY <1>2, <2>4 DEF Migrate, WorkInv, OriginInv, InfoInv, Kept, CopyInv
<1>3. ASSUME NEW n \in Node, Crash(n) PROVE SafeInv'
    <2>1. \A m \in Node, t \in Thread :
             work'[m][t] = work[m][t] \/ work'[m][t].pc = "off"
        BY <1>3 DEF Crash, TypeOK, Off
    <2>2. /\ \A m \in Node : toPeers'[m] = toPeers[m] \/ toPeers'[m] = <<>>
          /\ \A m \in Node : fromPeers'[m] = fromPeers[m] \/ fromPeers'[m] = <<>>
        BY <1>3 DEF Crash, TypeOK
    <2>3. Kept(toPeers)' /\ Kept(fromPeers)'
        <3>1. ASSUME NEW m \in Node, NEW i \in 1..Len(toPeers'[m]) PROVE OfOrigin(toPeers'[m][i])
            BY <2>2, <3>1 DEF InfoInv, Kept
        <3>2. ASSUME NEW m \in Node, NEW i \in 1..Len(fromPeers'[m])
              PROVE  OfOrigin(fromPeers'[m][i])
            BY <2>2, <3>2 DEF InfoInv, Kept
        <3> QED
            BY <3>1, <3>2 DEF Kept, OfOrigin
    <2>4. WorkInv' /\ \A t \in GetWorker : (work[Origin][t].pc = "off")'
        BY <2>1 DEF WorkInv, OriginInv, Thread
    <2>5. \A m \in Node, t \in Thread : (work[m][t].pc # "off" => OfOrigin(work[m][t].info))'
        BY <2>1 DEF InfoInv
    <2> QED
        BY <1>3, <2>2, <2>3, <2>4, <2>5 DEF Crash, OriginInv, InfoInv, CopyInv
<1>4. ASSUME NEW n \in Node, Restart(n) PROVE SafeInv'
    BY <1>4 DEF Restart, chans, WorkInv, OriginInv, InfoInv, Kept, CopyInv
<1> QED
    BY <1>1, <1>2, <1>3, <1>4, ThreadSafe, NextSteps

-----------------------------------------------------------------------------
(* Nothing that is on its way gets lost while the network loses nothing.    *)
LEMMA ThreadProvides ==
    ASSUME TypeOK, Stamped, SafeInv, NEW n \in Node, NEW t \in Thread, ThreadStep(n, t),
           \A m \in Node : alive[m], Has(Origin), ~ Failure,
           NEW p \in Peers[Origin] \ {Origin}, Provided(p)
    PROVE  Provided(p)'
<1> USE DEF SafeInv
<1> DEFINE job == work[n][t]
<1>1. /\ p \in Node /\ p # Origin
      /\ job \in Job /\ job.info \in Info
      /\ job.pc # "off" => OfOrigin(job.info)
      /\ toPeers \in [Node -> Seq(Info)] /\ fromPeers \in [Node -> Seq(Info)]
    BY WorkType DEF InfoInv, TypeOK
<1>2. ASSUME NEW q \in Node PROVE ~ Fails(q)
    BY DEF Fails
<1>3. ~ GetFails(n, t) /\ \A q \in Node : ~ PostFails(n, t, q) /\ ~ PostRefused(n, t, q)
    BY <1>2 DEF GetFails, PostFails, PostRefused
<1>4. ASSUME NEW next, Step(n, t, next)
      PROVE  /\ work'[n][t] = next
             /\ \A m \in Node, s \in Thread : <<m, s>> # <<n, t>> => work'[m][s] = work[m][s]
    BY <1>4, Others
<1>5. PostWorker \subseteq Thread /\ GetWorker \subseteq Thread
    BY DEF Thread
<1>6. \E next : Step(n, t, next)
    BY <1>3, GoesOn DEF ThreadStep, PostTake, PostEnd, PostSkip, PostDone, GetTake, GetLook,
       GetRemove, GetLock, GetAnswered
<1>7. CASE file[p].version = Copies[Origin]
    <2>1. CASE GetRemove(n, t) /\ n = p
        <3>1. t \in GetWorker /\ work'[p][t].pc = "lock"
            BY <2>1, GoesOn, WhoGets DEF GetRemove, Gets
        <3> QED
            BY <3>1 DEF Provided, OnItsWay, Fetched, FetchState
    <2>2. CASE GetAnswered(n, t)
        BY <1>1, <1>7, <2>2 DEF GetAnswered, OriginInv, Original, Provided, TypeOK
    <2>3. CASE ~ (GetRemove(n, t) /\ n = p) /\ ~ GetAnswered(n, t)
        <3>1. file'[p] = file[p]
            BY <1>3, <2>3 DEF ThreadStep, PostTake, PostEnd, PostSkip, PostDone, GetTake,
               GetLook, GetRemove, GetLock, TypeOK
        <3> QED
            BY <1>7, <3>1 DEF Provided
    <2> QED
        BY <2>1, <2>2, <2>3
<1>8. CASE ToPost(p)
    <2>1. PICK i \in 1..Len(toPeers[Origin]) :
             p \notin toPeers[Origin][i].listed /\ Counted(toPeers[Origin][i])
        BY <1>8 DEF ToPost
    <2>2. CASE toPeers' = toPeers
        BY <1>8, <2>2 DEF ToPost, Provided, OnItsWay
    <2>3. CASE PostTake(n, t)
        <3>1. /\ toPeers' = [toPeers EXCEPT ![n] = Tail(@)] /\ toPeers[n] # <<>>
              /\ Step(n, t, Posting(n, Head(toPeers[n]))) /\ t \in PostWorker
            BY <2>3 DEF PostTake
        <3>2. CASE \E j \in 1..Len(toPeers'[Origin]) : toPeers'[Origin][j] = toPeers[Origin][i]
            BY <2>1, <3>2 DEF ToPost, Counted, Provided, OnItsWay
        <3>3. CASE n = Origin /\ toPeers[Origin][i] = Head(toPeers[Origin])
            <4>1. work'[Origin][t] = Posting(Origin, toPeers[Origin][i])
                BY <1>4, <3>1, <3>3
            <4>3. /\ work'[Origin][t].pc = "post" /\ p \in work'[Origin][t].todo
                  /\ work'[Origin][t].info = toPeers[Origin][i]
                BY <1>1, <4>1 DEF Posting
            <4>2. Posted(p)'
                BY <2>1, <3>1, <4>3 DEF Posted, Counted
            <4> QED
                BY <4>2 DEF Provided, OnItsWay
        <3>4. \/ Origin = n /\ toPeers[Origin][i] = Head(toPeers[n])
              \/ \E j \in 1..Len(toPeers'[Origin]) : toPeers'[Origin][j] = toPeers[Origin][i]
            <4>1. CASE n = Origin
                <5>1. toPeers'[Origin] = Tail(toPeers[Origin])
                    BY <1>1, <3>1, <4>1
                <5>2. \/ toPeers[Origin][i] = Head(toPeers[Origin])
                      \/ /\ i - 1 \in 1..Len(Tail(toPeers[Origin]))
                         /\ Tail(toPeers[Origin])[i - 1] = toPeers[Origin][i]
                    BY <1>1, <2>1, <3>1, <4>1, StillThere
                <5> QED
                    BY <4>1, <5>1, <5>2
            <4>2. CASE n # Origin
                BY <1>1, <2>1, <3>1, <4>2
            <4> QED
                BY <4>1, <4>2
        <3> QED
            BY <3>2, <3>3, <3>4
    <2> QED
        BY <1>3, <2>2, <2>3 DEF ThreadStep, PostEnd, PostSkip, PostDone, GetTake, GetLook,
           GetRemove, GetLock, GetAnswered, chans
<1>9. CASE Posted(p)
    <2>1. PICK s \in PostWorker : /\ work[Origin][s].pc = "post" /\ p \in work[Origin][s].todo
                                  /\ p \notin work[Origin][s].info.listed
                                  /\ Counted(work[Origin][s].info)
        BY <1>9 DEF Posted
    <2>2. CASE <<n, t>> # <<Origin, s>>
        <3>1. work'[Origin][s] = work[Origin][s]
            BY <1>4, <1>5, <1>6, <2>2
        <3>2. Posted(p)'
            BY <2>1, <3>1 DEF Posted, Counted
        <3> QED
            BY <3>2 DEF Provided, OnItsWay
    <2>3. CASE n = Origin /\ t = s
        <3>1. job.pc = "post" /\ p \in job.todo /\ p \notin job.info.listed /\ Counted(job.info)
            BY <2>1, <2>3
        <3>2. ~ Gets(n, t)
            BY <2>1, <2>3, WhoGets
        <3>3. \E q \in Node : PostSkip(n, t, q) \/ PostDone(n, t, q)
            BY <1>3, <3>1, <3>2 DEF ThreadStep, Gets, PostTake, PostEnd, Doing
        <3>4. PICK q \in Node : PostSkip(n, t, q) \/ PostDone(n, t, q)
            BY <3>3
        <3>5. CASE PostDone(n, t, q) /\ q = p
            <4>1. fromPeers' = [fromPeers EXCEPT ![p] = Append(@, job.info)]
                BY <3>5 DEF PostDone
            <4>2. /\ Len(fromPeers'[p]) \in 1..Len(fromPeers'[p])
                  /\ fromPeers'[p][Len(fromPeers'[p])] = job.info
                BY <1>1, <4>1, Appended
            <4>3. ToFetch(p)'
                BY <3>1, <4>2 DEF ToFetch, Counted
            <4> QED
                BY <4>3 DEF Provided, OnItsWay
        <3>6. ASSUME q # p, NEW info \in Info, Step(n, t, Done(job, q, info)),
                     p \notin info.listed, Counted(info)
              PROVE  Provided(p)'
            <4>1. work'[Origin][s] = Done(job, q, info)
                BY <1>4, <2>3, <3>6
            <4>2. Posted(p)'
                BY <1>1, <3>1, <3>6, <4>1 DEF Posted, Done, Job, Counted
            <4> QED
                BY <4>2 DEF Provided, OnItsWay
        <3>7. CASE PostSkip(n, t, q)
            <4>1. q # p
                BY <2>3, <3>1, <3>7 DEF PostSkip, Listed
            <4> QED
                BY <1>1, <3>1, <3>6, <3>7, <4>1 DEF PostSkip
        <3>8. CASE PostDone(n, t, q) /\ q # p
            <4> DEFINE info == [job.info EXCEPT !.listed = @ \cup {q}]
            <4>1. /\ info \in Info /\ info.retry = job.info.retry
                  /\ info.listed = job.info.listed \cup {q}
                BY <1>1, InfoChange DEF Info
            <4>2. Step(n, t, Done(job, q, info))
                BY <3>8 DEF PostDone
            <4> HIDE DEF info
            <4> QED
                BY <3>1, <3>6, <3>8, <4>1, <4>2 DEF Counted
        <3> QED
            BY <3>4, <3>5, <3>7, <3>8
    <2> QED
        BY <2>2, <2>3
<1>10. CASE ToFetch(p)
    <2>1. PICK i \in 1..Len(fromPeers[p]) : Counted(fromPeers[p][i])
        BY <1>10 DEF ToFetch
    <2>2. ASSUME \E j \in 1..Len(fromPeers'[p]) : fromPeers'[p][j] = fromPeers[p][i]
          PROVE  Provided(p)'
        BY <2>1, <2>2 DEF ToFetch, Counted, Provided, OnItsWay
    <2>3. CASE fromPeers' = fromPeers
        BY <2>2, <2>3
    <2>4. ASSUME NEW q \in Node, PostDone(n, t, q) PROVE Provided(p)'
        <3>1. fromPeers' = [fromPeers EXCEPT ![q] = Append(@, job.info)]
            BY <2>4 DEF PostDone
        <3>3. p \in Node /\ job.info \in Info /\ fromPeers \in [Node -> Seq(Info)]
            BY <1>1
        <3>4. \A k \in 1..Len(fromPeers[p]) :
                 k \in 1..Len(fromPeers'[p]) /\ fromPeers'[p][k] = fromPeers[p][k]
            BY <3>1, <3>3, Appended
        <3>2. i \in 1..Len(fromPeers'[p]) /\ fromPeers'[p][i] = fromPeers[p][i]
            BY <2>1, <3>4
        <3> QED
            BY <2>2, <3>2
    <2>5. CASE GetTake(n, t)
        <3> DEFINE info == Head(fromPeers[n])
        <3>1. fromPeers' = [fromPeers EXCEPT ![n] = Tail(@)] /\ fromPeers[n] # <<>>
            BY <2>5 DEF GetTake
        <3>2. CASE n = p /\ fromPeers[p][i] = info
            <4>1. info \in Info /\ Counted(info)
                BY <1>1, <2>1, <3>1, <3>2, HeadTail
            <4> HIDE DEF info
            <4>2. ~ (info.retry >= RetryCount)
                <5>1. info.retry \in Nat /\ info.retry < RetryCount
                    BY <1>1, <4>1, InfoChange DEF Counted
                <5> QED
                    BY <5>1
            <4>3. work'[p][t].pc = "look" /\ t \in GetWorker
                BY <1>4, <2>5, <3>2, <4>2 DEF GetTake, info
            <4> QED
                BY <4>3 DEF Provided, OnItsWay, Fetched, FetchState
        <3>3. \/ p = n /\ fromPeers[p][i] = Head(fromPeers[n])
              \/ \E j \in 1..Len(fromPeers'[p]) : fromPeers'[p][j] = fromPeers[p][i]
            <4>1. CASE n = p
                <5>1. fromPeers'[p] = Tail(fromPeers[p])
                    BY <1>1, <3>1, <4>1
                <5>2. \/ fromPeers[p][i] = Head(fromPeers[p])
                      \/ /\ i - 1 \in 1..Len(Tail(fromPeers[p]))
                         /\ Tail(fromPeers[p])[i - 1] = fromPeers[p][i]
                    BY <1>1, <2>1, <3>1, <4>1, StillThere
                <5> QED
                    BY <4>1, <5>1, <5>2
            <4>2. CASE n # p
                BY <1>1, <2>1, <3>1, <4>2
            <4> QED
                BY <4>1, <4>2
        <3> QED
            BY <2>2, <3>2, <3>3
    <2> QED
        BY <1>3, <2>3, <2>4, <2>5 DEF ThreadStep, PostTake, PostEnd, PostSkip, GetLook,
           GetRemove, GetLock, GetAnswered, chans
<1>11. CASE Fetched(p)
    <2>1. PICK s \in GetWorker : work[p][s].pc \in FetchState
        BY <1>11 DEF Fetched
    <2>2. ASSUME work'[p][s].pc \in FetchState PROVE Provided(p)'
        BY <2>2 DEF Fetched, Provided, OnItsWay
    <2>3. CASE <<n, t>> # <<p, s>>
        BY <1>1, <1>4, <1>5, <1>6, <2>1, <2>2, <2>3
    <2>4. CASE n = p /\ t = s
        <3>1. job.pc \in FetchState
            BY <2>1, <2>4
        <3>2. ASSUME NEW pc \in FetchState, GoOn(n, t, pc) PROVE Provided(p)'
            BY <2>2, <2>4, <3>2, GoesOn
        <3>3. CASE GetLook(n, t)
            <4>1. CASE Has(p) /\ Newer(p, job.info)
                <5>1. /\ job.info.time \in Nat /\ file[p].time \in Nat
                      /\ Copies[Origin] \in Nat /\ job.info.time >= Copies[Origin]
                      /\ file[p].time > job.info.time
                    <6>1. OfOrigin(job.info)
                        BY <1>1, <3>1 DEF FetchState
                    <6>2. job.info.time \in 1..MaxClock /\ file[p].time \in 1..MaxClock
                        BY <1>1, <4>1, HasVersion, InfoChange
                    <6> QED
                        BY <4>1, <6>1, <6>2 DEF Newer, OfOrigin
                <5>2. file[p].version = Copies[Origin]
                    <6>1. file[p].time > Copies[Origin]
                        BY <5>1
                    <6> QED
                        BY <1>1, <6>1 DEF CopyInv
                <5> QED
                    BY <3>3, <5>2 DEF GetLook, Provided
            <4>2. CASE ~ (Has(p) /\ Newer(p, job.info))
                BY <2>4, <3>2, <3>3, <4>2 DEF GetLook, FetchState
            <4> QED
                BY <4>1, <4>2
        <3>4. CASE GetRemove(n, t)
            BY <3>2, <3>4 DEF GetRemove, FetchState
        <3>5. CASE GetLock(n, t)
            <4>1. CASE file[p].version = job.info.version
                BY <1>1, <2>4, <3>1, <3>5, <4>1 DEF GetLock, OfOrigin, Provided, FetchState
            <4>2. CASE file[p].version # job.info.version
                BY <2>4, <3>2, <3>5, <4>2 DEF GetLock, FetchState
            <4> QED
                BY <4>1, <4>2
        <3>6. CASE GetAnswered(n, t)
            BY <1>1, <2>4, <3>6 DEF GetAnswered, OriginInv, Original, Provided, TypeOK
        <3> QED
            BY <1>3, <3>1, <3>3, <3>4, <3>5, <3>6 DEF ThreadStep, PostTake, PostEnd, PostSkip,
               PostDone, GetTake, Doing, FetchState
    <2> QED
        BY <2>3, <2>4
<1> QED
    BY <1>7, <1>8, <1>9, <1>10, <1>11 DEF Provided, OnItsWay

LEMMA NextMigration ==
    TypeOK /\ Stamped /\ SafeInv /\ MigrationInv /\ [Next]_vars => MigrationInv'
<1> SUFFICES ASSUME TypeOK, Stamped, SafeInv, MigrationInv, [Next]_vars, clean'
             PROVE  MigrationInv'
    BY DEF MigrationInv
<1>1. CASE UNCHANGED vars
    BY <1>1 DEF vars, chans, MigrationInv, Has, Provided, OnItsWay, ToPost, Posted, ToFetch,
       Fetched, Counted
<1>2. CASE Migrate
    <2> DEFINE info == [version |-> file[Origin].version, time |-> file[Origin].time,
                        listed |-> {Origin}, retry |-> 0]
    <2>1. info \in Info
        BY <1>2, HasVersion DEF Migrate, Info
    <2>2. toPeers' = [toPeers EXCEPT ![Origin] = Append(@, info)]
        BY <1>2 DEF Migrate
    <2>3. /\ Len(toPeers'[Origin]) \in 1..Len(toPeers'[Origin])
          /\ toPeers'[Origin][Len(toPeers'[Origin])] = info
        BY <2>1, <2>2, Appended DEF TypeOK
    <2>4. Counted(info) /\ info.listed = {Origin}
        BY DEF Counted
    <2> HIDE DEF info
    <2>5. \A p \in Peers[Origin] \ {Origin} : ToPost(p)'
        BY <2>3, <2>4 DEF ToPost, Counted
    <2>6. (\A n \in Node : alive[n]) /\ Has(Origin)
        BY <1>2 DEF Migrate, Quiet
    <2> QED
        BY <1>2, <2>5, <2>6 DEF Migrate, MigrationInv, Has, Provided, OnItsWay
<1>3. ASSUME NEW n \in Node, Crash(n) \/ Restart(n) PROVE FALSE
    BY <1>3 DEF Crash, Failure, Restart, MigrationInv
<1>4. ASSUME NEW n \in Node, NEW t \in Thread, ThreadStep(n, t) PROVE MigrationInv'
    <2>1. ~ Failure
        BY DEF Failure
    <2>2. clean
        BY <1>4, <2>1 DEF ThreadStep, PostTake, PostEnd, PostSkip, PostDone, PostFails,
           PostRefused, GetTake, GetLook, GetRemove, GetLock, GetAnswered, GetFails, Fails
    <2>3. /\ \A m \in Node : alive[m]
          /\ Has(Origin)
          /\ \A p \in Peers[Origin] \ {Origin} : Provided(p)
        BY <2>2 DEF MigrationInv
    <2>4. \A p \in Peers[Origin] \ {Origin} : Provided(p)'
        BY <1>4, <2>1, <2>3, ThreadProvides
    <2>5. alive' = alive
        BY <1>4 DEF ThreadStep, PostTake, PostEnd, PostSkip, PostDone, PostFails,
           PostRefused, GetTake, GetLook, GetRemove, GetLock, GetAnswered, GetFails
    <2>6. SafeInv'
        BY NextSafe
    <2>7. Has(Origin)'
        BY <2>3, <2>6 DEF SafeInv, OriginInv, Original, Has
    <2> QED
        BY <2>3, <2>4, <2>5, <2>7 DEF MigrationInv
<1> QED
    BY <1>1, <1>2, <1>3, <1>4, NextSteps

(* A migration from the node with the newest version, begun when nothing    *)
(* was going on and met by no failure, has brought it to every peer when    *)
(* nothing is going on any more, for every group, list of peers, number of  *)
(* workers and of migrations, and whatever earlier ones have left.          *)
THEOREM MigrationCorrect == OriginIsNewest => (Spec => []MigrationRepairs)
<1> SUFFICES ASSUME OriginIsNewest PROVE Spec => []MigrationRepairs
    OBVIOUS
<1>1. TypeOK /\ SafeInv /\ MigrationInv => MigrationRepairs
    <2> SUFFICES ASSUME SafeInv, MigrationInv, clean, Quiet, NEW p \in Peers[Origin]
                 PROVE  file[p].version = file[Origin].version
        BY DEF MigrationRepairs
    <2>1. file[Origin].version = Copies[Origin] /\ p \in Node
        BY DEF SafeInv, OriginInv, Original
    <2>2. ~ OnItsWay(p)
        BY <2>1 DEF Quiet, OnItsWay, ToPost, Posted, ToFetch, Fetched, FetchState, Thread
    <2> QED
        BY <2>1, <2>2 DEF MigrationInv, Provided
<1>2. Init => SafeInv /\ MigrationInv
    BY InitMove DEF MoveInv, SafeInv
<1> QED
    BY <1>1, <1>2, InitTypeOK, NextTypeOK, NextSafe, NextMigration, PTL DEF Spec
=============================================================================
