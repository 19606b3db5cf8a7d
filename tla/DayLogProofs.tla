--------------------------- MODULE DayLogProofs ---------------------------
(***************************************************************************)
(* The day's file count in memory is the one in stat.json, and at a node   *)
(* without peers both are trusted, for any files, handlers, recounts and   *)
(* crashes.  (A node that posts saves a FileInfo from the post's goroutine *)
(* too, and counts nothing then.)  And where names are drawn, the index of *)
(* such a node leads to what it names.                                     *)
(***************************************************************************)
EXTENDS DayLog, LocalStoreProofs, FiniteSetTheorems

USE FlagAssumption, BoundAssumption, LogAssumption, NoneAssumption, KeyAssumption,
    DayAssumption, TornAssumption

(* The files.md5 entries of logDB once the entry that has been counted is   *)
(* saved.                                                                   *)
Pending ==
    IF ~ counted THEN logFiles
    ELSE IF Head(fileLog).kind = "files" THEN logFiles \cup {Head(fileLog).info.md5}
    ELSE logFiles \ {Head(fileLog).info.md5}

Covers(n) == n >= Cardinality(Pending)

(* What ldb has is in logDB; so an entry that is not counted adds nothing.  *)
LogInv ==
    /\ posting = {} /\ sent = {}
    /\ \A f \in File : ldb[f] # None => f \in logFiles

(* A file that nothing disturbed is whole, and has the count, but for the   *)
(* one that a recount has put and is about to write.                        *)
IsCount(json, n) == json = n \/ (json = None /\ n = 0)

FileInv ==
    /\ ~ stale => statJson # Torn
    /\ ~ stale /\ recount.pc # "write" => IsCount(statJson, count)
    /\ recount.clean /\ recount.pc = "write" => count = recount.n

(* Counts that nothing disturbed cover the log, the one in hand included.   *)
CountInv ==
    /\ ~ stale => Covers(count) /\ (statJson # None => Covers(statJson))
    /\ recount.clean /\ recount.pc # "idle" => Covers(recount.n)

RecountType == [pc : {"idle", "put", "write"}, n : Nat, clean : BOOLEAN]

(* The types beyond those of the store. *)
DayTypes ==
    /\ statJson \in Int \cup {None, Torn}
    /\ recount \in RecountType
    /\ stale \in BOOLEAN
    /\ recounts \in 0..MaxRecounts /\ crashes \in 0..MaxCrashes

TypeInv == StoreInv /\ DayTypes /\ IsFiniteSet(logFiles)

(* The inductive invariant of a node without peers. *)
DayInv == TypeInv /\ FileInv /\ LogInv /\ CountInv

-----------------------------------------------------------------------------
(* The counted set is finite, and each entry is one more or less.           *)
LEMMA PendingIsFinite ==
    ASSUME TypeInv
    PROVE  IsFiniteSet(Pending) /\ Cardinality(Pending) \in Nat
           /\ Cardinality(logFiles) \in Nat
  <1>1. IsFiniteSet(logFiles)
    BY DEF TypeInv
  <1>2. \A f : IsFiniteSet(logFiles \cup {f}) /\ IsFiniteSet(logFiles \ {f})
    BY <1>1, FS_AddElement, FS_RemoveElement
  <1>3. IsFiniteSet(Pending)
    BY <1>1, <1>2 DEF Pending
  <1> QED
    BY <1>1, <1>3, FS_CardinalityType

(* Steps that leave the log's first entry, what is counted and logDB alone. *)
LEMMA PendingStays ==
    ASSUME StoreInv, counted' = counted, logFiles' = logFiles,
           counted => Head(fileLog') = Head(fileLog)
    PROVE  Pending' = Pending
  BY DEF Pending

(* What the handlers and peers do to the log, to ldb and to logDB.          *)
LEMMA HandlerStep ==
    ASSUME StoreInv, LogInv, HasPeers = FALSE,
           \/ \E u \in Uploader : \/ \E f \in File, n \in Name : UploadStart(u, f, n)
                                  \/ UploadStep(u)
           \/ \E d \in Deleter : \/ \E k \in Key : RemoveLookup(d, k)
                                 \/ RemoveLog(d)
                                 \/ RemoveUnlink(d)
           \/ \E f \in File : CheckFileExist(f)
           \/ \E info \in Info : PostSend(info) \/ PostSave(info)
           \/ UNCHANGED vars
    PROVE  /\ counted' = counted /\ count' = count /\ logFiles' = logFiles
           /\ counted => Head(fileLog') = Head(fileLog)
           /\ \A f \in File : ldb'[f] # None => ldb[f] # None
           /\ posting' = {} /\ sent' = {}
  <1> DEFINE G == /\ counted' = counted /\ count' = count /\ logFiles' = logFiles
                  /\ counted => Head(fileLog') = Head(fileLog)
                  /\ \A f \in File : ldb'[f] # None => ldb[f] # None
                  /\ posting' = {} /\ sent' = {}
  <1>1. ASSUME NEW u \in Uploader, NEW f \in File, NEW n \in Name, UploadStart(u, f, n)
        PROVE  G
    BY <1>1 DEF UploadStart, UploadChoose, store, stat, LogInv
  <1>2. ASSUME NEW u \in Uploader, UploadWrite(u) \/ UploadSum(u) \/ UploadFinish(u)
        PROVE  G
    BY <1>2 DEF UploadWrite, UploadSum, UploadFinish, store, stat, LogInv
  <1>3. ASSUME NEW u \in Uploader, UploadLog(u)
        PROVE  G
    <2>1. upload[u].md5 \in File /\ Recorded(upload[u]) \in Path
      BY <1>3 DEF UploadLog, Recorded, JobInv, StoreInv, TypeOK, UploadState
    <2>2. PICK info \in Info : info = [md5 |-> upload[u].md5, path |-> Recorded(upload[u])]
      BY <2>1, InfoParts
    <2>3. counted => Head(fileLog') = Head(fileLog)
      BY <1>3, <2>2, LogGrows DEF UploadLog, StoreInv
    <2> QED
      BY <1>3, <2>3 DEF UploadLog, store, stat, LogInv
  <1>4. ASSUME NEW d \in Deleter, NEW k \in Key, RemoveLookup(d, k)
        PROVE  G
    BY <1>4 DEF RemoveLookup, store, stat, LogInv
  <1>5. ASSUME NEW d \in Deleter, RemoveLog(d)
        PROVE  G
    <2>1. PICK info \in Info : info = remove[d].info
      BY <1>5 DEF RemoveLog, RemoveInv, StoreInv
    <2>2. counted => Head(fileLog') = Head(fileLog)
      BY <1>5, <2>1, LogGrows DEF RemoveLog, StoreInv
    <2> QED
      BY <1>5, <2>2 DEF RemoveLog, store, stat, LogInv
  <1>6. ASSUME NEW d \in Deleter, RemoveUnlink(d)
        PROVE  G
    BY <1>6 DEF RemoveUnlink, stat, LogInv
  <1>7. ASSUME NEW f \in File, CheckFileExist(f)
        PROVE  G
    BY <1>7 DEF CheckFileExist, Key, stat, LogInv, StoreInv, TypeOK
  <1>8. ASSUME NEW info \in Info, PostSend(info) \/ PostSave(info)
        PROVE  G
    BY <1>8 DEF PostSend, PostSave, LogInv
  <1>9. CASE UNCHANGED vars
    BY <1>9 DEF vars, store, stat, LogInv
  <1> QED
    BY <1>1, <1>2, <1>3, <1>4, <1>5, <1>6, <1>7, <1>8, <1>9 DEF UploadStep

(* The first entry of the log, and what saving it does to ldb's md5s.       *)
LEMMA FirstEntry ==
    ASSUME StoreInv, fileLog # <<>>
    PROVE  /\ Head(fileLog).kind \in {"files", "removes"}
           /\ Head(fileLog).info \in Info
           /\ Head(fileLog).info.md5 \in File
           /\ \A f \in File : f # Head(fileLog).info.md5 =>
                 /\ Saved(Head(fileLog).info)[f] = ldb[f]
                 /\ Forgotten(Head(fileLog).info)[f] = ldb[f]
           /\ Forgotten(Head(fileLog).info)[Head(fileLog).info.md5] = None
  <1>1. fileLog \in Seq(Log)
    BY DEF StoreInv, TypeOK, Log
  <1>2. PICK e \in Log : e = Head(fileLog)
    BY <1>1, LogParts
  <1>3. e.kind \in {"files", "removes"} /\ e.info \in Info
    BY <1>2 DEF Log
  <1>4. PICK info \in Info : info = e.info
    BY <1>3
  <1>5. info.md5 \in File /\ info.path \in Path /\ info.md5 \in Key /\ info.path \in Key
    BY InfoParts
  <1>6. info.path \notin File /\ info.path # info.md5
    BY <1>5
  <1>7. ldb \in [Key -> Info \cup {None}] /\ File \subseteq Key
    BY DEF StoreInv, TypeOK, Key
  <1>8. /\ \A f \in File : f # info.md5 => Saved(info)[f] = ldb[f] /\ Forgotten(info)[f] = ldb[f]
        /\ Forgotten(info)[info.md5] = None
    BY <1>5, <1>6, <1>7 DEF Saved, Forgotten
  <1> QED
    BY <1>2, <1>3, <1>4, <1>5, <1>8


-----------------------------------------------------------------------------
(* Counting an entry: the count moves with what logDB will have.            *)
LEMMA CountStep ==
    ASSUME TypeInv, LogInv, CountLog
    PROVE  /\ LogInv'
           /\ Covers(count) => Covers(count)'
           /\ \A n \in Int : count' = count /\ Covers(n) => Covers(n)'
  <1> USE DEF TypeInv
  <1>1. /\ fileLog # <<>> /\ ~ counted /\ counted' = TRUE
        /\ count' = IF Head(fileLog).kind = "files"
                    THEN count + CountedNew(Head(fileLog).info.md5)
                    ELSE count - CountedGone(Head(fileLog).info.md5)
        /\ UNCHANGED <<ldb, logFiles, fileLog, posting, sent>>
    BY DEF CountLog
  <1>2. LogInv'
    BY <1>1 DEF LogInv
  <1>3. PICK f \in File : f = Head(fileLog).info.md5
    BY <1>1, FirstEntry
  <1>4. Pending = logFiles /\ Cardinality(logFiles) \in Nat /\ count \in Int
    BY <1>1, PendingIsFinite DEF Pending, StoreInv, TypeOK
  <1>5. Cardinality(Pending') \in Nat
    <2>1. Pending' = logFiles \cup {f} \/ Pending' = logFiles \ {f}
      BY <1>1, <1>3 DEF Pending
    <2>2. IsFiniteSet(logFiles)
      OBVIOUS
    <2> QED
      BY <2>1, <2>2, FS_AddElement, FS_RemoveElement, FS_CardinalityType
  <1>6. \/ /\ Cardinality(Pending') <= Cardinality(logFiles) + 1
           /\ count' = count + 1
        \/ /\ Cardinality(Pending') <= Cardinality(logFiles)
           /\ count' = count
        \/ /\ Cardinality(Pending') = Cardinality(logFiles) - 1
           /\ count' = count - 1
    <2>1. IsFiniteSet(logFiles)
      OBVIOUS
    <2>2. /\ Cardinality(logFiles \cup {f}) \in {Cardinality(logFiles), Cardinality(logFiles) + 1}
          /\ Cardinality(logFiles \ {f}) =
                IF f \in logFiles THEN Cardinality(logFiles) - 1 ELSE Cardinality(logFiles)
      BY <2>1, FS_AddElement, FS_RemoveElement
    <2>3. CASE Head(fileLog).kind = "files"
      <3>1. Pending' = logFiles \cup {f}
        BY <1>1, <1>3, <2>3 DEF Pending
      <3>2. CASE ldb[f] = None
        <4>1. count' = count + 1
          BY <1>1, <1>3, <2>3, <3>2 DEF CountedNew
        <4> QED
          BY <1>4, <2>2, <3>1, <4>1
      <3>3. CASE ldb[f] # None
        <4>1. Pending' = logFiles
          BY <3>1, <3>3 DEF LogInv
        <4> QED
          BY <1>1, <1>3, <1>4, <2>3, <3>3, <4>1 DEF CountedNew
      <3> QED
        BY <3>2, <3>3
    <2>4. CASE Head(fileLog).kind # "files"
      <3>1. Pending' = logFiles \ {f}
        BY <1>1, <1>3, <2>4 DEF Pending
      <3>2. CASE ldb[f] # None
        <4>1. f \in logFiles
          BY <3>2 DEF LogInv
        <4>2. count' = count - 1
          BY <1>1, <1>3, <2>4, <3>2 DEF CountedGone
        <4> QED
          BY <1>4, <2>2, <3>1, <4>1, <4>2
      <3>3. CASE ldb[f] = None
        <4>1. Cardinality(logFiles \ {f}) <= Cardinality(logFiles)
          BY <1>4, <2>2
        <4>2. count' = count
          BY <1>1, <1>3, <1>4, <2>4, <3>3 DEF CountedGone
        <4> QED
          BY <3>1, <4>1, <4>2
      <3> QED
        BY <3>2, <3>3
    <2> QED
      BY <2>3, <2>4
  <1>7. Covers(count) => Covers(count)'
    BY <1>4, <1>5, <1>6 DEF Covers
  <1>8. ASSUME NEW n \in Int, count' = count, Covers(n)
        PROVE  Covers(n)'
    BY <1>4, <1>5, <1>6, <1>8 DEF Covers
  <1> QED
    BY <1>2, <1>7, <1>8

(* Saving an entry: logDB has what was pending.                             *)
LEMMA SaveStep ==
    ASSUME TypeInv, LogInv, SaveLog
    PROVE  LogInv' /\ Pending' = Pending /\ count' = count
  <1> USE DEF TypeInv
  <1>1. /\ counted /\ counted' = FALSE /\ fileLog # <<>>
        /\ UNCHANGED <<count, posting, sent>>
    BY DEF SaveLog, StoreInv
  <1>2. PICK f \in File : f = Head(fileLog).info.md5
    BY <1>1, FirstEntry
  <1>3. Pending' = Pending /\ logFiles' = Pending
    BY <1>1, <1>2 DEF SaveLog, Pending
  <1>5. \A g \in File : ldb'[g] # None => g \in logFiles'
    <2>1. CASE Head(fileLog).kind = "files" /\ ldb' = Saved(Head(fileLog).info)
      BY <1>1, <1>2, <1>3, <2>1, FirstEntry DEF Pending, LogInv
    <2>2. CASE Head(fileLog).kind = "removes" /\ ldb' = Forgotten(Head(fileLog).info)
      BY <1>1, <1>2, <1>3, <2>2, FirstEntry DEF Pending, LogInv
    <2> QED
      BY <2>1, <2>2 DEF SaveLog
  <1> QED
    BY <1>1, <1>3, <1>5 DEF LogInv

(* Any step of the store.                                                   *)
LEMMA NextCount ==
    ASSUME TypeInv, LogInv, HasPeers = FALSE, Next \/ UNCHANGED vars
    PROVE  /\ LogInv'
           /\ Covers(count) => Covers(count)'
           /\ \A n \in Int : count' = count /\ Covers(n) => Covers(n)'
  <1>1. CASE CountLog
    BY <1>1, CountStep
  <1>2. CASE SaveLog
    BY <1>2, SaveStep DEF Covers
  <1>3. CASE ~ (CountLog \/ SaveLog)
    <2>1. /\ counted' = counted /\ count' = count /\ logFiles' = logFiles
          /\ counted => Head(fileLog') = Head(fileLog)
          /\ \A f \in File : ldb'[f] # None => ldb[f] # None
          /\ posting' = {} /\ sent' = {}
      BY <1>3, HandlerStep DEF Next, OtherStep, TypeInv
    <2>2. Pending' = Pending
      BY <2>1, PendingStays DEF TypeInv
    <2> QED
      BY <2>1, <2>2 DEF LogInv, Covers
  <1> QED
    BY <1>1, <1>2, <1>3

-----------------------------------------------------------------------------
(* No recount is a state of repairStatByDate.                               *)
LEMMA NoRecountType == NoRecount \in RecountType /\ NoRecount.pc = "idle"
  BY DEF NoRecount, RecountType

(* Initially there is no stat.json ...                                      *)
LEMMA InitTypeInv == DayInit => TypeInv
  <1> SUFFICES ASSUME DayInit PROVE TypeInv
    OBVIOUS
  <1>1. StoreInv
    BY InitStoreInv DEF DayInit
  <1>2. DayTypes
    <2>1. recount \in RecountType
      BY NoRecountType DEF DayInit
    <2>2. stale \in BOOLEAN
      BY DEF DayInit
    <2>3. statJson \in Int \cup {None, Torn}
      BY DEF DayInit
    <2>4. recounts \in 0..MaxRecounts /\ crashes \in 0..MaxCrashes
      BY DEF DayInit
    <2> QED
      BY <2>1, <2>2, <2>3, <2>4 DEF DayTypes
  <1>3. IsFiniteSet(logFiles)
    BY FS_EmptySet DEF DayInit, Init
  <1> QED
    BY <1>1, <1>2, <1>3 DEF TypeInv

(* ... and nothing is counted.                                              *)
LEMMA InitDayInv == DayInit => DayInv
  <1> SUFFICES ASSUME DayInit PROVE DayInv
    OBVIOUS
  <1>1. LogInv
    BY DEF DayInit, Init, LogInv, Key
  <1>2. Pending = {} /\ count = 0
    BY DEF DayInit, Init, Pending
  <1>3. Covers(count)
    BY <1>2, FS_EmptySet DEF Covers
  <1>4. FileInv /\ CountInv
    BY <1>2, <1>3 DEF DayInit, FileInv, IsCount, CountInv, NoRecount
  <1> QED
    BY <1>1, <1>4, InitTypeInv DEF DayInv

(* logDB's keys stay finitely many: a step changes one.                     *)
LEMMA FiniteStays ==
    ASSUME IsFiniteSet(logFiles), Next \/ UNCHANGED vars \/ Interrupted
    PROVE  IsFiniteSet(logFiles')
  <1>1. \/ logFiles' = logFiles
        \/ \E f : logFiles' = logFiles \cup {f} \/ logFiles' = logFiles \ {f}
    <2>1. ASSUME NEW u \in Uploader,
                 (\E f \in File, n \in Name : UploadStart(u, f, n)) \/ UploadStep(u)
          PROVE  logFiles' = logFiles
      <3>1. ASSUME NEW f \in File, NEW n \in Name, UploadStart(u, f, n)
            PROVE  logFiles' = logFiles
        BY <3>1 DEF UploadStart, UploadChoose, store
      <3>2. CASE UploadWrite(u) \/ UploadSum(u)
        BY <3>2 DEF UploadWrite, UploadSum, store
      <3>3. CASE UploadFinish(u) \/ UploadLog(u)
        BY <3>3 DEF UploadFinish, UploadLog, store
      <3> QED
        BY <2>1, <3>1, <3>2, <3>3 DEF UploadStep
    <2>2. ASSUME NEW d \in Deleter,
                 \/ \E k \in Key : RemoveLookup(d, k)
                 \/ RemoveLog(d)
                 \/ RemoveUnlink(d)
          PROVE  logFiles' = logFiles
      BY <2>2 DEF RemoveLookup, RemoveLog, RemoveUnlink, store
    <2>3. CASE CountLog \/ SaveLog
      BY <2>3 DEF CountLog, SaveLog
    <2>4. CASE \/ \E f \in File : CheckFileExist(f)
               \/ \E info \in Info : PostSend(info) \/ PostSave(info)
      BY <2>4 DEF CheckFileExist, PostSend, PostSave, store
    <2>5. CASE UNCHANGED vars \/ Interrupted
      BY <2>5 DEF vars, store, Interrupted
    <2> QED
      BY <2>1, <2>2, <2>3, <2>4, <2>5 DEF Next, OtherStep
  <1> QED
    BY <1>1, FS_AddElement, FS_RemoveElement

(* What the counting and the writing of stat.json leave in the model's      *)
(* state is of its type ...                                                 *)
LEMMA RecountTypes ==
    ASSUME TypeInv, StoreStep \/ RecountScan \/ RecountPut \/ RecountWrite
    PROVE  TypeInv'
  <1> USE DEF TypeInv
  <1>1. count \in Int /\ recount \in RecountType /\ Cardinality(logFiles) \in Nat
    BY PendingIsFinite DEF DayTypes, StoreInv, TypeOK
  <1>2. CASE StoreStep
    <2>1. StoreInv' /\ IsFiniteSet(logFiles')
      BY <1>2, NextStoreInv, FiniteStays DEF StoreStep
    <2>2. count' \in Int
      BY <2>1 DEF StoreInv, TypeOK
    <2>3. PICK c \in BOOLEAN : recount' = [recount EXCEPT !.clean = c]
      BY <1>2 DEF StoreStep
    <2>4. recount' \in RecountType
      BY <1>1, <2>3 DEF RecountType
    <2> QED
      BY <1>2, <2>1, <2>2, <2>4 DEF StoreStep, SavedStat, DayTypes
  <1>3. CASE RecountScan
    <2>1. PICK c \in BOOLEAN : c = ~ counted
      OBVIOUS
    <2>2. [pc |-> "put", n |-> Cardinality(logFiles), clean |-> c] \in RecountType
      BY <1>1 DEF RecountType
    <2>3. recount' \in RecountType
      BY <1>3, <2>1, <2>2 DEF RecountScan, Entries
    <2>4. StoreInv' /\ logFiles' = logFiles
      BY <1>3, StoreStays DEF RecountScan, vars, store
    <2> QED
      BY <1>3, <2>3, <2>4 DEF RecountScan, DayTypes
  <1>4. CASE RecountPut
    <2>1. count' \in Int /\ recount' \in RecountType
      BY <1>1, <1>4 DEF RecountPut, RecountType
    <2>2. StoreInv' /\ logFiles' = logFiles
      BY <1>4, <2>1 DEF RecountPut, StoreInv, TypeOK
    <2>3. stale' \in BOOLEAN
      BY <1>4 DEF RecountPut
    <2> QED
      BY <1>4, <2>1, <2>2, <2>3 DEF RecountPut, DayTypes
  <1>5. CASE RecountWrite
    <2>1. statJson' \in Int
      BY <1>1, <1>5 DEF RecountWrite, RecountType
    <2>2. StoreInv' /\ logFiles' = logFiles
      BY <1>5, StoreStays DEF RecountWrite, vars, store
    <2>3. stale' \in BOOLEAN
      BY <1>5 DEF RecountWrite
    <2>4. recount' \in RecountType
      BY <1>5, NoRecountType DEF RecountWrite
    <2> QED
      BY <1>5, <2>1, <2>2, <2>3, <2>4 DEF RecountWrite, DayTypes
  <1> QED
    BY <1>2, <1>3, <1>4, <1>5

(* ... and what a crash and the next start leave.                           *)
LEMMA CrashTypes ==
    ASSUME TypeInv, Crash
    PROVE  TypeInv' /\ Cardinality(logFiles') \in Nat
  <1> USE DEF TypeInv
  <1>1. /\ counted' = FALSE /\ fileLog' = <<>> /\ posting' = {} /\ sent' = {}
        /\ recount' = NoRecount /\ crashes' = crashes + 1 /\ crashes < MaxCrashes
        /\ UNCHANGED <<disk, uploads, drawn, answered, recounts>>
        /\ upload' = [u \in Uploader |-> NoUpload] /\ remove' = [d \in Deleter |-> NoRemove]
    BY DEF Crash
  <1>2. ldb' \in [Key -> Info \cup {None}] /\ logFiles' \subseteq File
    <2>1. ldb \in [Key -> Info \cup {None}] /\ logFiles \subseteq File
      BY DEF StoreInv, TypeOK
    <2>2. CASE UNCHANGED <<ldb, logFiles>>
      BY <2>1, <2>2
    <2>3. CASE counted
      <3>1. PICK info \in Info : info = Head(fileLog).info
        BY <2>3, FirstEntry DEF StoreInv
      <3>2. info.md5 \in File /\ info.md5 \in Key /\ info.path \in Key
        BY InfoParts
      <3>3. Forgotten(info) \in [Key -> Info \cup {None}]
        BY <2>1 DEF Forgotten
      <3>4. /\ \/ logFiles' = logFiles
               \/ logFiles' = logFiles \cup {info.md5}
            /\ ldb' \in {ldb, [ldb EXCEPT ![info.md5] = info],
                         [ldb EXCEPT ![info.md5] = None], Forgotten(info)}
        BY <3>1 DEF Crash, Interrupted
      <3> QED
        BY <2>1, <3>2, <3>3, <3>4
    <2> QED
      BY <2>2, <2>3 DEF Crash, Interrupted
  <1>3. IsFiniteSet(logFiles') /\ Cardinality(logFiles') \in Nat
    BY FiniteStays, FS_CardinalityType DEF Crash
  <1>4. count' \in Int /\ statJson' \in Int \cup {None, Torn}
    <2>1. PICK n \in Nat : n = Cardinality(logFiles')
      BY <1>3
    <2>2. statJson \in Int \cup {None, Torn}
      BY DEF DayTypes
    <2>3. \/ statJson' = (IF statJson = None THEN n ELSE statJson)
             /\ count' = (IF statJson = Torn THEN 0 ELSE statJson')
          \/ statJson' = Torn /\ count' = 0
      BY <2>1 DEF Crash
    <2> QED
      BY <2>2, <2>3
  <1>5. StoreInv'
    <2>1. /\ upload' \in [Uploader -> UploadState] /\ \A u \in Uploader : JobInv(upload'[u])
          /\ remove' \in [Deleter -> RemoveState] /\ \A d \in Deleter : RemoveInv(remove'[d])
      BY <1>1, IdleType
    <2>2. counted' \in BOOLEAN /\ ~ counted'
      BY <1>1
    <2>3. fileLog' \in Seq(Log)
      <3>1. <<>> \in Seq(Log)
        OBVIOUS
      <3> QED
        BY <1>1, <3>1
    <2>4. posting' \subseteq Info /\ sent' \subseteq Info
      BY <1>1
    <2>5. disk' \in [Path -> File \cup {None}] /\ uploads' \in 0..MaxUploads
          /\ drawn' \subseteq Unique \ Sums /\ answered' \subseteq File
      BY <1>1 DEF StoreInv, TypeOK
    <2> QED
      BY <1>2, <1>4, <2>1, <2>2, <2>3, <2>4, <2>5 DEF StoreInv, TypeOK, Log
  <1>6. DayTypes'
    <2>1. stale' \in BOOLEAN
      BY DEF Crash
    <2> QED
      BY <1>1, <1>4, <2>1, NoRecountType DEF DayTypes
  <1> QED
    BY <1>3, <1>5, <1>6

(* Every step keeps the types. *)
LEMMA NextTypeInv ==
    ASSUME TypeInv, [DayNext]_<<vars, day>>
    PROVE  TypeInv'
  <1>1. CASE UNCHANGED <<vars, day>>
    <2>1. StoreInv'
      BY <1>1, StoreStays DEF TypeInv
    <2> QED
      BY <1>1, <2>1 DEF TypeInv, DayTypes, vars, store, day
  <1> QED
    BY <1>1, RecountTypes, CrashTypes DEF DayNext

(* The day's state is well typed: stat.json is a number, absent, or half    *)
(* written, and a recount has counted.                                      *)
THEOREM DayTypeCorrect == DaySpec => []DayTypeOK
  <1>1. TypeInv => DayTypeOK
    BY DEF TypeInv, StoreInv, DayTypes, RecountType, DayTypeOK
  <1>2. TypeInv /\ [DayNext]_<<vars, day>> => TypeInv'
    BY NextTypeInv
  <1> QED
    BY <1>1, <1>2, InitTypeInv, PTL DEF DaySpec

-----------------------------------------------------------------------------
(* A recount goes on where a step of the store finds it, and is clean only  *)
(* if that counts nothing.                                                  *)
LEMMA StoreStepRecount ==
    ASSUME TypeInv, StoreStep
    PROVE  /\ recount'.pc = recount.pc /\ recount'.n = recount.n
           /\ recount'.clean => recount.clean /\ count' = count
  <1>1. recount \in RecountType
    BY DEF TypeInv, DayTypes
  <1>2. PICK c \in BOOLEAN : /\ c = (recount.clean /\ UNCHANGED <<count, logFiles>>)
                             /\ recount' = [recount EXCEPT !.clean = c]
    BY DEF StoreStep
  <1> QED
    BY <1>1, <1>2 DEF RecountType

(* Nothing needs to be known of the store for the file to have its count.   *)
LEMMA NextFileInv ==
    ASSUME TypeInv, TypeInv', FileInv, [DayNext]_<<vars, day>>
    PROVE  FileInv'
  <1>1. /\ recount \in RecountType /\ recount' \in RecountType
        /\ count \in Int /\ count' \in Int
        /\ \A n \in Int : n # Torn
    BY DEF TypeInv, DayTypes, StoreInv, TypeOK
  <1>2. CASE StoreStep
    <2>1. statJson' = (IF count' # count THEN count' ELSE statJson) /\ stale' = stale
      BY <1>2 DEF StoreStep, SavedStat
    <2> QED
      BY <1>1, <1>2, <2>1, StoreStepRecount DEF FileInv, IsCount
  <1>3. CASE RecountScan
    <2>1. recount.pc = "idle" /\ recount'.pc = "put"
          /\ count' = count /\ statJson' = statJson /\ stale' = stale
      BY <1>3 DEF RecountScan, vars, store, stat
    <2> QED
      BY <2>1 DEF FileInv, IsCount
  <1>4. CASE RecountPut
    <2>1. recount'.pc = "write" /\ recount'.n = recount.n
      BY <1>1, <1>4 DEF RecountPut, RecountType
    <2> QED
      BY <1>4, <2>1 DEF RecountPut, FileInv
  <1>5. CASE RecountWrite
    <2>1. /\ recount.n \in Int /\ recount.pc = "write" /\ recount'.pc = "idle"
          /\ statJson' = recount.n /\ count' = count /\ stale' = ~ recount.clean
      BY <1>1, <1>5, NoRecountType DEF RecountType, RecountWrite, vars, store, stat
    <2> QED
      BY <1>1, <2>1 DEF FileInv, IsCount
  <1>6. CASE Crash
    <2>1. recount'.pc = "idle"
      BY <1>6, NoRecountType DEF Crash
    <2>2. ASSUME ~ stale' PROVE statJson' # Torn /\ statJson' = count'
      <3>1. /\ statJson' = IF statJson = None THEN Cardinality(logFiles') ELSE statJson
            /\ count' = IF statJson = Torn THEN 0 ELSE statJson'
            /\ ~ stale
        BY <1>6, <2>2 DEF Crash
      <3>2. statJson # Torn
        BY <3>1 DEF FileInv
      <3> QED
        BY <1>1, <3>1, <3>2
    <2> QED
      BY <2>1, <2>2 DEF FileInv, IsCount
  <1>7. CASE UNCHANGED <<vars, day>>
    BY <1>7 DEF FileInv, IsCount, vars, store, stat, day
  <1> QED
    BY <1>2, <1>3, <1>4, <1>5, <1>6, <1>7 DEF DayNext

(* stat.json, which the next start reads, has the count that is in memory,  *)
(* with peers or without, except after a recount that was disturbed, a      *)
(* crash amid a delete's count or amid the writing of the file.             *)
THEOREM StatFileCorrect == DaySpec => []StatFileIsCount
  <1>1. FileInv => StatFileIsCount
    BY DEF FileInv, IsCount, StatFileIsCount
  <1>2. DayInit => FileInv
    BY NoRecountType DEF DayInit, FileInv, IsCount, Init, stat
  <1>3. TypeInv /\ TypeInv' /\ FileInv /\ [DayNext]_<<vars, day>> => FileInv'
    BY NextFileInv
  <1>4. TypeInv /\ [DayNext]_<<vars, day>> => TypeInv'
    BY NextTypeInv
  <1> QED
    BY <1>1, <1>2, <1>3, <1>4, InitTypeInv, PTL DEF DaySpec

-----------------------------------------------------------------------------
(* A step of the store, with what saveStat writes.                          *)
LEMMA StoreStepDay ==
    ASSUME DayInv, TypeInv', FileInv', HasPeers = FALSE, StoreStep
    PROVE  DayInv'
  <1>1. /\ LogInv'
        /\ Covers(count) => Covers(count)'
        /\ \A n \in Int : count' = count /\ Covers(n) => Covers(n)'
    BY NextCount DEF StoreStep, DayInv
  <1>2. count' \in Int /\ recount \in RecountType
    BY DEF DayInv, TypeInv, DayTypes, StoreInv, TypeOK
  <1>3. /\ recount'.pc = recount.pc /\ recount'.n = recount.n
        /\ recount'.clean => recount.clean /\ count' = count
    BY StoreStepRecount DEF DayInv
  <1>4. /\ statJson' = IF count' # count THEN count' ELSE statJson
        /\ stale' = stale
    BY DEF StoreStep, SavedStat
  <1>5. ASSUME ~ stale'
        PROVE  /\ Covers(count)'
               /\ statJson' # None => Covers(statJson)'
    <2>1. /\ Covers(count)'
          /\ statJson # None => statJson \in Int /\ Covers(statJson)
      BY <1>1, <1>4, <1>5 DEF DayInv, FileInv, CountInv, TypeInv, DayTypes
    <2>2. CASE count' # count
      <3>1. statJson' = count'
        BY <1>4, <2>2
      <3>2. Covers(statJson)'
        BY <2>1, <3>1 DEF Covers
      <3> QED
        BY <1>2, <2>1, <3>1, <3>2
    <2>3. CASE count' = count
      <3>1. statJson' = statJson
        BY <1>4, <2>3
      <3>2. statJson # None => Covers(statJson)'
        <4> SUFFICES ASSUME statJson # None PROVE Covers(statJson)'
          OBVIOUS
        <4>1. PICK n \in Int : n = statJson /\ n = statJson'
          BY <2>1, <3>1
        <4>2. Covers(n)'
          BY <1>1, <2>1, <2>3, <4>1
        <4> QED
          BY <4>1, <4>2 DEF Covers
      <3> QED
        BY <1>3, <2>1, <2>3, <3>1, <3>2
    <2> QED
      BY <2>2, <2>3
  <1>6. ASSUME recount'.clean, recount'.pc # "idle"
        PROVE  Covers(recount.n)'
    <2>1. Covers(recount.n) /\ count' = count
      BY <1>3, <1>6 DEF DayInv, CountInv
    <2>2. PICK n \in Int : n = recount.n /\ n = recount'.n
      BY <1>2, <1>3 DEF RecountType
    <2>3. Covers(n)'
      BY <1>1, <2>1, <2>2
    <2> QED
      BY <1>3, <2>1, <2>2, <2>3 DEF Covers
  <1> QED
    BY <1>1, <1>5, <1>6 DEF DayInv, CountInv

(* repairStatByDate counts the log ...                                      *)
LEMMA RecountScanDay ==
    ASSUME DayInv, TypeInv', FileInv', RecountScan
    PROVE  DayInv'
  <1>1. /\ LogInv' /\ Pending' = Pending
        /\ count' = count /\ statJson' = statJson /\ stale' = stale
    BY DEF RecountScan, DayInv, vars, store, stat, LogInv, Pending
  <1>2. Cardinality(logFiles) \in Nat /\ recount.pc = "idle"
    BY PendingIsFinite DEF DayInv, RecountScan
  <1>3. recount'.pc = "put" /\ recount'.n = Cardinality(logFiles) /\ (recount'.clean => ~ counted)
    BY DEF RecountScan, Entries
  <1>4. recount'.clean => recount'.n >= Cardinality(Pending)
    BY <1>2, <1>3 DEF Pending
  <1>5. CountInv'
    BY <1>1, <1>2, <1>3, <1>4 DEF DayInv, CountInv, Covers
  <1> QED
    BY <1>1, <1>5 DEF DayInv

(* ... puts the count ...                                                   *)
LEMMA RecountPutDay ==
    ASSUME DayInv, TypeInv', FileInv', RecountPut
    PROVE  DayInv'
  <1>1. recount \in RecountType /\ recount.pc = "put" /\ count' = recount.n
    BY DEF RecountPut, DayInv, TypeInv, DayTypes
  <1>2. LogInv' /\ Pending' = Pending /\ statJson' = statJson
        /\ stale' = (stale \/ ~ recount.clean)
    BY DEF RecountPut, DayInv, LogInv, Pending
  <1>3. PICK r \in RecountType : r = [recount EXCEPT !.pc = "write"] /\ recount' = r
    BY <1>1 DEF RecountPut, RecountType
  <1>4. r.pc = "write" /\ r.n = recount.n /\ r.clean = recount.clean
    BY <1>1, <1>3 DEF RecountType
  <1>5. CountInv'
    <2>1. recount.clean => Covers(recount.n)
      BY <1>1 DEF DayInv, CountInv
    <2>2. ~ stale' => ~ stale /\ recount.clean
      BY <1>2
    <2>3. ~ stale => (statJson # None => Covers(statJson))
      BY DEF DayInv, CountInv
    <2>4. Covers(recount.n) => Covers(count)' /\ Covers(recount.n)'
      BY <1>1, <1>2, <1>3, <1>4 DEF Covers
    <2>5. Covers(statJson) => Covers(statJson)'
      BY <1>2 DEF Covers
    <2> QED
      BY <1>1, <1>2, <1>3, <1>4, <2>1, <2>2, <2>3, <2>4, <2>5 DEF CountInv
  <1> QED
    BY <1>2, <1>5 DEF DayInv

(* ... and writes it.                                                       *)
LEMMA RecountWriteDay ==
    ASSUME DayInv, TypeInv', FileInv', RecountWrite
    PROVE  DayInv'
  <1>1. recount \in RecountType /\ recount.pc = "write" /\ statJson' = recount.n
        /\ stale' = ~ recount.clean /\ recount' = NoRecount
    BY DEF RecountWrite, DayInv, TypeInv, DayTypes
  <1>2. LogInv' /\ Pending' = Pending /\ count' = count
    BY DEF RecountWrite, DayInv, vars, store, stat, LogInv, Pending
  <1>3. recount.n \in Nat
    BY <1>1 DEF RecountType
  <1>4. CountInv'
    <2>1. ~ stale' => Covers(recount.n) /\ count = recount.n
      BY <1>1 DEF DayInv, FileInv, CountInv
    <2>2. ~ stale' => Covers(statJson)' /\ Covers(count)'
      BY <1>1, <1>2, <2>1 DEF Covers
    <2> QED
      BY <1>1, <1>2, <1>3, <2>1, <2>2, NoRecountType DEF CountInv
  <1> QED
    BY <1>2, <1>4 DEF DayInv

(* What a crash leaves of the entry in hand: no more than was pending,      *)
(* unless a delete was counted.                                             *)
LEMMA InterruptedLog ==
    ASSUME StoreInv, LogInv, Interrupted
    PROVE  /\ \A f \in File : ldb'[f] # None => f \in logFiles'
           /\ (counted /\ Head(fileLog).kind = "removes") \/ logFiles' \subseteq Pending
  <1>1. ldb \in [Key -> Info \cup {None}]
    BY DEF StoreInv, TypeOK
  <1>2. CASE UNCHANGED <<ldb, logFiles>>
    <2>1. counted => Head(fileLog).kind \in {"files", "removes"}
      BY FirstEntry DEF StoreInv
    <2> QED
      BY <1>1, <1>2, <2>1 DEF LogInv, Pending
  <1>3. CASE counted /\ ~ UNCHANGED <<ldb, logFiles>>
    <2>1. PICK info \in Info : info = Head(fileLog).info
      BY <1>3, FirstEntry DEF StoreInv
    <2>2. info.md5 \in File /\ info.path \in Path /\ info.md5 \in Key /\ info.path \in Key
          /\ info.path \notin File /\ File \subseteq Key
      BY InfoParts DEF Key
    <2>3. CASE /\ Head(fileLog).kind = "files"
               /\ logFiles' = logFiles \cup {info.md5}
               /\ ldb' \in {ldb, [ldb EXCEPT ![info.md5] = info]}
      <3>1. logFiles' = Pending
        BY <1>3, <2>1, <2>3 DEF Pending
      <3>2. \A f \in File : ldb'[f] # None => f \in logFiles'
        BY <1>1, <2>2, <2>3 DEF LogInv
      <3> QED
        BY <3>1, <3>2
    <2>4. CASE /\ Head(fileLog).kind = "removes"
               /\ logFiles' = logFiles
               /\ ldb' \in {[ldb EXCEPT ![info.md5] = None], Forgotten(info)}
      <3>1. \A f \in File : ldb'[f] # None => f \in logFiles'
        BY <1>1, <2>2, <2>4 DEF LogInv, Forgotten
      <3> QED
        BY <1>3, <2>4, <3>1
    <2> QED
      BY <1>3, <2>1, <2>3, <2>4 DEF Interrupted
  <1> QED
    BY <1>2, <1>3 DEF Interrupted

(* The process dies and reads stat.json back.                               *)
LEMMA CrashDay ==
    ASSUME DayInv, TypeInv', FileInv', Crash
    PROVE  DayInv'
  <1>1. /\ \A f \in File : ldb'[f] # None => f \in logFiles'
        /\ (counted /\ Head(fileLog).kind = "removes") \/ logFiles' \subseteq Pending
    BY InterruptedLog DEF Crash, DayInv, TypeInv
  <1>2. Cardinality(logFiles') \in Nat
    BY CrashTypes DEF DayInv
  <1>3. /\ ~ counted' /\ posting' = {} /\ sent' = {} /\ recount' = NoRecount
    BY DEF Crash
  <1>4. LogInv' /\ Pending' = logFiles'
    BY <1>1, <1>3 DEF LogInv, Pending
  <1>5. ASSUME ~ stale'
        PROVE  /\ Covers(count)'
               /\ statJson' \in Int /\ Covers(statJson)'
               /\ statJson' = count'
    <2>1. /\ statJson' = IF statJson = None THEN Cardinality(logFiles') ELSE statJson
          /\ count' = IF statJson = Torn THEN 0 ELSE statJson'
          /\ ~ stale /\ ~ (counted /\ Head(fileLog).kind = "removes")
      BY <1>5 DEF Crash
    <2>2. statJson # None => statJson \in Int /\ statJson >= Cardinality(Pending)
      BY <2>1 DEF DayInv, FileInv, CountInv, Covers, TypeInv, DayTypes
    <2>3. Cardinality(logFiles') <= Cardinality(Pending) /\ Cardinality(Pending) \in Nat
      BY <1>1, <2>1, PendingIsFinite, FS_Subset DEF DayInv
    <2>4. /\ statJson' \in Int /\ statJson' >= Cardinality(logFiles')
          /\ statJson' = count'
      BY <1>2, <2>1, <2>2, <2>3
    <2> QED
      BY <1>4, <2>4 DEF Covers
  <1>6. CountInv'
    BY <1>3, <1>5, NoRecountType DEF CountInv
  <1> QED
    BY <1>4, <1>6 DEF DayInv

(* Every step of a node without peers keeps the invariant.                  *)
LEMMA NextDayInv ==
    ASSUME HasPeers = FALSE, DayInv, [DayNext]_<<vars, day>>
    PROVE  DayInv'
  <1>1. TypeInv'
    BY NextTypeInv DEF DayInv
  <1>2. FileInv'
    BY <1>1, NextFileInv DEF DayInv
  <1>3. CASE UNCHANGED <<vars, day>>
    <2>1. LogInv' /\ Pending' = Pending
      BY <1>3 DEF DayInv, LogInv, Pending, vars, store, stat, day
    <2>2. CountInv'
      BY <1>3, <2>1 DEF DayInv, CountInv, Covers, vars, store, stat, day
    <2> QED
      BY <1>1, <1>2, <2>1, <2>2 DEF DayInv
  <1> QED
    BY <1>1, <1>2, <1>3, StoreStepDay, RecountScanDay, RecountPutDay, RecountWriteDay, CrashDay
       DEF DayNext

(* At a node without peers the count that autoRepair compares is below the  *)
(* number of the day's entries only after a recount that was disturbed, or  *)
(* a crash amid a delete's count or the writing of stat.json.               *)
THEOREM CountTrustedCorrect == HasPeers = FALSE => (DaySpec => []CountTrusted)
  <1> SUFFICES ASSUME HasPeers = FALSE PROVE DaySpec => []CountTrusted
    OBVIOUS
  <1>1. DayInv => CountTrusted
    BY DEF DayInv, CountInv, Covers, Pending, CountTrusted, CountNeverBelowLog
  <1>2. DayInv /\ [DayNext]_<<vars, day>> => DayInv'
    BY NextDayInv
  <1> QED
    BY <1>1, <1>2, InitDayInv, PTL DEF DaySpec

-----------------------------------------------------------------------------
(* QuietIndexSurvives, at a node that draws a new name for every upload     *)
(* (rename_file) and posts nothing: a name belongs to the upload that drew  *)
(* it, and then to the one FileInfo that it logs.                           *)
Renames == RenameFile = TRUE /\ HasPeers = FALSE

Drawn == {<<0, r>> : r \in drawn}
InUse(u) == upload[u].pc # "idle"

Owned(job) ==
    /\ job.path \in Drawn /\ job.rename = job.path
    /\ disk[job.path] = IF job.pc = "write" THEN None ELSE job.file
    /\ job.pc \in {"finish", "log"} => job.md5 = job.file

OwnInv ==
    /\ \A p \in Path : Exists(p) => p \in Drawn
    /\ \A u \in Uploader : InUse(u) => Owned(upload[u])
    /\ \A u, v \in Uploader :
          InUse(u) /\ InUse(v) /\ upload[u].path = upload[v].path => u = v

(* The FileInfos that ldb has, that deletes have, and that wait in the log. *)
InLog(log, kind) == {log[i].info : i \in {j \in 1..Len(log) : log[j].kind = kind}}
Logged(kind) == InLog(fileLog, kind)
Kept == {ldb[k] : k \in Key} \ {None}
Removing == {remove[d].info : d \in {e \in Deleter : remove[e].pc # "idle"}}
Removable == Kept \cup Removing \cup Logged("removes")
Known == Removable \cup Logged("files")

(* A FileInfo has its path alone, and what is there is its content.         *)
KnownInv ==
    /\ \A info \in Known : /\ info.path \in Drawn
                           /\ disk[info.path] \in {None, info.md5}
                           /\ \A u \in Uploader : InUse(u) => upload[u].path # info.path
    /\ \A x, y \in Known : x.path = y.path => x = y
    /\ \A k \in Key : ldb[k] # None => k \in {ldb[k].md5, ldb[k].path}

(* What waits to be saved is in no other place yet.                         *)
Once(log) == \A i, j \in 1..Len(log) : log[i].kind = "files" /\ log[i] = log[j] => i = j

FilesInv ==
    /\ Once(fileLog)
    /\ \A info \in Logged("files") : info \notin Removable /\ disk[info.path] = info.md5

IndexInv == posting = {} /\ sent = {} /\ OwnInv /\ KnownInv /\ FilesInv

(* What leads nowhere, or is about to, has a delete in the log.             *)
GoneInv ==
    /\ \A d \in Deleter : remove[d].pc = "unlink" /\ remove[d].info \in Kept =>
          remove[d].info \in Logged("removes")
    /\ \A info \in Kept : ~ Exists(info.path) => info \in Logged("removes")

-----------------------------------------------------------------------------
(* What an entry more, or less, is to the log.                              *)
LEMMA LogAdds ==
    ASSUME NEW log \in Seq(Log), NEW e \in Log
    PROVE  /\ \A kind : InLog(Append(log, e), kind) =
                 InLog(log, kind) \cup (IF e.kind = kind THEN {e.info} ELSE {})
           /\ Once(log) /\ (e.kind = "files" => e.info \notin InLog(log, "files")) =>
                 Once(Append(log, e))
  <1> DEFINE q == Append(log, e)
  <1>1. /\ Len(q) = Len(log) + 1 /\ Len(log) \in Nat
        /\ q[Len(log) + 1] = e /\ \A i \in 1..Len(log) : q[i] = log[i]
    OBVIOUS
  <1>2. ASSUME NEW kind
        PROVE  InLog(q, kind) = InLog(log, kind) \cup (IF e.kind = kind THEN {e.info} ELSE {})
    <2>1. \A i \in 1..Len(q) : i \in 1..Len(log) \/ i = Len(log) + 1
      BY <1>1
    <2>2. 1..Len(log) \subseteq 1..Len(q) /\ Len(log) + 1 \in 1..Len(q)
      BY <1>1
    <2> HIDE DEF q
    <2> QED
      BY <1>1, <2>1, <2>2 DEF InLog
  <1>3. ASSUME Once(log), e.kind = "files" => e.info \notin InLog(log, "files")
        PROVE  Once(q)
    <2> SUFFICES ASSUME NEW i \in 1..Len(q), NEW j \in 1..Len(q),
                        q[i].kind = "files", q[i] = q[j]
                 PROVE  i = j
      BY DEF Once
    <2>1. ASSUME NEW k \in 1..Len(log), q[k] = e, q[k].kind = "files" PROVE FALSE
      BY <1>1, <1>3, <2>1 DEF InLog
    <2> HIDE DEF q
    <2> QED
      BY <1>1, <1>3, <2>1 DEF Once
  <1> QED
    BY <1>2, <1>3

LEMMA LogTakes ==
    ASSUME NEW log \in Seq(Log), log # <<>>
    PROVE  /\ \A kind : InLog(log, kind) =
                 InLog(Tail(log), kind) \cup (IF Head(log).kind = kind THEN {Head(log).info}
                                                                      ELSE {})
           /\ Once(log) => /\ Once(Tail(log))
                           /\ Head(log).kind = "files" =>
                                 Head(log).info \notin InLog(Tail(log), "files")
  <1> DEFINE q == Tail(log)
  <1>1. /\ Len(q) = Len(log) - 1 /\ Len(log) \in Nat /\ Len(log) >= 1 /\ Head(log) = log[1]
        /\ \A i \in 1..Len(q) : q[i] = log[i + 1]
        /\ \A i \in 1..Len(log) : log[i] \in Log
    OBVIOUS
  <1>2. ASSUME NEW kind
        PROVE  InLog(log, kind) =
                 InLog(q, kind) \cup (IF Head(log).kind = kind THEN {Head(log).info} ELSE {})
    <2>1. \A i \in 1..Len(log) : i = 1 \/ (i - 1 \in 1..Len(q) /\ q[i - 1] = log[i])
      BY <1>1
    <2>2. \A i \in 1..Len(q) : i + 1 \in 1..Len(log)
      BY <1>1
    <2>3. 1 \in 1..Len(log)
      BY <1>1
    <2> HIDE DEF q
    <2> QED
      BY <1>1, <2>1, <2>2, <2>3 DEF InLog
  <1>3. ASSUME Once(log)
        PROVE  Once(q) /\ (Head(log).kind = "files" => Head(log).info \notin InLog(q, "files"))
    <2>1. Once(q)
      <3> SUFFICES ASSUME NEW i \in 1..Len(q), NEW j \in 1..Len(q),
                          q[i].kind = "files", q[i] = q[j]
                   PROVE  i = j
        BY DEF Once
      <3>1. i + 1 \in 1..Len(log) /\ j + 1 \in 1..Len(log)
            /\ log[i + 1] = q[i] /\ log[j + 1] = q[j]
        BY <1>1
      <3> QED
        BY <1>1, <1>3, <3>1 DEF Once
    <2>2. ASSUME Head(log).kind = "files", NEW j \in 1..Len(q), q[j].kind = "files",
                 q[j].info = Head(log).info
          PROVE  FALSE
      <3>1. /\ j + 1 \in 1..Len(log) /\ log[j + 1] = q[j] /\ 1 \in 1..Len(log)
            /\ log[1] \in Log /\ log[j + 1] \in Log
        BY <1>1
      <3>2. log[1] = log[j + 1]
        BY <1>1, <2>2, <3>1 DEF Log
      <3> QED
        BY <1>1, <1>3, <2>2, <3>1, <3>2 DEF Once
    <2> QED
      BY <2>1, <2>2 DEF InLog
  <1> QED
    BY <1>2, <1>3

(* Who is known is a FileInfo.                                              *)
LEMMA KnownIsInfo ==
    ASSUME StoreInv
    PROVE  /\ fileLog \in Seq(Log)
           /\ Known \subseteq Info
           /\ \A info \in Known : info.path \in Path /\ info.md5 \in File
  <1>1. Kept \subseteq Info
    BY DEF Kept, StoreInv, TypeOK
  <1>2. Removing \subseteq Info
    BY DEF Removing, StoreInv, RemoveInv
  <1>3. fileLog \in Seq(Log)
    BY DEF StoreInv, TypeOK, Log
  <1>4. \A kind : Logged(kind) \subseteq Info
    <2>1. \A i \in 1..Len(fileLog) : fileLog[i] \in Log
      BY <1>3
    <2> QED
      BY <2>1 DEF Logged, InLog, Log
  <1>5. Known \subseteq Info
    BY <1>1, <1>2, <1>4 DEF Known, Removable
  <1> QED
    BY <1>3, <1>5, InfoParts

(* What an upload has while it goes on.                                     *)
LEMMA OwnedType ==
    ASSUME StoreInv, NEW u \in Uploader, InUse(u), Owned(upload[u])
    PROVE  /\ upload[u].path \in Path /\ upload[u].rename = upload[u].path
           /\ upload[u].file \in File /\ upload[u].file # None
           /\ upload[u] \in UploadState
  BY DEF StoreInv, JobInv, InUse, Owned, TypeOK

(* Steps that leave ldb, the deletes and the log alone.                     *)
LEMMA KnownStays ==
    ASSUME ldb' = ldb, remove' = remove, fileLog' = fileLog
    PROVE  /\ Known' = Known /\ Kept' = Kept /\ Removing' = Removing
           /\ Removable' = Removable
           /\ Logged("files")' = Logged("files") /\ Logged("removes")' = Logged("removes")
  BY DEF Known, Removable, Kept, Removing, Logged

(* An upload draws a name that no file has.                                 *)
LEMMA StartIndex ==
    ASSUME StoreInv, StoreInv', IndexInv, Renames, NEW u \in Uploader,
           NEW f \in File, NEW n \in Name, UploadStart(u, f, n)
    PROVE  IndexInv' /\ (GoneInv => GoneInv')
  <1>1. PICK r \in Unique \ (Sums \cup drawn) :
           UploadChoose(u, f, n, r) /\ drawn' = drawn \cup {r}
    BY DEF UploadStart, Renames
  <1>2. PICK p : p = <<0, r>>
    OBVIOUS
  <1>3. r # None /\ p \in Path /\ p \notin Drawn /\ Drawn' = Drawn \cup {p}
    BY <1>1, <1>2 DEF Path, Drawn
  <1>4. ~ Exists(p)
    BY <1>3 DEF IndexInv, OwnInv
  <1>5. PICK job : /\ upload' = [upload EXCEPT ![u] = job]
                   /\ job.pc = "write" /\ job.path = p /\ job.rename = p
    <2>1. PICK job : job = [pc |-> "write", file |-> f, name |-> <<0, n>>, path |-> p,
                            rename |-> p, md5 |-> None]
      OBVIOUS
    <2>2. job.pc = "write" /\ job.path = p /\ job.rename = p
      BY <2>1
    <2>3. upload' = [upload EXCEPT ![u] = job]
      BY <1>1, <1>2, <1>3, <1>4, <2>1 DEF UploadChoose
    <2> QED
      BY <2>2, <2>3
  <1>6. /\ ldb' = ldb /\ remove' = remove /\ fileLog' = fileLog /\ disk' = disk
        /\ posting' = posting /\ sent' = sent
        /\ upload'[u] = job /\ \A v \in Uploader : v # u => upload'[v] = upload[v]
    BY <1>1, <1>5 DEF UploadChoose, store, StoreInv, TypeOK
  <1>7. OwnInv'
    <2>1. \A q \in Path : Exists(q)' => q \in Drawn'
      BY <1>3, <1>6 DEF Exists, IndexInv, OwnInv
    <2>2. ASSUME NEW v \in Uploader, InUse(v)' PROVE Owned(upload[v])'
      BY <1>3, <1>4, <1>5, <1>6, <2>2 DEF InUse, Owned, Exists, IndexInv, OwnInv
    <2>3. ASSUME NEW v \in Uploader, NEW w \in Uploader, InUse(v)', InUse(w)',
                 upload'[v].path = upload'[w].path
          PROVE  v = w
      <3>1. \A x \in Uploader : x # u /\ InUse(x)' => InUse(x) /\ upload'[x].path # p
        BY <1>3, <1>6 DEF InUse, Owned, IndexInv, OwnInv
      <3> QED
        BY <1>5, <1>6, <2>3, <3>1 DEF IndexInv, OwnInv
    <2> QED
      BY <2>1, <2>2, <2>3 DEF OwnInv
  <1>8. KnownInv'
    <2>1. \A info \in Known : info.path # p
      BY <1>3 DEF IndexInv, KnownInv
    <2> QED
      BY <1>3, <1>5, <1>6, <2>1, KnownStays DEF IndexInv, KnownInv, InUse
  <1>9. FilesInv' /\ (GoneInv => GoneInv')
    BY <1>6, KnownStays DEF IndexInv, FilesInv, GoneInv, Exists
  <1> QED
    BY <1>6, <1>7, <1>8, <1>9 DEF IndexInv

(* What an upload does to its file is nothing to others, nor to what is     *)
(* known.                                                                   *)
LEMMA OwnFileIndex ==
    ASSUME StoreInv, StoreInv', IndexInv, NEW u \in Uploader, InUse(u), NEW job,
           upload' = [upload EXCEPT ![u] = job],
           job.pc # "idle" => job.path = upload[u].path /\ Owned(upload[u])',
           NEW c, disk' = [disk EXCEPT ![upload[u].path] = c],
           UNCHANGED <<ldb, fileLog, remove, posting, sent, drawn>>
    PROVE  IndexInv' /\ (GoneInv => GoneInv')
  <1>1. PICK p \in Path : p = upload[u].path
    BY OwnedType DEF IndexInv, OwnInv
  <1>2. /\ upload'[u] = job /\ \A v \in Uploader : v # u => upload'[v] = upload[v]
        /\ \A q \in Path : q # p => disk'[q] = disk[q]
    BY <1>1 DEF StoreInv, TypeOK
  <1>3. p \in Drawn /\ Drawn' = Drawn
    BY <1>1 DEF IndexInv, OwnInv, Owned, Drawn
  <1>4. \A v \in Uploader : InUse(v)' => InUse(v) /\ upload'[v].path = upload[v].path
    BY <1>2 DEF InUse
  <1>5. \A info \in Known : info.path \in Path /\ info.path # p
    BY <1>1, KnownIsInfo DEF IndexInv, KnownInv
  <1>6. OwnInv'
    <2>1. \A q \in Path : Exists(q)' => q \in Drawn'
      BY <1>2, <1>3 DEF Exists, IndexInv, OwnInv
    <2>2. ASSUME NEW v \in Uploader, InUse(v)' PROVE Owned(upload[v])'
      <3>1. CASE v = u
        BY <1>2, <2>2, <3>1 DEF InUse
      <3>2. CASE v # u
        <4>1. upload[v].path \in Path /\ upload[v].path # p /\ Owned(upload[v])
          BY <1>1, <1>4, <2>2, <3>2, OwnedType DEF IndexInv, OwnInv
        <4> QED
          BY <1>2, <1>3, <3>2, <4>1 DEF Owned
      <3> QED
        BY <3>1, <3>2
    <2> QED
      BY <1>4, <2>1, <2>2 DEF OwnInv, IndexInv
  <1>7. KnownInv'
    BY <1>2, <1>3, <1>4, <1>5, KnownStays DEF IndexInv, KnownInv
  <1>8. FilesInv'
    <2>1. Logged("files") \subseteq Known
      BY DEF Known
    <2> QED
      BY <1>2, <1>5, <2>1, KnownStays DEF IndexInv, FilesInv
  <1>9. GoneInv => GoneInv'
    <2>1. Kept \subseteq Known
      BY DEF Known, Removable
    <2> QED
      BY <1>2, <1>5, <2>1, KnownStays DEF GoneInv, Exists
  <1> QED
    BY <1>6, <1>7, <1>8, <1>9 DEF IndexInv

(* The steps of an upload but the last.                                     *)
LEMMA UploadIndex ==
    ASSUME StoreInv, StoreInv', IndexInv, Renames, NEW u \in Uploader,
           UploadWrite(u) \/ UploadSum(u) \/ UploadFinish(u)
    PROVE  IndexInv' /\ (GoneInv => GoneInv')
  <1>1. InUse(u)
    BY DEF InUse, UploadWrite, UploadSum, UploadFinish
  <1>2. PICK job \in UploadState : job = upload[u]
    BY DEF StoreInv, TypeOK
  <1>3. /\ Owned(job) /\ job.path \in Path /\ job.rename = job.path
        /\ job.file \in File /\ job.file # None
    BY <1>1, <1>2, OwnedType DEF IndexInv, OwnInv
  <1>4. PICK p \in Path : p = job.path
    BY <1>3
  <1>5. UNCHANGED <<ldb, fileLog, remove, posting, sent, drawn>> /\ Drawn' = Drawn
    BY DEF UploadWrite, UploadSum, UploadFinish, store, Drawn
  <1>6. \A j : upload' = [upload EXCEPT ![u] = j] => upload'[u] = j
    BY DEF StoreInv, TypeOK
  <1>7. disk' = disk => disk' = [disk EXCEPT ![p] = disk[p]]
    BY DEF StoreInv, TypeOK
  <1>8. \A c : disk' = [disk EXCEPT ![p] = c] => disk'[p] = c
    BY DEF StoreInv, TypeOK
  <1>9. CASE UploadWrite(u)
    <2>1. PICK j : j = [job EXCEPT !.pc = "sum"]
      OBVIOUS
    <2>2. j.pc = "sum" /\ j.path = p /\ j.rename = p /\ j.file = job.file
      BY <1>2, <1>3, <1>4, <2>1 DEF UploadState
    <2>3. upload' = [upload EXCEPT ![u] = j] /\ disk' = [disk EXCEPT ![p] = job.file]
      BY <1>2, <1>4, <1>9, <2>1 DEF UploadWrite
    <2>4. Owned(upload[u])'
      <3>1. upload'[u] = j /\ disk'[p] = job.file
        BY <1>6, <1>8, <2>3
      <3> QED
        BY <1>3, <1>4, <1>5, <2>2, <3>1 DEF Owned
    <2> QED
      BY <1>1, <1>2, <1>4, <1>5, <2>2, <2>3, <2>4, OwnFileIndex
  <1>10. CASE UploadSum(u)
    <2>1. job.pc = "sum" /\ disk[p] = job.file /\ disk' = disk
      BY <1>2, <1>3, <1>4, <1>10 DEF UploadSum, Owned, store
    <2>2. PICK j : j = [job EXCEPT !.pc = "finish", !.md5 = job.file]
      OBVIOUS
    <2>3. j.pc = "finish" /\ j.path = p /\ j.rename = p /\ j.file = job.file /\ j.md5 = job.file
      BY <1>2, <1>3, <1>4, <2>2 DEF UploadState
    <2>4. upload' = [upload EXCEPT ![u] = j]
      BY <1>2, <1>3, <1>4, <1>10, <2>1, <2>2 DEF UploadSum
    <2>5. Owned(upload[u])'
      <3>1. upload'[u] = j /\ disk'[p] = job.file
        BY <1>6, <2>1, <2>4
      <3> QED
        BY <1>3, <1>4, <1>5, <2>3, <3>1 DEF Owned
    <2>6. PICK c : disk' = [disk EXCEPT ![p] = c]
      BY <1>7, <2>1
    <2> QED
      BY <1>1, <1>2, <1>4, <1>5, <2>3, <2>4, <2>5, <2>6, OwnFileIndex
  <1>11. CASE UploadFinish(u) /\ ldb[job.md5] # None /\ upload' = [upload EXCEPT ![u] = NoUpload]
    <2>1. disk' = [disk EXCEPT ![p] = None]
      BY <1>2, <1>3, <1>4, <1>11 DEF UploadFinish, Duplicate, Renames
    <2>2. NoUpload.pc = "idle"
      BY DEF NoUpload
    <2> QED
      BY <1>1, <1>2, <1>4, <1>5, <1>11, <2>1, <2>2, OwnFileIndex
  <1>12. CASE /\ UploadFinish(u) /\ disk' = disk
              /\ upload' = [upload EXCEPT ![u].pc = "log"]
    <2>1. PICK j : j = [job EXCEPT !.pc = "log"]
      OBVIOUS
    <2>2. j.pc = "log" /\ j.path = p /\ j.rename = p /\ j.file = job.file /\ j.md5 = job.md5
      BY <1>2, <1>3, <1>4, <2>1 DEF UploadState
    <2>3. upload' = [upload EXCEPT ![u] = j] /\ job.pc = "finish"
      BY <1>2, <1>12, <2>1 DEF UploadFinish
    <2>4. Owned(upload[u])'
      <3>1. upload'[u] = j /\ disk'[p] = disk[p]
        BY <1>6, <1>12, <2>3
      <3> QED
        BY <1>3, <1>4, <1>5, <2>2, <2>3, <3>1 DEF Owned
    <2>5. PICK c : disk' = [disk EXCEPT ![p] = c]
      BY <1>7, <1>12
    <2> QED
      BY <1>1, <1>2, <1>4, <1>5, <2>2, <2>3, <2>4, <2>5, OwnFileIndex
  <1> QED
    BY <1>2, <1>9, <1>10, <1>11, <1>12 DEF UploadFinish

(* An upload logs its file: the name is now that of a FileInfo.             *)
LEMMA UploadLogIndex ==
    ASSUME StoreInv, StoreInv', IndexInv, Renames, NEW u \in Uploader, UploadLog(u)
    PROVE  IndexInv' /\ (GoneInv => GoneInv')
  <1>1. InUse(u) /\ upload[u].pc = "log"
    BY DEF InUse, UploadLog
  <1>2. PICK job \in UploadState : job = upload[u]
    BY DEF StoreInv, TypeOK
  <1>3. /\ Owned(job) /\ job.path \in Path /\ job.rename = job.path /\ job.rename # None
        /\ job.file \in File /\ job.md5 = job.file /\ disk[job.path] = job.file
    <2>1. job.rename # None
      BY <1>1, <1>2, OwnedType DEF IndexInv, OwnInv
    <2> QED
      BY <1>1, <1>2, <2>1, OwnedType DEF IndexInv, OwnInv, Owned
  <1>4. PICK info \in Info : info = [md5 |-> job.md5, path |-> job.path]
    BY <1>3, InfoParts
  <1>5. info.path = job.path /\ info.md5 = job.file
    BY <1>3, <1>4
  <1>6. PICK e \in Log : e = Entry("files", info) /\ e.kind = "files" /\ e.info = info
    <2>1. Entry("files", info) \in Log
      BY DEF Entry, Log
    <2> QED
      BY <2>1 DEF Entry
  <1>7. fileLog' = Append(fileLog, e)
    BY <1>2, <1>3, <1>4, <1>6 DEF UploadLog, SaveFileMd5Log, Recorded
  <1>8. /\ ldb' = ldb /\ remove' = remove /\ disk' = disk /\ Drawn' = Drawn
        /\ posting' = posting /\ sent' = sent
        /\ ~ InUse(u)' /\ \A v \in Uploader : v # u => upload'[v] = upload[v]
    BY DEF UploadLog, store, Renames, Drawn, NoUpload, InUse, StoreInv, TypeOK
  <1>9. fileLog \in Seq(Log) /\ info \notin Known
    BY <1>1, <1>2, <1>5, KnownIsInfo DEF IndexInv, KnownInv
  <1>10. info \notin InLog(fileLog, "files")
    BY <1>9 DEF Known, Logged
  <1>11. /\ Logged("files")' = Logged("files") \cup {info}
         /\ Logged("removes")' = Logged("removes")
         /\ Once(fileLog)'
    <2>1. /\ \A kind : InLog(Append(fileLog, e), kind) =
               InLog(fileLog, kind) \cup (IF e.kind = kind THEN {e.info} ELSE {})
          /\ Once(Append(fileLog, e))
      BY <1>6, <1>9, <1>10, LogAdds DEF IndexInv, FilesInv
    <2> QED
      BY <1>6, <1>7, <2>1 DEF Logged
  <1>12. Kept' = Kept /\ Removing' = Removing
    BY <1>8 DEF Kept, Removing
  <1>13. Removable' = Removable /\ Known' = Known \cup {info}
    BY <1>11, <1>12 DEF Known, Removable
  <1>14. OwnInv'
    BY <1>8 DEF IndexInv, OwnInv, InUse, Owned, Exists
  <1>15. KnownInv'
    <2>1. info.path \in Drawn /\ disk[info.path] = info.md5
      BY <1>3, <1>5 DEF Owned
    <2>2. \A v \in Uploader : InUse(v)' => InUse(v) /\ upload'[v] = upload[v] /\ v # u
      BY <1>8 DEF InUse
    <2>3. \A v \in Uploader : InUse(v)' => upload'[v].path # info.path
      BY <1>1, <1>2, <1>5, <2>2 DEF IndexInv, OwnInv
    <2>4. \A x \in Known : x.path # info.path
      BY <1>1, <1>2, <1>5 DEF IndexInv, KnownInv
    <2> QED
      BY <1>8, <1>13, <2>1, <2>2, <2>3, <2>4 DEF IndexInv, KnownInv
  <1>16. FilesInv'
    <2>1. info \notin Removable
      BY <1>9 DEF Known
    <2> QED
      BY <1>3, <1>5, <1>8, <1>11, <1>13, <2>1 DEF IndexInv, FilesInv
  <1>17. GoneInv => GoneInv'
    BY <1>8, <1>11, <1>12 DEF GoneInv, Exists
  <1> QED
    BY <1>8, <1>14, <1>15, <1>16, <1>17 DEF IndexInv

(* Nothing new becomes known, and only what a delete has is removed.        *)
LEMMA FewerKnown ==
    ASSUME StoreInv, StoreInv', IndexInv, UNCHANGED <<upload, drawn, posting, sent>>,
           Known' \subseteq Known, Logged("files")' \subseteq Logged("files"),
           \A info \in Logged("files")' : info \notin Removable',
           Once(fileLog)',
           \A k \in Key : ldb'[k] # None => k \in {ldb'[k].md5, ldb'[k].path},
           \A q \in Path : \/ disk'[q] = disk[q]
                           \/ disk'[q] = None /\ \E info \in Removing : info.path = q
    PROVE  IndexInv'
  <1>1. Drawn' = Drawn
    BY DEF Drawn
  <1>2. /\ Removing \subseteq Known /\ Removing \subseteq Removable
        /\ Logged("files") \subseteq Known
        /\ \A info \in Known : info.path \in Path
    BY KnownIsInfo DEF Known, Removable
  <1>3. OwnInv'
    <2>1. \A q \in Path : Exists(q)' => q \in Drawn'
      BY <1>1 DEF Exists, IndexInv, OwnInv
    <2>2. ASSUME NEW u \in Uploader, InUse(u)' PROVE Owned(upload[u])'
      <3>1. InUse(u) /\ Owned(upload[u]) /\ upload[u].path \in Path
        BY <2>2, OwnedType DEF InUse, IndexInv, OwnInv
      <3>2. disk'[upload[u].path] = disk[upload[u].path]
        BY <1>2, <3>1 DEF IndexInv, KnownInv
      <3> QED
        BY <1>1, <3>1, <3>2 DEF Owned
    <2> QED
      BY <2>1, <2>2 DEF OwnInv, IndexInv, InUse
  <1>4. KnownInv'
    <2>1. ASSUME NEW info \in Known'
          PROVE  /\ info.path \in Drawn'
                 /\ disk'[info.path] \in {None, info.md5}
                 /\ \A u \in Uploader : InUse(u)' => upload'[u].path # info.path
      BY <1>1, <1>2, <2>1 DEF IndexInv, KnownInv, InUse
    <2>2. \A x, y \in Known' : x.path = y.path => x = y
      BY DEF IndexInv, KnownInv
    <2> QED
      BY <2>1, <2>2 DEF KnownInv
  <1>5. FilesInv'
    <2> SUFFICES ASSUME NEW info \in Logged("files")' PROVE disk'[info.path] = info.md5
      BY DEF FilesInv
    <2>1. info \in Logged("files") /\ info \in Known /\ info.path \in Path
          /\ info \notin Removable /\ disk[info.path] = info.md5
      BY <1>2 DEF IndexInv, FilesInv
    <2>2. \A x \in Removing : x.path # info.path
      BY <1>2, <2>1 DEF IndexInv, KnownInv
    <2> QED
      BY <2>1, <2>2
  <1> QED
    BY <1>3, <1>4, <1>5 DEF IndexInv

(* What of it the next steps keep.                                          *)
LEMMA IndexParts ==
    ASSUME IndexInv
    PROVE  /\ Once(fileLog) /\ \A info \in Logged("files") : info \notin Removable
           /\ \A k \in Key : ldb[k] # None => k \in {ldb[k].md5, ldb[k].path}
  BY DEF IndexInv, KnownInv, FilesInv

(* A delete looks up what it removes, logs it, and removes it.              *)
LEMMA RemoveLookupIndex ==
    ASSUME StoreInv, StoreInv', IndexInv, NEW d \in Deleter, NEW k \in Key,
           RemoveLookup(d, k)
    PROVE  IndexInv' /\ (GoneInv => GoneInv')
  <1>1. /\ ldb' = ldb /\ fileLog' = fileLog /\ disk' = disk
        /\ UNCHANGED <<upload, drawn, posting, sent>>
        /\ remove'[d].info = ldb[k] /\ remove'[d].pc = "log" /\ ldb[k] \in Kept
        /\ \A e \in Deleter : e # d => remove'[e] = remove[e]
    BY DEF RemoveLookup, store, Kept, StoreInv, TypeOK
  <1>2. Kept' = Kept /\ \A kind : Logged(kind)' = Logged(kind)
    BY <1>1 DEF Kept, Logged
  <1>3. Removing' \subseteq Removing \cup Kept
    BY <1>1 DEF Removing
  <1>4. Removable' \subseteq Removable /\ Known' \subseteq Known
    BY <1>2, <1>3 DEF Removable, Known
  <1>5. IndexInv'
    BY <1>1, <1>2, <1>4, IndexParts, FewerKnown
  <1>6. GoneInv => GoneInv'
    BY <1>1, <1>2 DEF GoneInv, Exists
  <1> QED
    BY <1>5, <1>6

LEMMA RemoveLogIndex ==
    ASSUME StoreInv, StoreInv', IndexInv, NEW d \in Deleter, RemoveLog(d)
    PROVE  IndexInv' /\ (GoneInv => GoneInv')
  <1>1. PICK info \in Info : info = remove[d].info /\ info \in Removing
    BY DEF RemoveLog, Removing, StoreInv, RemoveInv
  <1>2. /\ ldb' = ldb /\ disk' = disk /\ UNCHANGED <<upload, drawn, posting, sent>>
        /\ \A e \in Deleter : e # d => remove'[e] = remove[e]
    BY DEF RemoveLog, store, StoreInv, TypeOK
  <1>3. Kept' = Kept
    BY <1>2 DEF Kept
  <1>4. CASE /\ SaveFileMd5Log("removes", info)
             /\ remove' = [remove EXCEPT ![d].pc = "unlink"]
    <2>1. Entry("removes", info) \in Log
      BY DEF Entry, Log
    <2>2. PICK e \in Log : e = Entry("removes", info) /\ e.kind = "removes" /\ e.info = info
      BY <2>1 DEF Entry
    <2>3. fileLog' = Append(fileLog, e) /\ fileLog \in Seq(Log)
      BY <1>4, <2>2, KnownIsInfo DEF SaveFileMd5Log
    <2>4. /\ \A kind : InLog(Append(fileLog, e), kind) =
               InLog(fileLog, kind) \cup (IF e.kind = kind THEN {e.info} ELSE {})
          /\ Once(Append(fileLog, e))
      BY <2>2, <2>3, LogAdds DEF IndexInv, FilesInv
    <2>5. /\ Logged("files")' = Logged("files")
          /\ Logged("removes")' = Logged("removes") \cup {info}
          /\ Once(fileLog)'
      BY <2>2, <2>3, <2>4 DEF Logged
    <2>6. remove'[d].info = info /\ remove'[d].pc = "unlink"
      BY <1>1, <1>4 DEF StoreInv, TypeOK, RemoveState
    <2>7. Removing' \subseteq Removing
      BY <1>1, <1>2, <2>6 DEF Removing
    <2>8. Removable' \subseteq Removable /\ Known' \subseteq Known
      BY <1>1, <1>3, <2>5, <2>7 DEF Removable, Known
    <2>9. IndexInv'
      BY <1>2, <2>5, <2>8, IndexParts, FewerKnown
    <2>10. GoneInv => GoneInv'
      BY <1>2, <1>3, <2>5, <2>6 DEF GoneInv, Exists
    <2> QED
      BY <2>9, <2>10
  <1>5. CASE remove' = [remove EXCEPT ![d] = NoRemove] /\ fileLog' = fileLog
    <2>1. remove'[d].pc = "idle"
      BY <1>5, IdleType DEF StoreInv, TypeOK
    <2>2. \A kind : Logged(kind)' = Logged(kind)
      BY <1>5 DEF Logged
    <2>3. Removing' \subseteq Removing
      BY <1>2, <2>1 DEF Removing
    <2>4. Removable' \subseteq Removable /\ Known' \subseteq Known
      BY <1>3, <2>2, <2>3 DEF Removable, Known
    <2>5. IndexInv'
      BY <1>2, <1>5, <2>2, <2>4, IndexParts, FewerKnown
    <2>6. GoneInv => GoneInv'
      BY <1>2, <1>3, <2>1, <2>2 DEF GoneInv, Exists
    <2> QED
      BY <2>5, <2>6
  <1> QED
    BY <1>1, <1>4, <1>5 DEF RemoveLog

LEMMA RemoveUnlinkIndex ==
    ASSUME StoreInv, StoreInv', IndexInv, NEW d \in Deleter, RemoveUnlink(d)
    PROVE  IndexInv' /\ (GoneInv => GoneInv')
  <1>1. PICK info \in Info : info = remove[d].info /\ info \in Removing
    BY DEF RemoveUnlink, Removing, StoreInv, RemoveInv
  <1>2. PICK p \in Path : p = info.path
    BY InfoParts
  <1>3. /\ ldb' = ldb /\ fileLog' = fileLog /\ UNCHANGED <<upload, drawn, posting, sent>>
        /\ remove'[d].pc = "idle" /\ \A e \in Deleter : e # d => remove'[e] = remove[e]
        /\ disk'[p] = None /\ \A q \in Path : q # p => disk'[q] = disk[q]
    BY <1>1, <1>2, IdleType DEF RemoveUnlink, stat, StoreInv, TypeOK
  <1>4. Kept' = Kept /\ \A kind : Logged(kind)' = Logged(kind)
    BY <1>3 DEF Kept, Logged
  <1>5. Removing' \subseteq Removing
    BY <1>3 DEF Removing
  <1>6. Removable' \subseteq Removable /\ Known' \subseteq Known
    BY <1>4, <1>5 DEF Removable, Known
  <1>7. IndexInv'
    BY <1>1, <1>2, <1>3, <1>4, <1>6, IndexParts, FewerKnown
  <1>8. ASSUME GoneInv PROVE GoneInv'
    <2>1. \A e \in Deleter : remove'[e].pc = "unlink" /\ remove'[e].info \in Kept' =>
              remove'[e].info \in Logged("removes")'
      BY <1>3, <1>4, <1>8 DEF GoneInv
    <2>2. ASSUME NEW x \in Kept, ~ Exists(x.path)' PROVE x \in Logged("removes")
      <3>1. x \in Known /\ x.path \in Path /\ info \in Known
        BY <1>1, KnownIsInfo DEF Known, Removable
      <3>2. CASE x.path = p
        <4>1. x = info
          BY <1>2, <3>1, <3>2 DEF IndexInv, KnownInv
        <4> QED
          BY <1>1, <1>8, <4>1 DEF GoneInv, RemoveUnlink
      <3>3. CASE x.path # p
        BY <1>3, <1>8, <2>2, <3>1, <3>3 DEF GoneInv, Exists
      <3> QED
        BY <3>2, <3>3
    <2> QED
      BY <1>4, <2>1, <2>2 DEF GoneInv
  <1> QED
    BY <1>7, <1>8

(* Writes in ldb under the keys of a FileInfo.                              *)
LEMMA KeptAfter ==
    ASSUME StoreInv, StoreInv', NEW info \in Info, KnownInv
    PROVE  /\ ldb' \in {Saved(info), [ldb EXCEPT ![info.md5] = info]} =>
                 /\ Kept' \subseteq Kept \cup {info}
                 /\ \A k \in Key : ldb'[k] # None => k \in {ldb'[k].md5, ldb'[k].path}
           /\ ldb' = Forgotten(info) => info \notin Kept'
           /\ ldb' \in {Forgotten(info), [ldb EXCEPT ![info.md5] = None]} =>
                 /\ Kept' \subseteq Kept
                 /\ \A k \in Key : ldb'[k] # None => k \in {ldb'[k].md5, ldb'[k].path}
  <1>1. ldb \in [Key -> Info \cup {None}] /\ info.md5 \in Key /\ info.path \in Key
    BY InfoParts DEF StoreInv, TypeOK
  <1>2. \A k \in Key : ldb[k] # None => k \in {ldb[k].md5, ldb[k].path}
    BY DEF KnownInv
  <1>3. ASSUME ldb' \in {Saved(info), [ldb EXCEPT ![info.md5] = info]}
        PROVE  \A k \in Key : ldb'[k] = ldb[k] \/ (ldb'[k] = info /\ k \in {info.md5, info.path})
    BY <1>1, <1>3 DEF Saved
  <1>4. ASSUME ldb' \in {Forgotten(info), [ldb EXCEPT ![info.md5] = None]}
        PROVE  \A k \in Key : ldb'[k] = ldb[k] \/ ldb'[k] = None
    BY <1>1, <1>4 DEF Forgotten
  <1>5. ASSUME ldb' = Forgotten(info)
        PROVE  ldb'[info.md5] = None /\ ldb'[info.path] = None
    BY <1>1, <1>5 DEF Forgotten
  <1>6. ASSUME ldb' = Forgotten(info), NEW k \in Key, ldb'[k] = info, info # None PROVE FALSE
    <2>1. ldb[k] = info
      BY <1>4, <1>6
    <2> QED
      BY <1>2, <1>5, <1>6, <2>1
  <1> QED
    BY <1>2, <1>3, <1>4, <1>6 DEF Kept

(* The log consumer counts, and saves.                                      *)
LEMMA SaveLogIndex ==
    ASSUME StoreInv, StoreInv', IndexInv, SaveLog
    PROVE  IndexInv' /\ (GoneInv => GoneInv')
  <1>1. fileLog \in Seq(Log) /\ fileLog # <<>> /\ fileLog' = Tail(fileLog)
    BY KnownIsInfo DEF SaveLog, StoreInv
  <1>2. PICK e \in Log : e = Head(fileLog)
    BY <1>1, LogParts
  <1>3. PICK info \in Info : info = e.info
    BY DEF Log
  <1>4. /\ Logged("files") = Logged("files")' \cup (IF e.kind = "files" THEN {info} ELSE {})
        /\ Logged("removes") = Logged("removes")' \cup (IF e.kind = "removes" THEN {info} ELSE {})
        /\ Once(fileLog)'
        /\ e.kind = "files" => info \notin Logged("files")'
    <2>1. /\ \A kind : InLog(fileLog, kind) =
               InLog(Tail(fileLog), kind) \cup (IF e.kind = kind THEN {info} ELSE {})
          /\ Once(Tail(fileLog))
          /\ e.kind = "files" => info \notin InLog(Tail(fileLog), "files")
      BY <1>1, <1>2, <1>3, LogTakes, IndexParts
    <2> QED
      BY <1>1, <2>1 DEF Logged
  <1>5. /\ disk' = disk /\ remove' = remove /\ UNCHANGED <<upload, drawn, posting, sent>>
        /\ Removing' = Removing
    BY DEF SaveLog, Removing
  <1>6. CASE e.kind = "files"
    <2>1. ldb' = Saved(info)
      BY <1>2, <1>3, <1>6 DEF SaveLog
    <2>2. /\ Kept' \subseteq Kept \cup {info}
          /\ \A k \in Key : ldb'[k] # None => k \in {ldb'[k].md5, ldb'[k].path}
      BY <2>1, KeptAfter DEF IndexInv
    <2>3. /\ info \notin Removable /\ disk[info.path] = info.md5 /\ info \in Known
      BY <1>4, <1>6 DEF IndexInv, FilesInv, Known
    <2>4. Logged("removes")' = Logged("removes")
      BY <1>4, <1>6
    <2>5. Removable' \subseteq Removable \cup {info} /\ Known' \subseteq Known
      BY <1>4, <1>5, <2>2, <2>3, <2>4 DEF Removable, Known
    <2>6. \A x \in Logged("files")' : x \notin Removable'
      BY <1>4, <1>6, <2>5, IndexParts
    <2>7. IndexInv'
      BY <1>4, <1>5, <2>2, <2>5, <2>6, FewerKnown
    <2>8. ASSUME GoneInv PROVE GoneInv'
      <3>1. info \notin Removing /\ Exists(info.path)
        <4>1. disk[info.path] # None
          BY <2>3, KnownIsInfo
        <4> QED
          BY <2>3, <4>1 DEF Removable, Exists
      <3>2. \A d \in Deleter : remove[d].pc = "unlink" => remove[d].info \in Removing
        BY DEF Removing
      <3> QED
        BY <1>5, <2>2, <2>4, <2>8, <3>1, <3>2 DEF GoneInv, Exists
    <2> QED
      BY <2>7, <2>8
  <1>7. CASE e.kind = "removes"
    <2>1. ldb' = Forgotten(info)
      BY <1>2, <1>3, <1>7 DEF SaveLog
    <2>2. /\ Kept' \subseteq Kept /\ info \notin Kept'
          /\ \A k \in Key : ldb'[k] # None => k \in {ldb'[k].md5, ldb'[k].path}
      BY <2>1, KeptAfter DEF IndexInv
    <2>3. /\ Logged("files")' = Logged("files")
          /\ Logged("removes") = Logged("removes")' \cup {info}
      BY <1>4, <1>7
    <2>4. Removable' \subseteq Removable /\ Known' \subseteq Known
      BY <1>5, <2>2, <2>3 DEF Removable, Known
    <2>5. IndexInv'
      BY <1>4, <1>5, <2>2, <2>3, <2>4, IndexParts, FewerKnown
    <2>6. GoneInv => GoneInv'
      BY <1>5, <2>2, <2>3 DEF GoneInv, Exists
    <2> QED
      BY <2>5, <2>6
  <1> QED
    BY <1>6, <1>7 DEF Log

LEMMA CheckIndex ==
    ASSUME StoreInv, StoreInv', IndexInv, NEW f \in File, CheckFileExist(f)
    PROVE  IndexInv' /\ (GoneInv => GoneInv')
  <1>1. /\ disk' = disk /\ remove' = remove /\ fileLog' = fileLog
        /\ UNCHANGED <<upload, drawn, posting, sent>>
        /\ \A k \in Key : ldb'[k] = ldb[k] \/ ldb'[k] = None
    BY DEF CheckFileExist, StoreInv, TypeOK
  <1>2. /\ Kept' \subseteq Kept /\ Removing' = Removing
        /\ \A kind : Logged(kind)' = Logged(kind)
    BY <1>1 DEF Kept, Removing, Logged
  <1>3. Removable' \subseteq Removable /\ Known' \subseteq Known
    BY <1>2 DEF Removable, Known
  <1>4. IndexInv'
    BY <1>1, <1>2, <1>3, IndexParts, FewerKnown
  <1>5. GoneInv => GoneInv'
    BY <1>1, <1>2 DEF GoneInv, Exists
  <1> QED
    BY <1>4, <1>5

(* Steps that write nothing but counts.                                     *)
LEMMA CountIndex ==
    ASSUME StoreInv, StoreInv', IndexInv,
           UNCHANGED <<disk, ldb, fileLog, upload, remove, posting, sent, drawn>>
    PROVE  IndexInv' /\ (GoneInv => GoneInv')
  <1>1. IndexInv'
    BY KnownStays, IndexParts, FewerKnown
  <1>2. GoneInv => GoneInv'
    BY KnownStays DEF GoneInv, Exists
  <1> QED
    BY <1>1, <1>2

(* Every step of the store.                                                 *)
LEMMA NextIndex ==
    ASSUME StoreInv, StoreInv', IndexInv, Renames, Next
    PROVE  IndexInv' /\ (GoneInv => GoneInv')
  <1>1. ASSUME NEW info \in Info, PostSend(info) \/ PostSave(info) PROVE FALSE
    BY <1>1 DEF PostSend, PostSave, IndexInv
  <1>2. ASSUME CountLog PROVE IndexInv' /\ (GoneInv => GoneInv')
    BY <1>2, CountIndex DEF CountLog
  <1> QED
    BY <1>1, <1>2, StartIndex, UploadIndex, UploadLogIndex, RemoveLookupIndex, RemoveLogIndex,
       RemoveUnlinkIndex, SaveLogIndex, CheckIndex DEF Next, UploadStep, OtherStep

(* A crash takes the log, and leaves what was saved of its first entry.     *)
LEMMA CrashIndex ==
    ASSUME StoreInv, StoreInv', IndexInv, Crash
    PROVE  IndexInv'
  <1>1. /\ disk' = disk /\ drawn' = drawn /\ posting' = {} /\ sent' = {} /\ fileLog' = <<>>
        /\ \A u \in Uploader : ~ InUse(u)'
        /\ \A d \in Deleter : remove'[d].pc = "idle"
    BY IdleType DEF Crash, InUse
  <1>2. /\ Kept' \subseteq Known
        /\ \A k \in Key : ldb'[k] # None => k \in {ldb'[k].md5, ldb'[k].path}
    <2>0. Kept \subseteq Known
      BY DEF Known, Removable
    <2>1. CASE ldb' = ldb
      BY <2>0, <2>1, IndexParts DEF Kept
    <2>2. CASE counted /\ ldb' # ldb
      <3>1. PICK e \in Log : e = Head(fileLog)
        BY <2>2, KnownIsInfo, LogParts DEF StoreInv
      <3>2. PICK info \in Info : info = e.info
        BY DEF Log
      <3>3. ASSUME e.kind = "files" PROVE info \in Known
        <4>1. InLog(fileLog, "files") = InLog(Tail(fileLog), "files") \cup {info}
          BY <2>2, <3>1, <3>2, <3>3, KnownIsInfo, LogTakes DEF StoreInv
        <4>2. InLog(fileLog, "files") \subseteq Known
          BY DEF Known, Logged
        <4> QED
          BY <4>1, <4>2
      <3>4. CASE e.kind = "files" /\ ldb' = [ldb EXCEPT ![info.md5] = info]
        <4>1. ldb' \in {Saved(info), [ldb EXCEPT ![info.md5] = info]} /\ KnownInv
          BY <3>4 DEF IndexInv
        <4>2. /\ Kept' \subseteq Kept \cup {info}
              /\ \A k \in Key : ldb'[k] # None => k \in {ldb'[k].md5, ldb'[k].path}
          BY <4>1, KeptAfter
        <4> QED
          BY <2>0, <3>3, <3>4, <4>2
      <3>5. CASE ldb' \in {Forgotten(info), [ldb EXCEPT ![info.md5] = None]}
        BY <2>0, <3>5, KeptAfter DEF IndexInv
      <3> QED
        BY <2>2, <3>1, <3>2, <3>4, <3>5 DEF Crash, Interrupted
    <2> QED
      BY <2>1, <2>2 DEF Crash, Interrupted
  <1>3. \A kind : Logged(kind)' = {}
    BY <1>1 DEF Logged, InLog
  <1>4. Known' = Kept'
    BY <1>1, <1>3 DEF Known, Removable, Removing
  <1>5. OwnInv'
    BY <1>1 DEF OwnInv, IndexInv, Exists, Drawn
  <1>6. KnownInv'
    BY <1>1, <1>2, <1>4 DEF KnownInv, IndexInv, Drawn
  <1>7. FilesInv'
    BY <1>1, <1>3 DEF FilesInv, Once
  <1> QED
    BY <1>1, <1>5, <1>6, <1>7 DEF IndexInv

(* Beside recounts and crashes; what a crash takes is a delete's entry.     *)
SurvivesInv == IndexInv /\ (crashes = 0 => GoneInv)

LEMMA InitSurvives == DayInit => SurvivesInv
  <1> SUFFICES ASSUME DayInit PROVE SurvivesInv
    OBVIOUS
  <1>1. /\ \A u \in Uploader : ~ InUse(u)
        /\ \A d \in Deleter : remove[d].pc = "idle"
        /\ \A k \in Key : ldb[k] = None
        /\ \A p \in Path : disk[p] = None
        /\ fileLog = <<>> /\ posting = {} /\ sent = {}
    BY IdleType DEF DayInit, Init, InUse
  <1>2. \A kind : Logged(kind) = {}
    BY <1>1 DEF Logged, InLog
  <1>3. Known = {} /\ Kept = {}
    BY <1>1, <1>2 DEF Known, Removable, Kept, Removing
  <1>4. IndexInv
    BY <1>1, <1>2, <1>3 DEF IndexInv, OwnInv, KnownInv, FilesInv, Exists, Once
  <1>5. GoneInv
    BY <1>1, <1>3 DEF GoneInv
  <1> QED
    BY <1>4, <1>5 DEF SurvivesInv

LEMMA NextSurvives ==
    ASSUME Renames, TypeInv, TypeInv', SurvivesInv, [DayNext]_<<vars, day>>
    PROVE  SurvivesInv'
  <1>0. StoreInv /\ StoreInv' /\ crashes \in Nat
    BY DEF TypeInv, DayTypes
  <1>1. CASE StoreStep
    BY <1>0, <1>1, NextIndex DEF StoreStep, SurvivesInv
  <1>2. CASE RecountScan \/ RecountPut \/ RecountWrite \/ UNCHANGED <<vars, day>>
    <2>1. /\ UNCHANGED <<disk, ldb, fileLog, upload, remove, posting, sent, drawn>>
          /\ crashes' = crashes
      BY <1>2 DEF RecountScan, RecountPut, RecountWrite, vars, store, day
    <2> QED
      BY <1>0, <2>1, CountIndex DEF SurvivesInv
  <1>3. CASE Crash
    <2>1. crashes' # 0
      BY <1>0, <1>3 DEF Crash
    <2> QED
      BY <1>0, <1>3, <2>1, CrashIndex DEF SurvivesInv
  <1> QED
    BY <1>1, <1>2, <1>3 DEF DayNext

(* At a node that draws a new name for every upload and posts nothing,      *)
(* between requests an entry of ldb leads to its content; only a crash that *)
(* lost a delete's log entry leaves one that leads nowhere, and none ever   *)
(* leads to another's content: for any uploads of any contents, deletes,    *)
(* peers' checks and crashes, in any order.                                 *)
THEOREM QuietIndexCorrect == Renames => (DaySpec => []QuietIndexSurvives)
  <1> SUFFICES ASSUME Renames PROVE DaySpec => []QuietIndexSurvives
    OBVIOUS
  <1>1. TypeInv /\ SurvivesInv => QuietIndexSurvives
    <2> SUFFICES ASSUME TypeInv, SurvivesInv, Quiet, NEW k \in Key, ldb[k] # None
                 PROVE  \/ disk[ldb[k].path] = ldb[k].md5
                        \/ crashes > 0 /\ ~ Exists(ldb[k].path)
      BY DEF QuietIndexSurvives
    <2>1. ldb[k] \in Kept /\ ldb[k] \in Known
      BY DEF Kept, Known, Removable
    <2>2. disk[ldb[k].path] \in {None, ldb[k].md5}
      BY <2>1 DEF SurvivesInv, IndexInv, KnownInv
    <2>3. Logged("removes") = {}
      BY DEF Quiet, Logged, InLog
    <2>4. crashes = 0 => Exists(ldb[k].path)
      BY <2>1, <2>3 DEF SurvivesInv, GoneInv
    <2>5. crashes \in Nat
      BY DEF TypeInv, DayTypes
    <2> QED
      BY <2>2, <2>4, <2>5 DEF Exists
  <1>2. TypeInv /\ [DayNext]_<<vars, day>> => TypeInv'
    BY NextTypeInv
  <1>3. TypeInv /\ TypeInv' /\ SurvivesInv /\ [DayNext]_<<vars, day>> => SurvivesInv'
    BY NextSurvives
  <1> QED
    BY <1>1, <1>2, <1>3, InitTypeInv, InitSurvives, PTL DEF DaySpec

-----------------------------------------------------------------------------
(* AnsweredIsStored: a content that was answered has a file, and no delete  *)
(* of it is under way.                                                      *)
Doomed == Removing \cup Logged("removes")
AnsweredInv ==
    \A f \in answered : /\ \A info \in Doomed : info.md5 # f
                        /\ \E p \in Path : disk[p] = f

LEMMA DeletingIsDoomed ==
    \A f : Deleting(f) <=> \E info \in Doomed : info.md5 = f
  BY DEF Deleting, Doomed, Removing, Logged, InLog

(* What ldb has of a content that no delete has: its file, which no upload  *)
(* calls its own.                                                           *)
LEMMA CopyIsThere ==
    ASSUME StoreInv, IndexInv, GoneInv, NEW f \in File, ldb[f] # None,
           \A info \in Doomed : info.md5 # f
    PROVE  /\ ldb[f].path \in Path /\ disk[ldb[f].path] = f
           /\ \A u \in Uploader : InUse(u) => upload[u].path # ldb[f].path
  <1>1. f \in Key
    BY DEF Key
  <1>2. PICK info \in Kept : info = ldb[f] /\ info \in Known
    BY <1>1 DEF Kept, Known, Removable
  <1>3. info.path \in Path
    BY <1>2, KnownIsInfo
  <1>4. info.md5 = f
    BY <1>1, <1>2, <1>3, KeyAssumption DEF IndexInv, KnownInv
  <1>5. Exists(info.path)
    BY <1>2, <1>4 DEF GoneInv, Doomed
  <1> QED
    BY <1>2, <1>3, <1>4, <1>5 DEF Exists, IndexInv, KnownInv

(* An upload removes its duplicate of what is there ...                     *)
LEMMA FinishAnswers ==
    ASSUME Renames, StoreInv, IndexInv, GoneInv, AnsweredInv, NEW u \in Uploader,
           UploadFinish(u)
    PROVE  AnsweredInv'
  <1>1. /\ ldb' = ldb /\ remove' = remove /\ fileLog' = fileLog
        /\ InUse(u) /\ upload[u].pc = "finish"
    BY DEF UploadFinish, InUse
  <1>2. Doomed' = Doomed
    BY <1>1 DEF Doomed, Removing, Logged
  <1>3. PICK p \in Path, c \in File : /\ p = upload[u].path /\ c = upload[u].md5
                                     /\ disk[p] = c /\ upload[u].rename = p
    BY <1>1, OwnedType DEF IndexInv, OwnInv, Owned
  <1>4. CASE UNCHANGED <<disk, answered>>
    BY <1>2, <1>4 DEF AnsweredInv
  <1>5. CASE ldb[c] # None /\ disk' = [disk EXCEPT ![p] = None] /\ Answer(c)
    <2>1. disk'[p] = None /\ \A q \in Path : q # p => disk'[q] = disk[q]
      BY <1>5 DEF StoreInv, TypeOK
    <2> SUFFICES ASSUME NEW f \in answered'
                 PROVE  /\ \A info \in Doomed : info.md5 # f
                        /\ \E q \in Path : disk'[q] = f
      BY <1>2 DEF AnsweredInv
    <2>2. \A info \in Doomed : info.md5 # f
      BY <1>5, DeletingIsDoomed DEF Answer, AnsweredInv
    <2>3. CASE f = c
      <3>1. /\ ldb[c].path \in Path /\ disk[ldb[c].path] = c
            /\ ldb[c].path # p
        BY <1>1, <1>3, <1>5, <2>2, <2>3, CopyIsThere
      <3> QED
        BY <2>1, <2>2, <2>3, <3>1
    <2>4. CASE f # c
      <3>1. f \in answered
        BY <1>5, <2>4 DEF Answer
      <3>2. PICK q \in Path : disk[q] = f
        BY <3>1 DEF AnsweredInv
      <3> QED
        BY <1>3, <2>1, <2>2, <2>4, <3>2
    <2> QED
      BY <2>3, <2>4
  <1> QED
    BY <1>3, <1>4, <1>5 DEF UploadFinish, Duplicate, Renames

(* ... or logs its file, which is there ...                                 *)
LEMMA LogAnswers ==
    ASSUME Renames, StoreInv, IndexInv, AnsweredInv, NEW u \in Uploader, UploadLog(u)
    PROVE  AnsweredInv'
  <1>1. InUse(u) /\ upload[u].pc = "log" /\ disk' = disk /\ remove' = remove
    BY DEF UploadLog, InUse, store
  <1>2. PICK p \in Path, c \in File : /\ p = upload[u].path /\ c = upload[u].md5
                                     /\ disk[p] = c /\ upload[u].rename = p /\ p # None
    BY <1>1, OwnedType, KeyAssumption DEF IndexInv, OwnInv, Owned
  <1>3. PICK info \in Info : info = [md5 |-> c, path |-> p]
    BY <1>2, InfoParts
  <1>4. PICK e \in Log : e = Entry("files", info) /\ e.kind = "files"
    <2>1. Entry("files", info) \in Log
      BY DEF Entry, Log
    <2> QED
      BY <2>1 DEF Entry
  <1>5. fileLog \in Seq(Log) /\ fileLog' = Append(fileLog, e)
    BY <1>2, <1>3, <1>4, KnownIsInfo DEF UploadLog, SaveFileMd5Log, Recorded
  <1>6. Logged("removes")' = Logged("removes")
    <2>1. \A kind : InLog(Append(fileLog, e), kind) =
             InLog(fileLog, kind) \cup (IF e.kind = kind THEN {e.info} ELSE {})
      BY <1>5, LogAdds
    <2> QED
      BY <1>4, <1>5, <2>1 DEF Logged
  <1>7. Doomed' = Doomed
    BY <1>1, <1>6 DEF Doomed, Removing
  <1>8. Answer(c)
    BY <1>2 DEF UploadLog
  <1> SUFFICES ASSUME NEW f \in answered'
               PROVE  (\A x \in Doomed : x.md5 # f) /\ \E q \in Path : disk[q] = f
    BY <1>1, <1>7 DEF AnsweredInv
  <1>9. f \in answered \/ (f = c /\ ~ Deleting(f))
    BY <1>8 DEF Answer
  <1> QED
    BY <1>2, <1>9, DeletingIsDoomed DEF AnsweredInv

(* ... and a delete removes what is not answered since it began.            *)
LEMMA RemoveAnswers ==
    ASSUME StoreInv, IndexInv, AnsweredInv, NEW d \in Deleter,
           \/ \E k \in Key : RemoveLookup(d, k)
           \/ RemoveLog(d) \/ RemoveUnlink(d)
    PROVE  AnsweredInv'
  <1>1. \A e \in Deleter : e # d => remove'[e] = remove[e]
    BY DEF RemoveLookup, RemoveLog, RemoveUnlink, StoreInv, TypeOK
  <1>2. ASSUME NEW k \in Key, RemoveLookup(d, k) PROVE AnsweredInv'
    <2>1. /\ disk' = disk /\ fileLog' = fileLog /\ answered' = answered \ {ldb[k].md5}
          /\ remove'[d].info = ldb[k]
      BY <1>2 DEF RemoveLookup, store, StoreInv, TypeOK
    <2>2. Doomed' \subseteq Doomed \cup {ldb[k]}
      BY <1>1, <2>1 DEF Doomed, Removing, Logged
    <2> QED
      BY <2>1, <2>2 DEF AnsweredInv
  <1>3. CASE RemoveLog(d)
    <2>1. PICK info \in Info : info = remove[d].info /\ info \in Removing
      BY <1>3 DEF RemoveLog, Removing, StoreInv, RemoveInv
    <2>2. disk' = disk /\ answered' = answered
      BY <1>3 DEF RemoveLog, store
    <2>3. Doomed' \subseteq Doomed
      <3>1. CASE SaveFileMd5Log("removes", info) /\ remove' = [remove EXCEPT ![d].pc = "unlink"]
        <4>1. PICK e \in Log : e = Entry("removes", info) /\ e.info = info
          <5>1. Entry("removes", info) \in Log
            BY DEF Entry, Log
          <5> QED
            BY <5>1 DEF Entry
        <4>2. fileLog' = Append(fileLog, e) /\ fileLog \in Seq(Log)
          BY <3>1, <4>1, KnownIsInfo DEF SaveFileMd5Log
        <4>3. Logged("removes")' \subseteq Logged("removes") \cup {info}
          BY <4>1, <4>2, LogAdds DEF Logged
        <4>4. remove'[d].info = info
          BY <2>1, <3>1 DEF StoreInv, TypeOK, RemoveState
        <4>5. Removing' \subseteq Removing
          BY <1>1, <2>1, <4>4 DEF Removing
        <4> QED
          BY <2>1, <4>3, <4>5 DEF Doomed
      <3>2. CASE remove' = [remove EXCEPT ![d] = NoRemove] /\ fileLog' = fileLog
        <4>1. remove'[d].pc = "idle"
          BY <3>2, IdleType DEF StoreInv, TypeOK
        <4> QED
          BY <1>1, <3>2, <4>1 DEF Doomed, Removing, Logged
      <3> QED
        BY <1>3, <2>1, <3>1, <3>2 DEF RemoveLog
    <2> QED
      BY <2>2, <2>3 DEF AnsweredInv
  <1>4. CASE RemoveUnlink(d)
    <2>1. PICK info \in Info : info = remove[d].info /\ info \in Removing /\ info.path \in Path
      BY <1>4, InfoParts DEF RemoveUnlink, Removing, StoreInv, RemoveInv
    <2>2. /\ answered' = answered /\ fileLog' = fileLog /\ remove'[d].pc = "idle"
          /\ \A q \in Path : q # info.path => disk'[q] = disk[q]
      BY <1>4, <2>1, IdleType DEF RemoveUnlink, StoreInv, TypeOK
    <2>3. Doomed' \subseteq Doomed /\ info \in Doomed
      BY <1>1, <2>1, <2>2 DEF Doomed, Removing, Logged
    <2>4. disk[info.path] \in {None, info.md5}
      BY <2>1 DEF Known, Removable, IndexInv, KnownInv
    <2> SUFFICES ASSUME NEW f \in answered PROVE \E q \in Path : disk'[q] = f
      BY <2>2, <2>3 DEF AnsweredInv
    <2>5. f # info.md5 /\ f # None
      BY <2>3, NoneAssumption DEF AnsweredInv, StoreInv, TypeOK
    <2>6. PICK q \in Path : disk[q] = f
      BY DEF AnsweredInv
    <2> QED
      BY <2>2, <2>4, <2>5, <2>6
  <1> QED
    BY <1>2, <1>3, <1>4

(* The steps that leave files and answers alone, and forget some deletes.   *)
LEMMA OthersAnswer ==
    ASSUME StoreInv, AnsweredInv, UNCHANGED <<disk, answered, remove>>,
           \/ fileLog' = fileLog
           \/ fileLog # <<>> /\ fileLog' = Tail(fileLog)
    PROVE  AnsweredInv'
  <1>1. Logged("removes")' \subseteq Logged("removes")
    <2>1. CASE fileLog' = fileLog
      BY <2>1 DEF Logged
    <2>2. CASE fileLog # <<>> /\ fileLog' = Tail(fileLog)
      BY <2>2, LogTakes, KnownIsInfo DEF Logged
    <2> QED
      BY <2>1, <2>2
  <1> QED
    BY <1>1 DEF AnsweredInv, Doomed, Removing

LEMMA NextAnswers ==
    ASSUME Renames, StoreInv, IndexInv, GoneInv, AnsweredInv, Next
    PROVE  AnsweredInv'
  <1>1. ASSUME NEW u \in Uploader, NEW f \in File, NEW n \in Name, UploadStart(u, f, n)
        PROVE  AnsweredInv'
    BY <1>1, OthersAnswer DEF UploadStart, UploadChoose, store
  <1>2. ASSUME NEW u \in Uploader, UploadWrite(u) PROVE AnsweredInv'
    <2>1. PICK p \in Path : p = upload[u].path /\ disk[p] = None
      BY <1>2, OwnedType DEF UploadWrite, InUse, IndexInv, OwnInv, Owned
    <2>2. \A q \in Path : q # p => disk'[q] = disk[q]
      BY <1>2, <2>1 DEF UploadWrite, StoreInv, TypeOK
    <2>3. answered' = answered /\ remove' = remove /\ fileLog' = fileLog
      BY <1>2 DEF UploadWrite
    <2>4. answered \subseteq File /\ None \notin answered
      BY NoneAssumption DEF StoreInv, TypeOK
    <2> QED
      BY <2>1, <2>2, <2>3, <2>4 DEF AnsweredInv, Doomed, Removing, Logged
  <1>3. ASSUME NEW u \in Uploader, UploadSum(u) PROVE AnsweredInv'
    BY <1>3, OthersAnswer DEF UploadSum, store
  <1>4. CASE CountLog \/ SaveLog
    BY <1>4, OthersAnswer DEF CountLog, SaveLog, StoreInv
  <1>5. ASSUME NEW f \in File, CheckFileExist(f) PROVE AnsweredInv'
    BY <1>5, OthersAnswer DEF CheckFileExist
  <1>6. ASSUME NEW info \in Info, PostSend(info) \/ PostSave(info) PROVE FALSE
    BY <1>6 DEF PostSend, PostSave, IndexInv
  <1> QED
    BY <1>1, <1>2, <1>3, <1>4, <1>5, <1>6, FinishAnswers, LogAnswers, RemoveAnswers
       DEF Next, UploadStep, OtherStep

(* At a node that draws a new name for every upload and posts nothing, what *)
(* was answered while no delete of it was under way has a file until        *)
(* somebody deletes it, or the process crashes: for any number of uploads   *)
(* of any contents, deletes, and peers' checks, in any order.               *)
THEOREM AnsweredIsStoredCorrect == Renames => (DaySpec => []AnsweredIsStored)
  <1> SUFFICES ASSUME Renames PROVE DaySpec => []AnsweredIsStored
    OBVIOUS
  <1> DEFINE I == TypeInv /\ SurvivesInv /\ (crashes = 0 => AnsweredInv)
  <1>1. I => AnsweredIsStored
    BY DEF AnsweredInv, AnsweredIsStored
  <1>2. DayInit => I
    BY InitTypeInv, InitSurvives DEF DayInit, Init, AnsweredInv
  <1>3. I /\ [DayNext]_<<vars, day>> => I'
    <2> SUFFICES ASSUME I, [DayNext]_<<vars, day>> PROVE I'
      OBVIOUS
    <2>1. TypeInv' /\ SurvivesInv'
      BY NextTypeInv, NextSurvives
    <2>2. StoreInv /\ crashes \in Nat
      BY DEF TypeInv, DayTypes
    <2>3. CASE StoreStep
      BY <2>1, <2>2, <2>3, NextAnswers DEF StoreStep, SurvivesInv
    <2>4. CASE RecountScan \/ RecountPut \/ RecountWrite \/ UNCHANGED <<vars, day>>
      <3>1. UNCHANGED <<disk, answered, remove, fileLog, crashes>>
        BY <2>4 DEF RecountScan, RecountPut, RecountWrite, vars, store, day
      <3> QED
        BY <2>1, <2>2, <3>1, OthersAnswer
    <2>5. CASE Crash
      BY <2>1, <2>2, <2>5 DEF Crash
    <2> QED
      BY <2>3, <2>4, <2>5 DEF DayNext
  <1> QED
    BY <1>1, <1>2, <1>3, PTL DEF DaySpec
=============================================================================
