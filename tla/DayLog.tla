------------------------------- MODULE DayLog -------------------------------
(***************************************************************************)
(* The day's file count beside the store that it counts.  statMap has it   *)
(* in memory, stat.json on disk, rewritten whenever the log consumer       *)
(* counts; repairStatByDate (a repair_stat request) counts the files.md5   *)
(* entries of logDB again and overwrites both, while the consumer goes on; *)
(* a process that starts reads stat.json back.                             *)
(*                                                                         *)
(* A crash may come between any two writes of the consumer, and amid the   *)
(* rewriting of stat.json.                                                 *)
(***************************************************************************)
EXTENDS LocalStore

CONSTANTS
    MaxRecounts,     \* bound: repair_stat requests
    MaxCrashes,      \* bound: crashes of the process
    Torn             \* content of a half-written stat.json

ASSUME DayAssumption == MaxRecounts \in Nat /\ MaxCrashes \in Nat
ASSUME TornAssumption == {None, Torn} \cap Int = {} /\ Torn # None

VARIABLES
    statJson,    \* <day>_fileCount in stat.json, None without a file
    recount,     \* the activation of repairStatByDate: its place, the count
                 \* it has, and whether nothing has changed since it began
    stale,       \* history: a recount that was disturbed, or a crash that cut
                 \* a count short, and no undisturbed recount since
    recounts,    \* recounts so far
    crashes      \* crashes so far

day == <<statJson, recount, stale, recounts, crashes>>

NoRecount == [pc |-> "idle", n |-> 0, clean |-> TRUE]

DayInit == /\ Init
           /\ statJson = None
           /\ recount = NoRecount
           /\ stale = FALSE
           /\ recounts = 0 /\ crashes = 0

(* A step of the store.  saveStat rewrites stat.json when a file counts.    *)
SavedOnlyMore == IF count' > count THEN count' ELSE statJson
SavedStat == IF count' # count THEN count' ELSE statJson

StoreStep ==
    /\ Next
    /\ statJson' = SavedStat
    /\ recount' = [recount EXCEPT !.clean = @ /\ UNCHANGED <<count, logFiles>>]
    /\ UNCHANGED <<stale, recounts, crashes>>

-----------------------------------------------------------------------------
(* repairStatByDate: the iterator's snapshot is counted ...                 *)
OneLess == Cardinality(logFiles) - 1
Entries == Cardinality(logFiles)

RecountScan ==
    /\ recount.pc = "idle" /\ recounts < MaxRecounts
    /\ recounts' = recounts + 1
    /\ recount' = [pc |-> "put", n |-> Entries, clean |-> ~ counted]
    /\ UNCHANGED <<vars, statJson, stale, crashes>>

(* ... statMap.Put; saveStat copies statMap ...                             *)
RecountPut ==
    /\ recount.pc = "put"
    /\ count' = recount.n
    /\ stale' = (stale \/ ~ recount.clean)
    /\ recount' = [recount EXCEPT !.pc = "write"]
    /\ UNCHANGED <<disk, ldb, logFiles, counted, fileLog, upload, remove, posting,
                   sent, uploads, drawn, answered, statJson, recounts, crashes>>

(* ... and writes the copy.                                                 *)
RecountWrite ==
    /\ recount.pc = "write"
    /\ statJson' = recount.n
    /\ stale' = ~ recount.clean
    /\ recount' = NoRecount
    /\ UNCHANGED <<vars, recounts, crashes>>

-----------------------------------------------------------------------------
(* The writes of the log consumer that are done when the process dies.      *)
Interrupted ==
    LET kind == Head(fileLog).kind
        info == Head(fileLog).info
    IN
    \/ UNCHANGED <<ldb, logFiles>>
    \/ /\ counted /\ kind = "files"
       /\ logFiles' = logFiles \cup {info.md5}
       /\ ldb' \in {ldb, [ldb EXCEPT ![info.md5] = info]}
    \/ /\ counted /\ kind = "removes"
       /\ ldb' \in {[ldb EXCEPT ![info.md5] = None], Forgotten(info)}
       /\ UNCHANGED logFiles

(* Is stat.json being rewritten?                                            *)
Rewriting ==
    \/ recount.pc = "write"
    \/ /\ counted
       /\ LET f == Head(fileLog).info.md5 IN
          IF Head(fileLog).kind = "files" THEN ldb[f] = None ELSE ldb[f] # None

(* The process dies, and starts again: NewService puts 0 for the day, and   *)
(* formatStatInfo reads stat.json, which fails on half a file, or recounts  *)
(* when there is none.                                                      *)
Crash ==
    /\ crashes < MaxCrashes
    /\ crashes' = crashes + 1
    /\ Interrupted
    /\ \/ /\ statJson' = IF statJson = None THEN Cardinality(logFiles') ELSE statJson
          /\ count' = IF statJson = Torn THEN 0 ELSE statJson'
          /\ stale' = (stale \/ (counted /\ Head(fileLog).kind = "removes"))
       \/ /\ Rewriting
          /\ statJson' = Torn /\ count' = 0 /\ stale' = TRUE
    /\ counted' = FALSE
    /\ fileLog' = <<>>
    /\ upload' = [u \in Uploader |-> NoUpload]
    /\ remove' = [d \in Deleter |-> NoRemove]
    /\ posting' = {} /\ sent' = {}
    /\ recount' = NoRecount
    /\ UNCHANGED <<disk, uploads, drawn, answered, recounts>>

DayNext == StoreStep \/ RecountScan \/ RecountPut \/ RecountWrite \/ Crash

DaySpec == DayInit /\ [][DayNext]_<<vars, day>>

-----------------------------------------------------------------------------
DayTypeOK ==
    /\ TypeOK
    /\ statJson \in Int \cup {None, Torn}
    /\ recount \in [pc : {"idle", "put", "write"}, n : Nat, clean : BOOLEAN]
    /\ stale \in BOOLEAN
    /\ recounts \in 0..MaxRecounts /\ crashes \in 0..MaxCrashes

(* The count that autoRepair compares falls below the number of the day's   *)
(* files.md5 entries only by a recount during which something was counted,  *)
(* or by a crash amid a count; neither restarts at other times nor uploads, *)
(* deletes and checks in any order do it, and the next undisturbed recount  *)
(* mends it (repair_stat).                                                  *)
CountTrusted == ~ stale => CountNeverBelowLog

(* And stat.json, which the next start reads, says the same.                *)
StatFileIsCount ==
    ~ stale /\ recount.pc = "idle" => statJson = count \/ (statJson = None /\ count = 0)

(* Between requests an entry of ldb leads to its content; only a crash that *)
(* lost a delete's log entry leaves one that leads nowhere, and none ever   *)
(* leads to another's content.                                              *)
QuietIndexSurvives ==
    Quiet => \A k \in Key : ldb[k] # None =>
        \/ disk[ldb[k].path] = ldb[k].md5
        \/ crashes > 0 /\ ~ Exists(ldb[k].path)

(* A content that was answered, while no delete of it was under way, is on  *)
(* the disk until somebody deletes it: no duplicate is removed for a copy   *)
(* that a delete has removed and the log has yet to forget.  A crash may    *)
(* lose that log entry; until then it holds.                                *)
AnsweredIsStored ==
    crashes = 0 => \A f \in answered : \E p \in Path : disk[p] = f
=============================================================================
