----------------------------- MODULE AutoRepair -----------------------------
(***************************************************************************)
(* autoRepair beside the replication it repairs: every hour, and on a      *)
(* /repair request, a node compares the day's file count with that of each *)
(* peer.  Where they differ, it fetches the peer's md5s, asks the peer to  *)
(* post what only the peer has, and queues what only it has itself; where  *)
(* it has no count for the day, it makes the whole group post everything.  *)
(*                                                                         *)
(* What queues is Replication's toPeers; autoRepair itself only appends    *)
(* FileInfos to it, at its own node and, through receive_md5s and sync, at *)
(* others.                                                                 *)
(***************************************************************************)
EXTENDS Replication

CONSTANTS
    AutoRepairs,     \* the nodes that repair, by auto_repair or on request
    Forces,          \* the values of force that repairs are started with
    None

ASSUME ForcesAssumption == Forces \subseteq BOOLEAN
ASSUME AutoAssumption == AutoRepairs \subseteq Node
ASSUME NoneAssumption == None \notin Nat

VARIABLES
    count,       \* count[n]: <day>_fileCount of statMap, None when it has none
    repair,      \* repair[n]: the activation of autoRepair
    resend,      \* resend[n]: md5s that AppendFunc of ReceiveMd5s will queue
    forced,      \* forced[n]: md5s that a forced checkFileAndSendToPeer will
    begun,       \* history: the nodes that began a forced repair since the
                 \* last upload, crash or failed request
    counted,     \* where saveFileMd5Log is with the first entry of
                 \* fileLog[n]: "no", "passed" (not to be counted) or "added"
    uncounted    \* history: the files that ldb has and the count never will

counting  == <<counted, uncounted>>
asked     == <<repair, resend, forced, begun>>
repairing == <<count, counting, asked>>

NoRepair(n) == [pc |-> "off", todo |-> {}, peer |-> n, force |-> FALSE,
                send |-> {}, give |-> {}]

(* A process that started today has a count, one that runs since yesterday  *)
(* none before it counts a file.                                            *)
RepairInit == /\ Init
              /\ count \in [Node -> {0, None}]
              /\ repair = [n \in Node |-> NoRepair(n)]
              /\ resend = [n \in Node |-> {}]
              /\ forced = [n \in Node |-> {}]
              /\ begun = {}
              /\ counted = [n \in Node |-> "no"]
              /\ uncounted = [n \in Node |-> {}]

(* getMd5sByDate: the md5s of the day's files.md5 entries, which every save *)
(* in ldb writes along.                                                     *)
DayMd5s(n) == {f \in File : index[n][f] # NoInfo}

-----------------------------------------------------------------------------
(* saveFileMd5Log looks the md5 up in ldb and, where it is new, counts it   *)
(* and rewrites stat.json; only then does it save the entry.  Between the   *)
(* two, post goroutines may save the file themselves, peers may ask for the *)
(* count, and the process may die.                                          *)
CountsAnyLog(n, entry) == index[n][entry.file] = NoInfo
Counts(n, entry) == SavedInLdb(entry.kind) /\ index[n][entry.file] = NoInfo

CountLog(n) ==
    /\ alive[n] /\ fileLog[n] # <<>> /\ counted[n] = "no"
    /\ IF Counts(n, Head(fileLog[n]))
       THEN /\ count' = [count EXCEPT ![n] = IF @ = None THEN 1 ELSE @ + 1]
            /\ counted' = [counted EXCEPT ![n] = "added"]
       ELSE /\ counted' = [counted EXCEPT ![n] = "passed"]
            /\ UNCHANGED count
    /\ UNCHANGED <<vars, uncounted, asked>>

SaveLog(n) ==
    /\ counted[n] # "no"
    /\ ConsumeLog(n)
    /\ counted' = [counted EXCEPT ![n] = "no"]
    /\ UNCHANGED <<count, uncounted, asked>>

(* What is counted and not saved yet.                                       *)
InHand(n) == IF counted[n] = "added" THEN {Head(fileLog[n]).file} ELSE {}

(* stat.json keeps the count, unless the process dies while it rewrites it: *)
(* formatStatInfo cannot read the half file then, and today starts at 0.    *)
StatKept(n) == UNCHANGED <<count, uncounted>>
StatTorn(n) == /\ counted[n] = "added"
               /\ count' = [count EXCEPT ![n] = 0]
               /\ uncounted' = [uncounted EXCEPT ![n] = DayMd5s(n)]

CrashWithRepair(n) ==
    /\ Crash(n)
    /\ StatKept(n) \/ StatTorn(n)
    /\ counted' = [counted EXCEPT ![n] = "no"]
    /\ repair' = [repair EXCEPT ![n] = NoRepair(n)]
    /\ resend' = [resend EXCEPT ![n] = {}]
    /\ forced' = [forced EXCEPT ![n] = {}]
    /\ begun' = {}

(* NewService puts 0 for today, then formatStatInfo loads stat.json.  There *)
(* is one: the very first process found none, recounted and wrote it.       *)
RestartWithStat(n) ==
    /\ Restart(n)
    /\ count' = [count EXCEPT ![n] = IF @ = None THEN 0 ELSE @]
    /\ UNCHANGED <<counting, asked>>

UploadStep(n) ==
    /\ \E f \in File : Upload(n, f)
    /\ begun' = {}
    /\ UNCHANGED <<count, counting, repair, resend, forced>>

(* What a post goroutine saves before the log consumer has counted it, the  *)
(* log consumer will find in ldb.                                           *)
ReplicationStep(n) ==
    /\ \/ \E f \in File : ResendError(n, f) \/ LoadQueue(n, f)
       \/ \E t \in Poster : PostStep(n, t)
       \/ \E d \in Getter : GetStep(n, d)
    /\ begun' = IF faults' = faults THEN begun ELSE {}
    /\ uncounted' = [m \in Node |->
          uncounted[m] \cup (DayMd5s(m)' \ (DayMd5s(m) \cup InHand(m)))]
    /\ UNCHANGED <<count, counted, repair, resend, forced>>

-----------------------------------------------------------------------------
(* Nothing of n waits or runs.                                              *)
AtRest(n) ==
    /\ fileLog[n] = <<>> /\ toPeers[n] = <<>> /\ fromPeers[n] = <<>>
    /\ resend[n] = {} /\ forced[n] = {}
    /\ \A f \in File : toLoad[n][f] = NoInfo
    /\ \A t \in Poster : post[n][t].pc = "off"
    /\ \A d \in Getter : get[n][d].pc = "off"

(* autoRepair starts.  Bound: the nodes start at different times of an hour,*)
(* far enough apart for the group to have done what a repair asked of it.   *)
RepairStart(n) ==
    /\ n \in AutoRepairs
    /\ alive[n] /\ \A m \in Node : AtRest(m) /\ repair[m].pc = "off"
    /\ \E force \in Forces :
          /\ repair' = [repair EXCEPT ![n] =
                [NoRepair(n) EXCEPT !.pc = "stat", !.todo = Peers[n], !.force = force]]
          /\ begun' = IF force THEN begun \cup {n} ELSE begun
    /\ UNCHANGED <<vars, count, counting, resend, forced>>

(* The loop over the peers goes on, or ends.                                *)
NextPeer(n, todo) ==
    IF todo = {} THEN NoRepair(n)
    ELSE [NoRepair(n) EXCEPT !.pc = "stat", !.todo = todo, !.force = repair[n].force]

Skip(n, p) == repair' = [repair EXCEPT ![n] = NextPeer(n, @.todo \ {p})]
GoTo(n, pc, p) == repair' = [repair EXCEPT ![n].pc = pc, ![n].peer = p]

(* A request of autoRepair to the peer p fails, or is answered.             *)
Fails(p) == /\ Fault \/ (~ alive[p] /\ UNCHANGED faults)
            /\ begun' = {}
Answered(p) == alive[p] /\ UNCHANGED <<faults, begun>>

(* stat of the peer p: on to the next peer, or look for the difference, or  *)
(* make everybody post everything.                                          *)
RepairStat(n, p) ==
    /\ alive[n] /\ repair[n].pc = "stat" /\ p \in repair[n].todo
    /\ \/ Fails(p) /\ Skip(n, p)
       \/ /\ Answered(p)
          /\ \/ count[p] = None /\ Skip(n, p)
             \/ count[p] # None /\ count[n] = None /\ GoTo(n, "sync", p)
             \/ /\ count[p] # None /\ count[n] # None
                /\ IF count[n] # count[p] \/ repair[n].force
                   THEN GoTo(n, "diff", p)
                   ELSE Skip(n, p)
    /\ UNCHANGED <<alive, stable, chans, toLoad, post, get, crashes, count,
                   counting, resend, forced>>

(* Update: sync?force=1 at the peer, which passes it on to its own peers.   *)
RepairSync(n) ==
    LET p == repair[n].peer IN
    /\ alive[n] /\ repair[n].pc = "sync"
    /\ \/ Fails(p) /\ UNCHANGED forced
       \/ /\ Answered(p)
          /\ forced' = [m \in Node |->
                IF m = p \/ (m \in Peers[p] /\ alive[m])
                THEN forced[m] \cup DayMd5s(m) ELSE forced[m]]
    /\ Skip(n, p)
    /\ UNCHANGED <<alive, stable, chans, toLoad, post, get, crashes, count, counting,
                   resend>>

(* get_md5s_by_date of the peer, and of the own logDB.                      *)
RepairDiff(n) ==
    LET p == repair[n].peer IN
    /\ alive[n] /\ repair[n].pc = "diff"
    /\ \/ Fails(p) /\ Skip(n, p)
       \/ /\ Answered(p)
          /\ repair' = [repair EXCEPT ![n].pc = "give",
                ![n].give = DayMd5s(p) \ DayMd5s(n),
                ![n].send = DayMd5s(n) \ DayMd5s(p)]
    /\ UNCHANGED <<alive, stable, chans, toLoad, post, get, crashes, count,
                   counting, resend, forced>>

(* receive_md5s: the peer is told what only it has.                         *)
RepairGive(n) ==
    LET p == repair[n].peer IN
    /\ alive[n] /\ repair[n].pc = "give"
    /\ \/ Fails(p) /\ UNCHANGED resend
       \/ /\ Answered(p)
          /\ resend' = [resend EXCEPT ![p] = @ \cup repair[n].give]
    /\ GoTo(n, "send", p)
    /\ UNCHANGED <<alive, stable, chans, toLoad, post, get, crashes, count, counting,
                   forced>>

Queued(n, f, info) == toPeers' = [toPeers EXCEPT ![n] = Append(@, Job(f, info))]
NotSent(n, f) == UNCHANGED toPeers
Sent(n, f) == IF index[n][f] = NoInfo THEN UNCHANGED toPeers
                                      ELSE Queued(n, f, index[n][f])

(* What only the node itself has is queued for posting, one by one.         *)
RepairSend(n) ==
    LET job == repair[n] IN
    /\ alive[n] /\ job.pc = "send"
    /\ \/ /\ job.send = {}
          /\ Skip(n, job.peer) /\ UNCHANGED toPeers
       \/ \E f \in job.send :
             /\ Sent(n, f)
             /\ repair' = [repair EXCEPT ![n].send = @ \ {f}]
    /\ UNCHANGED <<alive, stable, fileLog, fromPeers, toLoad, post, get, env,
                   count, counting, resend, forced, begun>>

(* AppendFunc of ReceiveMd5s.                                               *)
Resend(n, f) ==
    /\ alive[n] /\ f \in resend[n]
    /\ resend' = [resend EXCEPT ![n] = @ \ {f}]
    /\ Sent(n, f)
    /\ UNCHANGED <<alive, stable, fileLog, fromPeers, toLoad, post, get, env,
                   count, counting, repair, forced, begun>>

(* The forced checkFileAndSendToPeer forgets which peers have the file.     *)
Forget(n, info) == [info EXCEPT !.peers = <<n>>]

ResendForced(n, f) ==
    /\ alive[n] /\ f \in forced[n]
    /\ forced' = [forced EXCEPT ![n] = @ \ {f}]
    /\ IF index[n][f] = NoInfo THEN UNCHANGED toPeers
                               ELSE Queued(n, f, Forget(n, index[n][f]))
    /\ UNCHANGED <<alive, stable, fileLog, fromPeers, toLoad, post, get, env,
                   count, counting, repair, resend, begun>>

RepairStep(n) == \/ RepairStart(n)
                 \/ \E p \in Node : RepairStat(n, p)
                 \/ RepairSync(n)
                 \/ RepairDiff(n)
                 \/ RepairGive(n)
                 \/ RepairSend(n)

RepairNext == \E n \in Node :
    \/ UploadStep(n)
    \/ ReplicationStep(n)
    \/ CountLog(n) \/ SaveLog(n)
    \/ \E f \in File : Resend(n, f) \/ ResendForced(n, f)
    \/ CrashWithRepair(n)
    \/ RestartWithStat(n)
    \/ RepairStep(n)

RepairSpec == RepairInit /\ [][RepairNext]_<<vars, repairing>>

-----------------------------------------------------------------------------
RepairState == [pc : {"off", "stat", "sync", "diff", "give", "send"},
                todo : SUBSET Node, peer : Node, force : BOOLEAN,
                send : SUBSET File, give : SUBSET File]

RepairTypeOK ==
    /\ TypeOK
    /\ count \in [Node -> Nat \cup {None}]
    /\ repair \in [Node -> RepairState]
    /\ resend \in [Node -> SUBSET File]
    /\ forced \in [Node -> SUBSET File]
    /\ begun \subseteq Node
    /\ counted \in [Node -> {"no", "passed", "added"}]
    /\ uncounted \in [Node -> SUBSET File]

(* The count that repairs compare is, up to the file just being saved, the  *)
(* number of files the node indexes without those that it could not count,  *)
(* in whatever order the log consumer, the post goroutines and the repairs  *)
(* write ldb; each crash of the node may leave one more counted than saved. *)
CountedFiles(n) == (DayMd5s(n) \cup InHand(n)) \ uncounted[n]
CrashesOf(n) == Cardinality({i \in DOMAIN crashes : crashes[i] = n})
CountOf(n) == IF count[n] = None THEN 0 ELSE count[n]

CountAccounted ==
    \A n \in Node :
        /\ Cardinality(CountedFiles(n)) <= CountOf(n)
        /\ CountOf(n) <= Cardinality(CountedFiles(n)) + CrashesOf(n)

(* Repair "after a failed synchronisation" (README_HANDLER.md): when every  *)
(* node has been through a forced repair, and nothing has failed meanwhile, *)
(* what a node indexes is wherever it does not take the file to be already, *)
(* whichever process died before it could post, whatever it had counted.    *)
OneRoundRepairs ==
    /\ begun = Node
    /\ \A n \in Node : alive[n] /\ AtRest(n) /\ repair[n].pc = "off"
    => \A n, m \in Node, f \in File :
          index[n][f] # NoInfo => f \in disk[m] \/ Contains(m, index[n][f].peers)

(* "Repair after a failed synchronisation" (README_HANDLER.md:140), forced: *)
(* after such a round the file is everywhere.                               *)
RoundReachesAll ==
    /\ begun = Node
    /\ \A n \in Node : alive[n] /\ AtRest(n) /\ repair[n].pc = "off"
    => \A n, m \in Node, f \in File : index[n][f] # NoInfo => f \in disk[m]
=============================================================================
