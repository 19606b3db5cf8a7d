---------------------------- MODULE RemoveFanout ----------------------------
(***************************************************************************)
(* RemoveFile across the cluster.  The node that a client asks starts a    *)
(* goroutine per peer that passes the request on with inner=1, and deletes *)
(* its own copy meanwhile.  The goroutines and the handler share the       *)
(* variables delUrl and err of the handler.                                *)
(*                                                                         *)
(* The model is that of one whole file, which all nodes have at the start, *)
(* and of requests with a valid md5 from a permitted address.              *)
(***************************************************************************)
EXTENDS Naturals, FiniteSets

CONSTANTS
    Node,            \* the nodes of the group
    Peers,           \* Peers[n]: the peers list of node n's configuration
    MaxFaults,       \* bound: requests or replies lost by the network
    NoUrl            \* the empty string

VARIABLES
    disk,        \* the nodes that have the file
    ldb,         \* the nodes whose ldb has the md5
    removeLog,   \* removeLog[n]: removes.md5 entries in queueFileLog
    handler,     \* handler[n]: the handler of the client's request at n
    delUrl,      \* delUrl[n]: its variable delUrl, a peer
    err,         \* err[n]: its variable err: is it not nil?
    pass,        \* pass[n][p]: the goroutine of DelFileFunc, and the request
                 \* it waits for, at node pass[n][p].at
    asked,       \* history: nodes that a client asked to delete the file
    faults       \* lost requests and replies so far

vars == <<disk, ldb, removeLog, handler, delUrl, err, pass, asked, faults>>

NoPass(n) == [pc |-> "off", at |-> n]

Init ==
    /\ disk = Node
    /\ ldb = Node
    /\ removeLog = [n \in Node |-> 0]
    /\ handler = [n \in Node |-> "off"]
    /\ delUrl = [n \in Node |-> NoUrl]
    /\ err = [n \in Node |-> FALSE]
    /\ pass = [n \in Node |-> [p \in Node |-> NoPass(n)]]
    /\ asked = {}
    /\ faults = 0

(* A client asks n.  Bound: once each.                                      *)
Ask(n) ==
    /\ n \notin asked
    /\ asked' = asked \cup {n}
    /\ handler' = [handler EXCEPT ![n] = "lookup"]
    /\ pass' = [pass EXCEPT ![n] = [p \in Node |->
          IF p \in Peers[n] THEN [pc |-> "url", at |-> p] ELSE NoPass(n)]]
    /\ UNCHANGED <<disk, ldb, removeLog, delUrl, err, faults>>

-----------------------------------------------------------------------------
Goes(n, p, from, to) == /\ pass[n][p].pc = from
                        /\ pass' = [pass EXCEPT ![n][p].pc = to]

(* delUrl = peer + the delete URI ...                                       *)
SetUrl(n, p) ==
    /\ Goes(n, p, "url", "post")
    /\ delUrl' = [delUrl EXCEPT ![n] = p]
    /\ UNCHANGED <<disk, ldb, removeLog, handler, err, asked, faults>>

(* ... httplib.Post(delUrl), which another goroutine may have set by now,   *)
(* or be setting: half of one URL and half of another reach nobody.         *)
Post(n, p) ==
    /\ pass[n][p].pc = "post"
    /\ \/ pass' = [pass EXCEPT ![n][p] = [pc |-> "lookup", at |-> delUrl[n]]]
       \/ /\ \E q \in Node : pass[n][q].pc = "url"
          /\ pass' = [pass EXCEPT ![n][p].pc = "failed"]
    /\ UNCHANGED <<disk, ldb, removeLog, handler, delUrl, err, asked, faults>>

(* The request or its answer is lost; a request that arrived goes on.       *)
Lost(n, p) ==
    /\ faults < MaxFaults /\ faults' = faults + 1
    /\ Goes(n, p, "lookup", "failed") \/ Goes(n, p, "answered", "failed")
    /\ UNCHANGED <<disk, ldb, removeLog, handler, delUrl, err, asked>>

(* req.String() assigns err.                                                *)
Done(n, p) ==
    /\ pass[n][p].pc \in {"answered", "failed"}
    /\ err' = [err EXCEPT ![n] = pass[n][p].pc = "failed"]
    /\ pass' = [pass EXCEPT ![n][p] = NoPass(n)]
    /\ UNCHANGED <<disk, ldb, removeLog, handler, delUrl, asked, faults>>

-----------------------------------------------------------------------------
(* A file that is known and there: log its removal ...                      *)
Logs(m) == /\ m \in ldb /\ m \in disk
           /\ removeLog' = [removeLog EXCEPT ![m] = @ + 1]
Unlinks(m) == disk' = disk \ {m}

(* The request passed on, with inner=1, at the node it came to.             *)
InnerLookup(n, p) ==
    LET m == pass[n][p].at IN
    /\ \/ Logs(m) /\ Goes(n, p, "lookup", "unlink")
       \/ /\ m \notin ldb \/ m \notin disk
          /\ Goes(n, p, "lookup", "answered")
          /\ UNCHANGED removeLog
    /\ UNCHANGED <<disk, ldb, handler, delUrl, err, asked, faults>>

InnerUnlink(n, p) ==
    /\ Goes(n, p, "unlink", "answered")
    /\ Unlinks(pass[n][p].at)
    /\ UNCHANGED <<ldb, removeLog, handler, delUrl, err, asked, faults>>

(* The client's request at n itself.  GetFileInfoFromLevelDB assigns err;   *)
(* the test of err comes after it, and a goroutine may come in between: an  *)
(* error of its own ends the handler, as does a FileInfo that is nil with   *)
(* an error that has been overwritten.                                      *)
Lookup(n) ==
    /\ handler[n] = "lookup"
    /\ handler' = [handler EXCEPT ![n] = IF n \in ldb THEN "test" ELSE "off"]
    /\ err' = [err EXCEPT ![n] = n \notin ldb]
    /\ UNCHANGED <<disk, ldb, removeLog, delUrl, pass, asked, faults>>

Test(n) ==
    /\ handler[n] = "test"
    /\ \/ /\ ~ err[n] /\ Logs(n)
          /\ handler' = [handler EXCEPT ![n] = "unlink"]
       \/ /\ err[n] \/ n \notin disk
          /\ handler' = [handler EXCEPT ![n] = "off"]
          /\ UNCHANGED removeLog
    /\ UNCHANGED <<disk, ldb, delUrl, err, pass, asked, faults>>

Unlink(n) ==
    /\ handler[n] = "unlink"
    /\ Unlinks(n)
    /\ handler' = [handler EXCEPT ![n] = "off"]
    /\ UNCHANGED <<ldb, removeLog, delUrl, err, pass, asked, faults>>

(* consumerLog: saveFileMd5Log of a removes.md5 entry.                      *)
ConsumeLog(n) ==
    /\ removeLog[n] > 0
    /\ removeLog' = [removeLog EXCEPT ![n] = @ - 1]
    /\ ldb' = ldb \ {n}
    /\ UNCHANGED <<disk, handler, delUrl, err, pass, asked, faults>>

Next == \E n \in Node :
    \/ Ask(n) \/ Lookup(n) \/ Test(n) \/ Unlink(n) \/ ConsumeLog(n)
    \/ \E p \in Node : \/ SetUrl(n, p) \/ Post(n, p)
                       \/ Lost(n, p) \/ Done(n, p)
                       \/ InnerLookup(n, p) \/ InnerUnlink(n, p)

Spec == Init /\ [][Next]_vars

-----------------------------------------------------------------------------
(* "Asynchronously, call the interface that deletes the file at all nodes   *)
(* of the cluster" (web/handler.go:471): when a delete is through and no    *)
(* message was lost, no node that it was to reach has the file.             *)
DeletedEverywhere ==
    /\ faults = 0
    /\ \A n \in Node : handler[n] = "off" /\ \A p \in Node : pass[n][p].pc = "off"
    => \A n \in asked : disk \cap ({n} \cup Peers[n]) = {}
=============================================================================
