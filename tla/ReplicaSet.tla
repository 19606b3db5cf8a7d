----------------------------- MODULE ReplicaSet -----------------------------
(***************************************************************************)
(* What a cluster promises about a file that nobody deletes: a node gets   *)
(* the content from a client or from a node that already holds it, it      *)
(* never loses it, and it announces (indexes) only contents that it holds. *)
(***************************************************************************)
CONSTANTS
    Node, File,
    Uploads      \* the <<node, content>> pairs that clients may upload

VARIABLES
    stored,      \* stored[n]: the contents on the disk of node n
    indexed      \* indexed[n]: the contents node n answers for by md5

vars == <<stored, indexed>>

Init == /\ stored = [n \in Node |-> {}]
        /\ indexed = [n \in Node |-> {}]

(* A client uploads f to n. *)
Store(n, f) == /\ <<n, f>> \in Uploads
               /\ stored' = [stored EXCEPT ![n] = @ \cup {f}]
               /\ UNCHANGED indexed

(* Node n copies f from a node m that holds it. *)
Copy(m, n, f) == /\ f \in stored[m]
                 /\ stored' = [stored EXCEPT ![n] = @ \cup {f}]
                 /\ UNCHANGED indexed

(* Node n records f in its index, and only then answers for it. *)
Index(n, f) == /\ f \in stored[n]
               /\ indexed' = [indexed EXCEPT ![n] = @ \cup {f}]
               /\ UNCHANGED stored

Next == \E n \in Node, f \in File :
            \/ Store(n, f)
            \/ \E m \in Node : Copy(m, n, f)
            \/ Index(n, f)

Spec == Init /\ [][Next]_vars
=============================================================================
