---------------------------- MODULE MetaHistory ----------------------------
(***************************************************************************)
(* What the exchange of Metas promises, without messages: a node holds at   *)
(* most one Meta of a path.  It comes from the node's own indexer, or it    *)
(* was made by some node and is newer than the one it replaces.             *)
(***************************************************************************)
EXTENDS Naturals

CONSTANTS
    Node,
    Path,
    NoMeta      \* in the place of a Meta that is not there

VARIABLES
    authored,   \* the Metas made by all nodes: path, revision and identity
    meta        \* the Meta that each node holds of each path

Init == /\ authored = {}
        /\ meta = [n \in Node |-> [p \in Path |-> NoMeta]]

\* A node makes a new Meta: whatever it held is replaced.
Author(n, m) ==
    /\ m \notin authored
    /\ authored' = authored \cup {m}
    /\ meta' = [meta EXCEPT ![n][m.path] = m]

\* A node takes over a newer Meta.
Adopt(n, m) ==
    /\ meta[n][m.path] # NoMeta => meta[n][m.path].revision < m.revision
    /\ meta' = [meta EXCEPT ![n][m.path] = m]
    /\ UNCHANGED authored

Next ==
    \E n \in Node :
        \/ \E m \in authored' : Author(n, m)
        \/ \E m \in authored : Adopt(n, m)

Spec == Init /\ [][Next]_<<authored, meta>>
=============================================================================
