------------------------------ MODULE MCConsole ------------------------------
(***************************************************************************)
(* Console for TLC: two nodes, two disks, two paths.                       *)
(***************************************************************************)
EXTENDS Console

CONSTANTS n1, n2, p1, p2, w1, w2, nameA

MCNodes == {n1, n2}
MCNodeOrder == <<n1, n2>>
MCPaths == {p1, p2}
MCWwns == {w1, w2}
MCNames == {nameA}

Dev(a, b) == [p \in MCPaths |-> IF p = p1 THEN a ELSE b]

\* The nodes see both disks under different paths; the second node sees one disk
\* only, and the first has renumbered its devices; the second node has no result.
Swapped == [nodes |-> MCNodes,
            dev |-> [n \in MCNodes |-> IF n = n1 THEN Dev(w2, w1) ELSE Dev(w1, w2)]]
Missing == [nodes |-> {n1},
            dev |-> [n \in MCNodes |-> IF n = n1 THEN Dev(w1, w2) ELSE Dev(NoDisk, NoDisk)]]
OneShared == [nodes |-> MCNodes,
              dev |-> [n \in MCNodes |-> IF n = n1 THEN Dev(w1, w2) ELSE Dev(NoDisk, w2)]]

MCDiscoveries == {Swapped, OneShared, Missing}
MCFirstLabels == {[n \in MCNodes |-> {Storage}]}
MCFirstDisks == {{}}
=============================================================================
