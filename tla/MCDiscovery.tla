----------------------------- MODULE MCDiscovery -----------------------------
(* Small instances of Discovery for TLC: two nodes.                         *)
EXTENDS Discovery

TwoNodes == {"n1", "n2"}
TwoDisks == {"d1", "d2"}
OneDisk == {{"d1"}}
OtherDisks == {{}, {"d1"}, {"d2"}}
FirstNode == {{"n1"}}
=============================================================================
