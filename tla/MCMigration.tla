----------------------------- MODULE MCMigration -----------------------------
(* Small instances of Migration for TLC: one filesystem of two disks.       *)
EXTENDS Migration

Two == {"sda", "sdb"}
Disks == {"wwn1", "wwn2"}
OneNode == {"n1"}

Paths == [w \in Disks |-> IF w = "wwn1" THEN "sda" ELSE "sdb"]
SharedOnOne == {[n \in OneNode |-> [d \in Two |-> IF d = "sda" THEN "wwn1" ELSE "wwn2"]]}
BothDevices == {<<"sda", "sdb">>}
=============================================================================
