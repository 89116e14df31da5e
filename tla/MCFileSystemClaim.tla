-------------------------- MODULE MCFileSystemClaim --------------------------
(* Small instances of FileSystemClaim for TLC.                              *)
EXTENDS ClaimTable

Two == {"sda", "sdb"}
Disks == {"wwn1", "wwn2"}
OneNode == {"n1"}
TwoNodes == {"n1", "n2"}

\* Every node reports both devices, each with its own WWN.
Shared(ns) == [n \in ns |-> [d \in Two |-> IF d = "sda" THEN "wwn1" ELSE "wwn2"]]
\* One node has not reported the second device.
Partial(ns) == [Shared(ns) EXCEPT !["n1"]["sdb"] = NoDisk]
\* The second device's WWN is no object name.
Odd(ns) == [Shared(ns) EXCEPT !["n1"]["sdb"] = BadName]

SharedOnOne == {Shared(OneNode)}
VaryingOnTwo == {Shared(TwoNodes), Partial(TwoNodes), Odd(TwoNodes)}

OneDevice == {<<"sda">>}
BothDevices == {<<"sda", "sdb">>}
EitherList == {<<"sda">>, <<"sda", "sdb">>}
AnyList == EitherList \cup {<<>>}
=============================================================================
