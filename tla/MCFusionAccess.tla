---------------------------- MODULE MCFusionAccess ----------------------------
(* Small instances of FusionAccess for TLC.                                   *)
EXTENDS FusionAccess

TwoNamespaces == {"ours", "scale"}
OneNamespace == {"ours"}

\* Users ask for the bundled version and leave it out, or also name it.
Plain == [url: {"bundled"}, discover: {TRUE}, named: {FALSE}]
Usual == [url: {"bundled"}, discover: {TRUE}, named: BOOLEAN]
=============================================================================
