--------------------------- MODULE MCInstanceInstall ---------------------------
(* Instances of InstanceInstall for TLC.                                     *)
EXTENDS InstanceInstall

\* The second version changes f and adds g.
MCManifest == [v \in Versions |-> IF v = "v2" THEN {"f", "g"} ELSE {"f"}]
===============================================================================
