---------------------------- MODULE MCServiceCalls ----------------------------
(* The calls of InstallService and JavaService that share locks and nest.    *)
EXTENDS ServiceCalls

MCKeys == {"versions/v", "versions/fabric", "versions/neo", "assets", "libraries"}
MCSingles == {"installJava"}

LocksOf(c) ==
  CASE c = "reinstall" -> {"versions/v"}
    [] c = "installFabric" -> {"versions/fabric"}
    [] c = "installNeoForged" -> {"versions/neo", "libraries"}
    [] c = "installAssetsForVersion" -> {"versions/v", "assets"}
    [] c = "installDependencies" -> {"assets", "libraries"}
    [] OTHER -> {}

\* java and java2 are two calls of installJava.
SingleKey(c) == IF c \in {"java", "java2"} THEN "installJava" ELSE NoSingle

\* A version of Fabric is reinstalled.
FabricCalls == {"reinstall", "installFabric", "installAssetsForVersion",
                "installDependencies", "java", "java2"}
FabricLocks == [c \in FabricCalls |-> LocksOf(c)]
FabricSingles == [c \in FabricCalls |-> SingleKey(c)]
FabricBody == [c \in FabricCalls |-> IF c = "reinstall" THEN <<"installFabric">> ELSE <<>>]

\* A version of NeoForge is reinstalled.
NeoCalls == {"reinstall", "installNeoForged", "installAssetsForVersion", "installDependencies"}
NeoLocks == [c \in NeoCalls |-> LocksOf(c)]
NeoSingles == [c \in NeoCalls |-> SingleKey(c)]
NeoBody == [c \in NeoCalls |-> IF c = "reinstall" THEN <<"installNeoForged">> ELSE <<>>]
===============================================================================
