-------------------------- MODULE MCReleaseBundle --------------------------
(* Two builders of different versions, which have only the manifest's name in *)
(* common.                                                                 *)
EXTENDS ReleaseBundle

CONSTANTS b1, b2

MCArtifacts == [b \in Builders |-> IF b = b2 THEN <<"whl2">> ELSE <<"whl1">>]

\* Nothing fails, the builders' own system calls and process do, or others meddle.
MCFaultSets == {{}, {"oserror", "interrupt", "kill"}, {"move", "tamper"}}
=============================================================================
