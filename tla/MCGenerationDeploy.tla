------------------------- MODULE MCGenerationDeploy -------------------------
(* Small instances of GenerationDeploy for TLC.                            *)
EXTENDS GenerationDeploy

MCIds == 1..3
MCIdsTwo == 1..2
MCKillIo == {"kill", "io"}
MCKillPower == {"kill", "power"}
MCIo == {"io"}

\* The next-state relation without power losses.
CrashNext ==
    \E p \in Procs : (\E o \in Operations : Begin(p, o)) \/ Step(p) \/ Fail(p) \/ Kill(p)
CrashSpec == Init /\ [][CrashNext]_vars /\ Fairness
=============================================================================
