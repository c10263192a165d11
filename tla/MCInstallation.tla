--------------------------- MODULE MCInstallation ---------------------------
(* Small instances of Installation for TLC: so many setups and uninstalls. *)
EXTENDS Installation, TLC

CONSTANT MaxCommands

VARIABLE begun

BoundedInit == InstallInit /\ begun = 0

BoundedNext ==
  /\ InstallNext
  /\ begun' = IF at = "idle" /\ at' # "idle" THEN begun + 1 ELSE begun
  /\ begun' <= MaxCommands

boundedVars == <<installVars, begun>>

BoundedSpec == BoundedInit /\ [][BoundedNext]_boundedVars /\ WF_installVars(Spawn)
=============================================================================
