-------------------------- MODULE InstallationProofs --------------------------
(***************************************************************************)
(* For any number of versions, ports and interruptions: a service that is  *)
(* defined has a runtime, a setup that reports success leaves one version  *)
(* everywhere, the address stays, and a daemon that is down and due can be *)
(* started.                                                                *)
(***************************************************************************)
EXTENDS Installation, TLAPS

Reported == {"probe", "start", "await"}
Started  == {"restart"} \cup Reported
Defined  == {"prune", "unload", "load"} \cup Started
Recorded == {"definition"} \cup Defined
Copied   == {"manifest"} \cup Recorded
Linked   == {"skill", "copying"} \cup Copied
Chosen   == {"mkdir", "runtime", "pack", "packing", "link", "skill", "copying", "manifest"}

\* Where a setup or an uninstall is says what is in place.
RunInv ==
  /\ definition # None => current \in runtime
  /\ at \in {"pack", "packing", "link"} => job.version \in runtime
  /\ at \in Linked => current = job.version /\ current \in runtime
  /\ at \in {"unskill", "empty"} => definition = None

\* What a setup is going to record is what was recorded, unless it was asked otherwise.
AddressInv ==
  /\ at \in Chosen /\ manifest # None /\ ~job.asked =>
       job.port = manifest.port /\ job.url = manifest.url

\* A setup's steps add up to what SetupComplete says.
UrlInv ==
  /\ manifest # None => manifest.url \in {Public, manifest.port}
  /\ at \in Chosen \cup Recorded => job.url \in {Public, job.port}

SkillInv ==
  /\ at \in {"mkdir", "runtime"} /\ job.own => packed[job.version] # "none"
  /\ at \in {"link", "skill", "copying"} => packed[job.version] # "none"
  /\ at \in Copied => /\ skill = [of |-> job.version, is |-> packed[job.version]]
                      /\ packed[job.version] # "none"

ServiceInv ==
  /\ at \in Recorded => manifest = [version |-> job.version, port |-> job.port, url |-> job.url]
  /\ at \in Defined => definition = job.port
  /\ at \in Started => service = job.port /\ enabled
  /\ at \in Reported /\ daemon # None => daemon = [version |-> job.version, port |-> job.port]

DoneInv == installed => at = "idle" /\ enabled /\ manifest # None

JobInv ==
  at \in Chosen \cup Recorded =>
    job.version \in Versions /\ job.port \in Ports /\ job.url \in Ports \cup {Public}

IInv == InstallTypeOK /\ JobInv /\ RunInv /\ AddressInv /\ UrlInv /\ SkillInv /\ ServiceInv /\ DoneInv

-----------------------------------------------------------------------------
\* What a setup has decided when it begins.
SetupAsked ==
  /\ at' = "mkdir" /\ ~installed'
  /\ job' \in [version : Versions, own : BOOLEAN, port : Ports, url : Ports \cup {Public},
               asked : BOOLEAN, purge : BOOLEAN]
  /\ job'.own => packed[job'.version] # "none"
  /\ manifest # None /\ ~job'.asked => job'.port = manifest.port /\ job'.url = manifest.url
  /\ \/ job'.url \in {Public, job'.port}
     \/ manifest # None /\ job'.url = manifest.url /\ manifest.url # manifest.port
  /\ installed' = FALSE
  /\ UNCHANGED <<platform, files, config, managed, foreign, starting>>

LEMMA SetupAsks == FilesOK /\ ServicesOK /\ Setup => SetupAsked
<1> SUFFICES ASSUME FilesOK, ServicesOK, Setup PROVE SetupAsked
  OBVIOUS
<1>0. PICK s \in Sources, request \in Ports \cup {None}, public \in BOOLEAN :
        \E p \in Choices(request) :
          job' = [version |-> s.version, own |-> s.own, port |-> p,
                  url |-> IF public THEN Public ELSE BaseUrl(p),
                  asked |-> request # None \/ public, purge |-> FALSE]
  BY DEF Setup
<1>1. PICK p \in Choices(request) :
        job' = [version |-> s.version, own |-> s.own, port |-> p,
                url |-> IF public THEN Public ELSE BaseUrl(p),
                asked |-> request # None \/ public, purge |-> FALSE]
  BY <1>0
<1>2. s.version \in Versions /\ s.own \in BOOLEAN /\ (s.own => packed[s.version] # "none")
  <2>1. CASE s \in {[version |-> v, own |-> FALSE] : v \in Versions}
    <3>1. PICK v \in Versions : s = [version |-> v, own |-> FALSE]
      BY <2>1
    <3> QED
      BY <3>1
  <2>2. CASE s \in {[version |-> v, own |-> TRUE] :
                      v \in {w \in runtime : w = current /\ packed[w] # "none"}}
    <3>1. PICK v \in runtime : packed[v] # "none" /\ s = [version |-> v, own |-> TRUE]
      BY <2>2
    <3> QED
      BY <3>1 DEF FilesOK
  <2> QED
    BY <2>1, <2>2 DEF Sources
<1>3. p \in Ports /\ (manifest # None /\ request = None => p = manifest.port)
  BY InstallAssumption DEF Choices, ServicesOK
<1>4. /\ BaseUrl(p) \in Ports \cup {Public}
      /\ \/ BaseUrl(p) = p
         \/ manifest # None /\ BaseUrl(p) = manifest.url /\ manifest.url # manifest.port
      /\ manifest # None /\ p = manifest.port => BaseUrl(p) = manifest.url
  BY <1>3 DEF BaseUrl, ServicesOK
<1>5. at' = "mkdir" /\ installed' = FALSE /\ UNCHANGED <<platform, files, config, managed, foreign, starting>>
  BY DEF Setup
<1> QED
  BY <1>1, <1>2, <1>3, <1>4, <1>5 DEF SetupAsked

\* Commands and what they were asked stay in their ranges.
LEMMA CommandsStep ==
  FilesOK /\ ServicesOK /\ CommandsOK /\ JobInv /\ [InstallNext]_installVars => (CommandsOK /\ JobInv)'
<1> SUFFICES ASSUME FilesOK /\ ServicesOK /\ CommandsOK /\ JobInv, [InstallNext]_installVars
             PROVE  (CommandsOK /\ JobInv)'
  OBVIOUS
<1> USE InstallAssumption DEF CommandsOK, JobInv, Places, Reported, Started, Defined, Recorded, Copied, Linked, Chosen, files, config, managed
<1>1. CASE Setup
  BY <1>1, SetupAsks DEF SetupAsked
<1>2. CASE MakeDirectory
  BY <1>2 DEF MakeDirectory, Admin
<1>3. CASE PlaceRuntime
  BY <1>3 DEF PlaceRuntime, Admin
<1>4. CASE ReplacePacked
  BY <1>4 DEF ReplacePacked, Admin
<1>5. CASE Packed
  BY <1>5 DEF Packed, Admin
<1>6. CASE Link
  BY <1>6 DEF Link, Admin
<1>7. CASE ReplaceSkill
  BY <1>7 DEF ReplaceSkill, NoSkill, PartOfSkill, Admin
<1>8. CASE CopySkill
  BY <1>8 DEF CopySkill, Admin
<1>9. CASE WriteManifest
  BY <1>9 DEF WriteManifest, Admin
<1>10. CASE WriteDefinition
  BY <1>10 DEF WriteDefinition, Admin
<1>11. CASE Prune
  BY <1>11 DEF Prune, Remove, Prunable, Admin
<1>12. CASE Pruned
  BY <1>12 DEF Pruned, Prunable, Admin
<1>13. CASE Unload
  BY <1>13 DEF Unload, Admin
<1>14. CASE Load
  BY <1>14 DEF Load, Admin
<1>15. CASE Restart
  BY <1>15 DEF Restart, Admin
<1>16. CASE ProbeDown
  BY <1>16 DEF ProbeDown, Admin
<1>17. CASE SetupStarts
  BY <1>17 DEF SetupStarts, Kickstart, Admin
<1>18. CASE Finish
  BY <1>18 DEF Finish, Answers, Bound, Origin, EndAdmin, NoJob
<1>19. CASE Uninstall
  BY <1>19 DEF Uninstall, NoJob
<1>20. CASE RemoveService
  BY <1>20 DEF RemoveService, Admin
<1>21. CASE RemoveDefinition
  BY <1>21 DEF RemoveDefinition, Admin
<1>22. CASE RemoveSkill
  BY <1>22 DEF RemoveSkill, NoSkill, PartOfSkill, Admin
<1>23. CASE Empty
  BY <1>23 DEF Empty, Remove, ClearsManifest, Admin
<1>24. CASE Emptied
  BY <1>24 DEF Emptied, EndAdmin, NoJob
<1>25. CASE Killed
  BY <1>25 DEF Killed, EndAdmin, NoJob
<1>26. CASE FoundDown
  BY <1>26 DEF FoundDown
<1>27. CASE OtherStarts
  <2>1. starting' \in BOOLEAN
    BY <1>27 DEF OtherStarts
  <2>2. UNCHANGED <<platform, at, job, installed>>
    BY <1>27 DEF OtherStarts
  <2> QED
    BY <2>1, <2>2
<1>28. CASE Spawn
  BY <1>28 DEF Spawn, Startup
<1>29. CASE Dies
  BY <1>29 DEF Dies
<1>30. CASE Stops
  BY <1>30 DEF Stops
<1>31. CASE Reboot
  BY <1>31 DEF Reboot, EndAdmin, NoJob
<1>32. CASE Occupy
  BY <1>32 DEF Occupy
<1>33. CASE UNCHANGED installVars
  BY <1>33 DEF installVars
<1> QED
  BY <1>1, <1>2, <1>3, <1>4, <1>5, <1>6, <1>7, <1>8, <1>9, <1>10, <1>11, <1>12, <1>13, <1>14, <1>15, <1>16, <1>17, <1>18, <1>19, <1>20, <1>21, <1>22, <1>23, <1>24, <1>25, <1>26, <1>27, <1>28, <1>29, <1>30, <1>31, <1>32, <1>33
  DEF InstallNext, SetupStep, UninstallStep

\* The files do.
LEMMA FilesStep ==
  FilesOK /\ ServicesOK /\ CommandsOK /\ JobInv /\ [InstallNext]_installVars => FilesOK'
<1> SUFFICES ASSUME FilesOK /\ ServicesOK /\ CommandsOK /\ JobInv, [InstallNext]_installVars
             PROVE  FilesOK'
  OBVIOUS
<1> USE InstallAssumption DEF FilesOK, JobInv, Skills, Reported, Started, Defined, Recorded, Copied, Linked, Chosen, files, config, managed
<1>1. CASE Setup
  BY <1>1, SetupAsks DEF SetupAsked
<1>2. CASE MakeDirectory
  BY <1>2 DEF MakeDirectory, Admin
<1>3. CASE PlaceRuntime
  BY <1>3 DEF PlaceRuntime, Admin
<1>4. CASE ReplacePacked
  BY <1>4 DEF ReplacePacked, Admin
<1>5. CASE Packed
  BY <1>5 DEF Packed, Admin
<1>6. CASE Link
  BY <1>6 DEF Link, Admin
<1>7. CASE ReplaceSkill
  BY <1>7 DEF ReplaceSkill, NoSkill, PartOfSkill, Admin
<1>8. CASE CopySkill
  BY <1>8 DEF CopySkill, Admin
<1>9. CASE WriteManifest
  BY <1>9 DEF WriteManifest, Admin
<1>10. CASE WriteDefinition
  BY <1>10 DEF WriteDefinition, Admin
<1>11. CASE Prune
  BY <1>11 DEF Prune, Remove, Prunable, Admin
<1>12. CASE Pruned
  BY <1>12 DEF Pruned, Prunable, Admin
<1>13. CASE Unload
  BY <1>13 DEF Unload, Admin
<1>14. CASE Load
  BY <1>14 DEF Load, Admin
<1>15. CASE Restart
  BY <1>15 DEF Restart, Admin
<1>16. CASE ProbeDown
  BY <1>16 DEF ProbeDown, Admin
<1>17. CASE SetupStarts
  BY <1>17 DEF SetupStarts, Kickstart, Admin
<1>18. CASE Finish
  BY <1>18 DEF Finish, Answers, Bound, Origin, EndAdmin, NoJob
<1>19. CASE Uninstall
  BY <1>19 DEF Uninstall, NoJob
<1>20. CASE RemoveService
  BY <1>20 DEF RemoveService, Admin
<1>21. CASE RemoveDefinition
  BY <1>21 DEF RemoveDefinition, Admin
<1>22. CASE RemoveSkill
  BY <1>22 DEF RemoveSkill, NoSkill, PartOfSkill, Admin
<1>23. CASE Empty
  BY <1>23 DEF Empty, Remove, ClearsManifest, Admin
<1>24. CASE Emptied
  BY <1>24 DEF Emptied, EndAdmin, NoJob
<1>25. CASE Killed
  BY <1>25 DEF Killed, EndAdmin, NoJob
<1>26. CASE FoundDown
  BY <1>26 DEF FoundDown
<1>27. CASE OtherStarts
  BY <1>27 DEF OtherStarts
<1>28. CASE Spawn
  BY <1>28 DEF Spawn, Startup
<1>29. CASE Dies
  BY <1>29 DEF Dies
<1>30. CASE Stops
  BY <1>30 DEF Stops
<1>31. CASE Reboot
  BY <1>31 DEF Reboot, EndAdmin, NoJob
<1>32. CASE Occupy
  BY <1>32 DEF Occupy
<1>33. CASE UNCHANGED installVars
  BY <1>33 DEF installVars
<1> QED
  BY <1>1, <1>2, <1>3, <1>4, <1>5, <1>6, <1>7, <1>8, <1>9, <1>10, <1>11, <1>12, <1>13, <1>14, <1>15, <1>16, <1>17, <1>18, <1>19, <1>20, <1>21, <1>22, <1>23, <1>24, <1>25, <1>26, <1>27, <1>28, <1>29, <1>30, <1>31, <1>32, <1>33
  DEF InstallNext, SetupStep, UninstallStep

\* And the service does.
LEMMA ServicesStep ==
  FilesOK /\ ServicesOK /\ JobInv /\ [InstallNext]_installVars => ServicesOK'
<1> SUFFICES ASSUME FilesOK /\ ServicesOK /\ JobInv, [InstallNext]_installVars
             PROVE  ServicesOK'
  OBVIOUS
<1> USE InstallAssumption DEF FilesOK, ServicesOK, JobInv, Reported, Started, Defined, Recorded, Copied, Linked, Chosen, files, config, managed
<1>1. CASE Setup
  BY <1>1, SetupAsks DEF SetupAsked
<1>2. CASE MakeDirectory
  BY <1>2 DEF MakeDirectory, Admin
<1>3. CASE PlaceRuntime
  BY <1>3 DEF PlaceRuntime, Admin
<1>4. CASE ReplacePacked
  BY <1>4 DEF ReplacePacked, Admin
<1>5. CASE Packed
  BY <1>5 DEF Packed, Admin
<1>6. CASE Link
  BY <1>6 DEF Link, Admin
<1>7. CASE ReplaceSkill
  BY <1>7 DEF ReplaceSkill, NoSkill, PartOfSkill, Admin
<1>8. CASE CopySkill
  BY <1>8 DEF CopySkill, Admin
<1>9. CASE WriteManifest
  BY <1>9 DEF WriteManifest, Admin
<1>10. CASE WriteDefinition
  BY <1>10 DEF WriteDefinition, Admin
<1>11. CASE Prune
  BY <1>11 DEF Prune, Remove, Prunable, Admin
<1>12. CASE Pruned
  BY <1>12 DEF Pruned, Prunable, Admin
<1>13. CASE Unload
  BY <1>13 DEF Unload, Admin
<1>14. CASE Load
  BY <1>14 DEF Load, Admin
<1>15. CASE Restart
  BY <1>15 DEF Restart, Admin
<1>16. CASE ProbeDown
  BY <1>16 DEF ProbeDown, Admin
<1>17. CASE SetupStarts
  BY <1>17 DEF SetupStarts, Kickstart, Admin
<1>18. CASE Finish
  BY <1>18 DEF Finish, Answers, Bound, Origin, EndAdmin, NoJob
<1>19. CASE Uninstall
  BY <1>19 DEF Uninstall, NoJob
<1>20. CASE RemoveService
  BY <1>20 DEF RemoveService, Admin
<1>21. CASE RemoveDefinition
  BY <1>21 DEF RemoveDefinition, Admin
<1>22. CASE RemoveSkill
  BY <1>22 DEF RemoveSkill, NoSkill, PartOfSkill, Admin
<1>23. CASE Empty
  BY <1>23 DEF Empty, Remove, ClearsManifest, Admin
<1>24. CASE Emptied
  BY <1>24 DEF Emptied, EndAdmin, NoJob
<1>25. CASE Killed
  BY <1>25 DEF Killed, EndAdmin, NoJob
<1>26. CASE FoundDown
  BY <1>26 DEF FoundDown
<1>27. CASE OtherStarts
  BY <1>27 DEF OtherStarts, Kickstart
<1>28. CASE Spawn
  BY <1>28 DEF Spawn, Startup
<1>29. CASE Dies
  BY <1>29 DEF Dies
<1>30. CASE Stops
  BY <1>30 DEF Stops
<1>31. CASE Reboot
  BY <1>31 DEF Reboot, EndAdmin, NoJob
<1>32. CASE Occupy
  BY <1>32 DEF Occupy
<1>33. CASE UNCHANGED installVars
  BY <1>33 DEF installVars
<1> QED
  BY <1>1, <1>2, <1>3, <1>4, <1>5, <1>6, <1>7, <1>8, <1>9, <1>10, <1>11, <1>12, <1>13, <1>14, <1>15, <1>16, <1>17, <1>18, <1>19, <1>20, <1>21, <1>22, <1>23, <1>24, <1>25, <1>26, <1>27, <1>28, <1>29, <1>30, <1>31, <1>32, <1>33
  DEF InstallNext, SetupStep, UninstallStep

\* What is defined can be started.
LEMMA RunStep ==
  FilesOK /\ ServicesOK /\ RunInv /\ [InstallNext]_installVars => RunInv'
<1> SUFFICES ASSUME FilesOK /\ ServicesOK /\ RunInv, [InstallNext]_installVars
             PROVE  RunInv'
  OBVIOUS
<1> USE InstallAssumption DEF RunInv, Reported, Started, Defined, Recorded, Copied, Linked, Chosen, files, config, managed
<1>1. CASE Setup
  BY <1>1, SetupAsks DEF SetupAsked
<1>2. CASE MakeDirectory
  BY <1>2 DEF MakeDirectory, Admin
<1>3. CASE PlaceRuntime
  BY <1>3 DEF PlaceRuntime, Admin
<1>4. CASE ReplacePacked
  BY <1>4 DEF ReplacePacked, Admin
<1>5. CASE Packed
  BY <1>5 DEF Packed, Admin
<1>6. CASE Link
  BY <1>6 DEF Link, Admin
<1>7. CASE ReplaceSkill
  BY <1>7 DEF ReplaceSkill, NoSkill, PartOfSkill, Admin
<1>8. CASE CopySkill
  BY <1>8 DEF CopySkill, Admin
<1>9. CASE WriteManifest
  BY <1>9 DEF WriteManifest, Admin
<1>10. CASE WriteDefinition
  BY <1>10 DEF WriteDefinition, Admin
<1>11. CASE Prune
  BY <1>11 DEF Prune, Remove, Prunable, Admin
<1>12. CASE Pruned
  BY <1>12 DEF Pruned, Prunable, Admin
<1>13. CASE Unload
  BY <1>13 DEF Unload, Admin
<1>14. CASE Load
  BY <1>14 DEF Load, Admin
<1>15. CASE Restart
  BY <1>15 DEF Restart, Admin
<1>16. CASE ProbeDown
  BY <1>16 DEF ProbeDown, Admin
<1>17. CASE SetupStarts
  BY <1>17 DEF SetupStarts, Kickstart, Admin
<1>18. CASE Finish
  BY <1>18 DEF Finish, Answers, Bound, Origin, EndAdmin, NoJob
<1>19. CASE Uninstall
  BY <1>19 DEF Uninstall, NoJob
<1>20. CASE RemoveService
  BY <1>20 DEF RemoveService, Admin
<1>21. CASE RemoveDefinition
  BY <1>21 DEF RemoveDefinition, Admin
<1>22. CASE RemoveSkill
  BY <1>22 DEF RemoveSkill, NoSkill, PartOfSkill, Admin
<1>23. CASE Empty
  BY <1>23 DEF Empty, Remove, ClearsManifest, Admin
<1>24. CASE Emptied
  BY <1>24 DEF Emptied, EndAdmin, NoJob
<1>25. CASE Killed
  BY <1>25 DEF Killed, EndAdmin, NoJob
<1>26. CASE FoundDown
  BY <1>26 DEF FoundDown
<1>27. CASE OtherStarts
  BY <1>27 DEF OtherStarts, Kickstart
<1>28. CASE Spawn
  BY <1>28 DEF Spawn, Startup
<1>29. CASE Dies
  BY <1>29 DEF Dies
<1>30. CASE Stops
  BY <1>30 DEF Stops
<1>31. CASE Reboot
  BY <1>31 DEF Reboot, EndAdmin, NoJob
<1>32. CASE Occupy
  BY <1>32 DEF Occupy
<1>33. CASE UNCHANGED installVars
  BY <1>33 DEF installVars
<1> QED
  BY <1>1, <1>2, <1>3, <1>4, <1>5, <1>6, <1>7, <1>8, <1>9, <1>10, <1>11, <1>12, <1>13, <1>14, <1>15, <1>16, <1>17, <1>18, <1>19, <1>20, <1>21, <1>22, <1>23, <1>24, <1>25, <1>26, <1>27, <1>28, <1>29, <1>30, <1>31, <1>32, <1>33
  DEF InstallNext, SetupStep, UninstallStep

\* What a setup is going to record stays what it found.
LEMMA AddressStep ==
  FilesOK /\ ServicesOK /\ AddressInv /\ [InstallNext]_installVars => AddressInv'
<1> SUFFICES ASSUME FilesOK /\ ServicesOK /\ AddressInv, [InstallNext]_installVars
             PROVE  AddressInv'
  OBVIOUS
<1> USE InstallAssumption DEF AddressInv, Chosen, files, config, managed
<1>1. CASE Setup
  BY <1>1, SetupAsks DEF SetupAsked
<1>2. CASE MakeDirectory
  BY <1>2 DEF MakeDirectory, Admin
<1>3. CASE PlaceRuntime
  BY <1>3 DEF PlaceRuntime, Admin
<1>4. CASE ReplacePacked
  BY <1>4 DEF ReplacePacked, Admin
<1>5. CASE Packed
  BY <1>5 DEF Packed, Admin
<1>6. CASE Link
  BY <1>6 DEF Link, Admin
<1>7. CASE ReplaceSkill
  BY <1>7 DEF ReplaceSkill, NoSkill, PartOfSkill, Admin
<1>8. CASE CopySkill
  BY <1>8 DEF CopySkill, Admin
<1>9. CASE WriteManifest
  BY <1>9 DEF WriteManifest, Admin
<1>10. CASE WriteDefinition
  BY <1>10 DEF WriteDefinition, Admin
<1>11. CASE Prune
  BY <1>11 DEF Prune, Remove, Prunable, Admin
<1>12. CASE Pruned
  BY <1>12 DEF Pruned, Prunable, Admin
<1>13. CASE Unload
  BY <1>13 DEF Unload, Admin
<1>14. CASE Load
  BY <1>14 DEF Load, Admin
<1>15. CASE Restart
  BY <1>15 DEF Restart, Admin
<1>16. CASE ProbeDown
  BY <1>16 DEF ProbeDown, Admin
<1>17. CASE SetupStarts
  BY <1>17 DEF SetupStarts, Kickstart, Admin
<1>18. CASE Finish
  BY <1>18 DEF Finish, Answers, Bound, Origin, EndAdmin, NoJob
<1>19. CASE Uninstall
  BY <1>19 DEF Uninstall, NoJob
<1>20. CASE RemoveService
  BY <1>20 DEF RemoveService, Admin
<1>21. CASE RemoveDefinition
  BY <1>21 DEF RemoveDefinition, Admin
<1>22. CASE RemoveSkill
  BY <1>22 DEF RemoveSkill, NoSkill, PartOfSkill, Admin
<1>23. CASE Empty
  BY <1>23 DEF Empty, Remove, ClearsManifest, Admin
<1>24. CASE Emptied
  BY <1>24 DEF Emptied, EndAdmin, NoJob
<1>25. CASE Killed
  BY <1>25 DEF Killed, EndAdmin, NoJob
<1>26. CASE FoundDown
  BY <1>26 DEF FoundDown
<1>27. CASE OtherStarts
  BY <1>27 DEF OtherStarts
<1>28. CASE Spawn
  BY <1>28 DEF Spawn, Startup
<1>29. CASE Dies
  BY <1>29 DEF Dies
<1>30. CASE Stops
  BY <1>30 DEF Stops
<1>31. CASE Reboot
  BY <1>31 DEF Reboot, EndAdmin, NoJob
<1>32. CASE Occupy
  BY <1>32 DEF Occupy
<1>33. CASE UNCHANGED installVars
  BY <1>33 DEF installVars
<1> QED
  BY <1>1, <1>2, <1>3, <1>4, <1>5, <1>6, <1>7, <1>8, <1>9, <1>10, <1>11, <1>12, <1>13, <1>14, <1>15, <1>16, <1>17, <1>18, <1>19, <1>20, <1>21, <1>22, <1>23, <1>24, <1>25, <1>26, <1>27, <1>28, <1>29, <1>30, <1>31, <1>32, <1>33
  DEF InstallNext, SetupStep, UninstallStep

\* A local base URL names the recorded port.
LEMMA UrlStep ==
  FilesOK /\ ServicesOK /\ UrlInv /\ [InstallNext]_installVars => UrlInv'
<1> SUFFICES ASSUME FilesOK /\ ServicesOK /\ UrlInv, [InstallNext]_installVars
             PROVE  UrlInv'
  OBVIOUS
<1> USE InstallAssumption DEF UrlInv, Reported, Started, Defined, Recorded, Chosen, files, config, managed
<1>1. CASE Setup
  BY <1>1, SetupAsks DEF SetupAsked
<1>2. CASE MakeDirectory
  BY <1>2 DEF MakeDirectory, Admin
<1>3. CASE PlaceRuntime
  BY <1>3 DEF PlaceRuntime, Admin
<1>4. CASE ReplacePacked
  BY <1>4 DEF ReplacePacked, Admin
<1>5. CASE Packed
  BY <1>5 DEF Packed, Admin
<1>6. CASE Link
  BY <1>6 DEF Link, Admin
<1>7. CASE ReplaceSkill
  BY <1>7 DEF ReplaceSkill, NoSkill, PartOfSkill, Admin
<1>8. CASE CopySkill
  BY <1>8 DEF CopySkill, Admin
<1>9. CASE WriteManifest
  BY <1>9 DEF WriteManifest, Admin
<1>10. CASE WriteDefinition
  BY <1>10 DEF WriteDefinition, Admin
<1>11. CASE Prune
  BY <1>11 DEF Prune, Remove, Prunable, Admin
<1>12. CASE Pruned
  BY <1>12 DEF Pruned, Prunable, Admin
<1>13. CASE Unload
  BY <1>13 DEF Unload, Admin
<1>14. CASE Load
  BY <1>14 DEF Load, Admin
<1>15. CASE Restart
  BY <1>15 DEF Restart, Admin
<1>16. CASE ProbeDown
  BY <1>16 DEF ProbeDown, Admin
<1>17. CASE SetupStarts
  BY <1>17 DEF SetupStarts, Kickstart, Admin
<1>18. CASE Finish
  BY <1>18 DEF Finish, Answers, Bound, Origin, EndAdmin, NoJob
<1>19. CASE Uninstall
  BY <1>19 DEF Uninstall, NoJob
<1>20. CASE RemoveService
  BY <1>20 DEF RemoveService, Admin
<1>21. CASE RemoveDefinition
  BY <1>21 DEF RemoveDefinition, Admin
<1>22. CASE RemoveSkill
  BY <1>22 DEF RemoveSkill, NoSkill, PartOfSkill, Admin
<1>23. CASE Empty
  BY <1>23 DEF Empty, Remove, ClearsManifest, Admin
<1>24. CASE Emptied
  BY <1>24 DEF Emptied, EndAdmin, NoJob
<1>25. CASE Killed
  BY <1>25 DEF Killed, EndAdmin, NoJob
<1>26. CASE FoundDown
  BY <1>26 DEF FoundDown
<1>27. CASE OtherStarts
  BY <1>27 DEF OtherStarts
<1>28. CASE Spawn
  BY <1>28 DEF Spawn, Startup
<1>29. CASE Dies
  BY <1>29 DEF Dies
<1>30. CASE Stops
  BY <1>30 DEF Stops
<1>31. CASE Reboot
  BY <1>31 DEF Reboot, EndAdmin, NoJob
<1>32. CASE Occupy
  BY <1>32 DEF Occupy
<1>33. CASE UNCHANGED installVars
  BY <1>33 DEF installVars
<1> QED
  BY <1>1, <1>2, <1>3, <1>4, <1>5, <1>6, <1>7, <1>8, <1>9, <1>10, <1>11, <1>12, <1>13, <1>14, <1>15, <1>16, <1>17, <1>18, <1>19, <1>20, <1>21, <1>22, <1>23, <1>24, <1>25, <1>26, <1>27, <1>28, <1>29, <1>30, <1>31, <1>32, <1>33
  DEF InstallNext, SetupStep, UninstallStep

\* The skill comes from the version's, which is whole enough.
LEMMA SkillStep ==
  FilesOK /\ ServicesOK /\ JobInv /\ RunInv /\ SkillInv /\ [InstallNext]_installVars => SkillInv'
<1> SUFFICES ASSUME FilesOK /\ ServicesOK /\ JobInv /\ RunInv /\ SkillInv, [InstallNext]_installVars
             PROVE  SkillInv'
  OBVIOUS
<1> USE InstallAssumption DEF FilesOK, JobInv, RunInv, SkillInv, Reported, Started, Defined, Recorded, Copied, Linked, Chosen, files, config, managed
<1>1. CASE Setup
  BY <1>1, SetupAsks DEF SetupAsked
<1>2. CASE MakeDirectory
  BY <1>2 DEF MakeDirectory, Admin
<1>3. CASE PlaceRuntime
  BY <1>3 DEF PlaceRuntime, Admin
<1>4. CASE ReplacePacked
  BY <1>4 DEF ReplacePacked, Admin
<1>5. CASE Packed
  BY <1>5 DEF Packed, Admin
<1>6. CASE Link
  BY <1>6 DEF Link, Admin
<1>7. CASE ReplaceSkill
  BY <1>7 DEF ReplaceSkill, NoSkill, PartOfSkill, Admin
<1>8. CASE CopySkill
  BY <1>8 DEF CopySkill, Admin
<1>9. CASE WriteManifest
  BY <1>9 DEF WriteManifest, Admin
<1>10. CASE WriteDefinition
  BY <1>10 DEF WriteDefinition, Admin
<1>11. CASE Prune
  BY <1>11 DEF Prune, Remove, Prunable, Admin
<1>12. CASE Pruned
  BY <1>12 DEF Pruned, Prunable, Admin
<1>13. CASE Unload
  BY <1>13 DEF Unload, Admin
<1>14. CASE Load
  BY <1>14 DEF Load, Admin
<1>15. CASE Restart
  BY <1>15 DEF Restart, Admin
<1>16. CASE ProbeDown
  BY <1>16 DEF ProbeDown, Admin
<1>17. CASE SetupStarts
  BY <1>17 DEF SetupStarts, Kickstart, Admin
<1>18. CASE Finish
  BY <1>18 DEF Finish, Answers, Bound, Origin, EndAdmin, NoJob
<1>19. CASE Uninstall
  BY <1>19 DEF Uninstall, NoJob
<1>20. CASE RemoveService
  BY <1>20 DEF RemoveService, Admin
<1>21. CASE RemoveDefinition
  BY <1>21 DEF RemoveDefinition, Admin
<1>22. CASE RemoveSkill
  BY <1>22 DEF RemoveSkill, NoSkill, PartOfSkill, Admin
<1>23. CASE Empty
  BY <1>23 DEF Empty, Remove, ClearsManifest, Admin
<1>24. CASE Emptied
  BY <1>24 DEF Emptied, EndAdmin, NoJob
<1>25. CASE Killed
  BY <1>25 DEF Killed, EndAdmin, NoJob
<1>26. CASE FoundDown
  BY <1>26 DEF FoundDown
<1>27. CASE OtherStarts
  BY <1>27 DEF OtherStarts
<1>28. CASE Spawn
  BY <1>28 DEF Spawn, Startup
<1>29. CASE Dies
  BY <1>29 DEF Dies
<1>30. CASE Stops
  BY <1>30 DEF Stops
<1>31. CASE Reboot
  BY <1>31 DEF Reboot, EndAdmin, NoJob
<1>32. CASE Occupy
  BY <1>32 DEF Occupy
<1>33. CASE UNCHANGED installVars
  BY <1>33 DEF installVars
<1> QED
  BY <1>1, <1>2, <1>3, <1>4, <1>5, <1>6, <1>7, <1>8, <1>9, <1>10, <1>11, <1>12, <1>13, <1>14, <1>15, <1>16, <1>17, <1>18, <1>19, <1>20, <1>21, <1>22, <1>23, <1>24, <1>25, <1>26, <1>27, <1>28, <1>29, <1>30, <1>31, <1>32, <1>33
  DEF InstallNext, SetupStep, UninstallStep

\* The manifest, the definition, the service and the daemon follow one another.
LEMMA ServiceStep ==
  FilesOK /\ ServicesOK /\ RunInv /\ ServiceInv /\ [InstallNext]_installVars => ServiceInv'
<1> SUFFICES ASSUME FilesOK /\ ServicesOK /\ RunInv /\ ServiceInv, [InstallNext]_installVars
             PROVE  ServiceInv'
  OBVIOUS
<1> USE InstallAssumption DEF RunInv, ServiceInv, Reported, Started, Defined, Recorded, Copied, Linked, Chosen, files, config, managed
<1>1. CASE Setup
  BY <1>1, SetupAsks DEF SetupAsked
<1>2. CASE MakeDirectory
  BY <1>2 DEF MakeDirectory, Admin
<1>3. CASE PlaceRuntime
  BY <1>3 DEF PlaceRuntime, Admin
<1>4. CASE ReplacePacked
  BY <1>4 DEF ReplacePacked, Admin
<1>5. CASE Packed
  BY <1>5 DEF Packed, Admin
<1>6. CASE Link
  BY <1>6 DEF Link, Admin
<1>7. CASE ReplaceSkill
  BY <1>7 DEF ReplaceSkill, NoSkill, PartOfSkill, Admin
<1>8. CASE CopySkill
  BY <1>8 DEF CopySkill, Admin
<1>9. CASE WriteManifest
  BY <1>9 DEF WriteManifest, Admin
<1>10. CASE WriteDefinition
  BY <1>10 DEF WriteDefinition, Admin
<1>11. CASE Prune
  BY <1>11 DEF Prune, Remove, Prunable, Admin
<1>12. CASE Pruned
  BY <1>12 DEF Pruned, Prunable, Admin
<1>13. CASE Unload
  BY <1>13 DEF Unload, Admin
<1>14. CASE Load
  BY <1>14 DEF Load, Admin
<1>15. CASE Restart
  BY <1>15 DEF Restart, Admin
<1>16. CASE ProbeDown
  BY <1>16 DEF ProbeDown, Admin
<1>17. CASE SetupStarts
  BY <1>17 DEF SetupStarts, Kickstart, Admin
<1>18. CASE Finish
  BY <1>18 DEF Finish, Answers, Bound, Origin, EndAdmin, NoJob
<1>19. CASE Uninstall
  BY <1>19 DEF Uninstall, NoJob
<1>20. CASE RemoveService
  BY <1>20 DEF RemoveService, Admin
<1>21. CASE RemoveDefinition
  BY <1>21 DEF RemoveDefinition, Admin
<1>22. CASE RemoveSkill
  BY <1>22 DEF RemoveSkill, NoSkill, PartOfSkill, Admin
<1>23. CASE Empty
  BY <1>23 DEF Empty, Remove, ClearsManifest, Admin
<1>24. CASE Emptied
  BY <1>24 DEF Emptied, EndAdmin, NoJob
<1>25. CASE Killed
  BY <1>25 DEF Killed, EndAdmin, NoJob
<1>26. CASE FoundDown
  BY <1>26 DEF FoundDown
<1>27. CASE OtherStarts
  BY <1>27 DEF OtherStarts, Kickstart
<1>28. CASE Spawn
  BY <1>28 DEF Spawn, Startup
<1>29. CASE Dies
  BY <1>29 DEF Dies
<1>30. CASE Stops
  BY <1>30 DEF Stops
<1>31. CASE Reboot
  BY <1>31 DEF Reboot, EndAdmin, NoJob
<1>32. CASE Occupy
  BY <1>32 DEF Occupy
<1>33. CASE UNCHANGED installVars
  BY <1>33 DEF installVars
<1> QED
  BY <1>1, <1>2, <1>3, <1>4, <1>5, <1>6, <1>7, <1>8, <1>9, <1>10, <1>11, <1>12, <1>13, <1>14, <1>15, <1>16, <1>17, <1>18, <1>19, <1>20, <1>21, <1>22, <1>23, <1>24, <1>25, <1>26, <1>27, <1>28, <1>29, <1>30, <1>31, <1>32, <1>33
  DEF InstallNext, SetupStep, UninstallStep

\* Success is reported at the end.
LEMMA DoneStep ==
  FilesOK /\ ServicesOK /\ JobInv /\ ServiceInv /\ DoneInv /\ [InstallNext]_installVars => DoneInv'
<1> SUFFICES ASSUME FilesOK /\ ServicesOK /\ JobInv /\ ServiceInv /\ DoneInv, [InstallNext]_installVars
             PROVE  DoneInv'
  OBVIOUS
<1> USE InstallAssumption DEF ServiceInv, DoneInv, Reported, Started, files, config, managed
<1>1. CASE Setup
  BY <1>1, SetupAsks DEF SetupAsked
<1>2. CASE MakeDirectory
  BY <1>2 DEF MakeDirectory, Admin
<1>3. CASE PlaceRuntime
  BY <1>3 DEF PlaceRuntime, Admin
<1>4. CASE ReplacePacked
  BY <1>4 DEF ReplacePacked, Admin
<1>5. CASE Packed
  BY <1>5 DEF Packed, Admin
<1>6. CASE Link
  BY <1>6 DEF Link, Admin
<1>7. CASE ReplaceSkill
  BY <1>7 DEF ReplaceSkill, NoSkill, PartOfSkill, Admin
<1>8. CASE CopySkill
  BY <1>8 DEF CopySkill, Admin
<1>9. CASE WriteManifest
  BY <1>9 DEF WriteManifest, Admin
<1>10. CASE WriteDefinition
  BY <1>10 DEF WriteDefinition, Admin
<1>11. CASE Prune
  BY <1>11 DEF Prune, Remove, Prunable, Admin
<1>12. CASE Pruned
  BY <1>12 DEF Pruned, Prunable, Admin
<1>13. CASE Unload
  BY <1>13 DEF Unload, Admin
<1>14. CASE Load
  BY <1>14 DEF Load, Admin
<1>15. CASE Restart
  BY <1>15 DEF Restart, Admin
<1>16. CASE ProbeDown
  BY <1>16 DEF ProbeDown, Admin
<1>17. CASE SetupStarts
  BY <1>17 DEF SetupStarts, Kickstart, Admin
<1>18. CASE Finish
  <2>1. at \in {"probe", "await"} /\ at' = "idle" /\ UNCHANGED <<config, managed>>
    BY <1>18 DEF Finish, EndAdmin
  <2>2. enabled /\ manifest = [version |-> job.version, port |-> job.port, url |-> job.url]
    BY <2>1 DEF Recorded, Defined
  <2>3. job.version \in Versions /\ job.port \in Ports /\ job.url \in Ports \cup {Public}
    BY <2>1 DEF JobInv, Chosen, Recorded, Defined
  <2>4. manifest # None
    BY <2>2, <2>3, NoneIsNoManifest
  <2> QED
    BY <2>1, <2>2, <2>4
<1>19. CASE Uninstall
  BY <1>19 DEF Uninstall, NoJob
<1>20. CASE RemoveService
  BY <1>20 DEF RemoveService, Admin
<1>21. CASE RemoveDefinition
  BY <1>21 DEF RemoveDefinition, Admin
<1>22. CASE RemoveSkill
  BY <1>22 DEF RemoveSkill, NoSkill, PartOfSkill, Admin
<1>23. CASE Empty
  BY <1>23 DEF Empty, Remove, ClearsManifest, Admin
<1>24. CASE Emptied
  BY <1>24 DEF Emptied, EndAdmin, NoJob
<1>25. CASE Killed
  BY <1>25 DEF Killed, EndAdmin, NoJob
<1>26. CASE FoundDown
  BY <1>26 DEF FoundDown
<1>27. CASE OtherStarts
  BY <1>27 DEF OtherStarts, Kickstart
<1>28. CASE Spawn
  BY <1>28 DEF Spawn, Startup
<1>29. CASE Dies
  BY <1>29 DEF Dies
<1>30. CASE Stops
  BY <1>30 DEF Stops
<1>31. CASE Reboot
  BY <1>31 DEF Reboot, EndAdmin, NoJob
<1>32. CASE Occupy
  BY <1>32 DEF Occupy
<1>33. CASE UNCHANGED installVars
  BY <1>33 DEF installVars
<1> QED
  BY <1>1, <1>2, <1>3, <1>4, <1>5, <1>6, <1>7, <1>8, <1>9, <1>10, <1>11, <1>12, <1>13, <1>14, <1>15, <1>16, <1>17, <1>18, <1>19, <1>20, <1>21, <1>22, <1>23, <1>24, <1>25, <1>26, <1>27, <1>28, <1>29, <1>30, <1>31, <1>32, <1>33
  DEF InstallNext, SetupStep, UninstallStep

\* A reported success stays true until the next command begins.
LEMMA CompleteStep ==
  IInv /\ SetupComplete /\ [InstallNext]_installVars => SetupComplete'
<1> SUFFICES ASSUME IInv /\ SetupComplete, [InstallNext]_installVars
             PROVE  SetupComplete'
  OBVIOUS
<1> USE InstallAssumption DEF IInv, RunInv, UrlInv, SkillInv, ServiceInv, DoneInv, SetupComplete, Reported, Started, Defined, Recorded, Copied, Linked, Chosen, files, config, managed
<1>1. CASE Setup
  BY <1>1 DEF Setup
<1>2. CASE MakeDirectory
  BY <1>2 DEF MakeDirectory, Admin
<1>3. CASE PlaceRuntime
  BY <1>3 DEF PlaceRuntime, Admin
<1>4. CASE ReplacePacked
  BY <1>4 DEF ReplacePacked, Admin
<1>5. CASE Packed
  BY <1>5 DEF Packed, Admin
<1>6. CASE Link
  BY <1>6 DEF Link, Admin
<1>7. CASE ReplaceSkill
  BY <1>7 DEF ReplaceSkill, NoSkill, PartOfSkill, Admin
<1>8. CASE CopySkill
  BY <1>8 DEF CopySkill, Admin
<1>9. CASE WriteManifest
  BY <1>9 DEF WriteManifest, Admin
<1>10. CASE WriteDefinition
  BY <1>10 DEF WriteDefinition, Admin
<1>11. CASE Prune
  BY <1>11 DEF Prune, Remove, Prunable, Admin
<1>12. CASE Pruned
  BY <1>12 DEF Pruned, Prunable, Admin
<1>13. CASE Unload
  BY <1>13 DEF Unload, Admin
<1>14. CASE Load
  BY <1>14 DEF Load, Admin
<1>15. CASE Restart
  BY <1>15 DEF Restart, Admin
<1>16. CASE ProbeDown
  BY <1>16 DEF ProbeDown, Admin
<1>17. CASE SetupStarts
  BY <1>17 DEF SetupStarts, Kickstart, Admin
<1>18. CASE Finish
  <2> SUFFICES ASSUME installed' PROVE SetupComplete'
    BY DEF SetupComplete
  <2>1. at \in Reported /\ Answers /\ UNCHANGED <<platform, files, config, managed>>
    BY <1>18 DEF Finish
  <2>2. /\ current = job.version /\ current \in runtime
        /\ skill = [of |-> job.version, is |-> packed[job.version]] /\ skill.is # "none"
    BY <2>1
  <2>3. /\ manifest = [version |-> job.version, port |-> job.port, url |-> job.url]
        /\ definition = job.port /\ service = job.port
        /\ daemon = [version |-> job.version, port |-> job.port]
        /\ job.url \in {Public, job.port}
    BY <2>1 DEF Answers, Bound
  <2>4. skill.is \in {"part", "full"}
    BY <2>2 DEF InstallTypeOK, FilesOK, Skills
  <2> QED
    BY <2>1, <2>2, <2>3, <2>4
<1>19. CASE Uninstall
  BY <1>19 DEF Uninstall, NoJob
<1>20. CASE RemoveService
  BY <1>20 DEF RemoveService, Admin
<1>21. CASE RemoveDefinition
  BY <1>21 DEF RemoveDefinition, Admin
<1>22. CASE RemoveSkill
  BY <1>22 DEF RemoveSkill, NoSkill, PartOfSkill, Admin
<1>23. CASE Empty
  BY <1>23 DEF Empty, Remove, ClearsManifest, Admin
<1>24. CASE Emptied
  BY <1>24 DEF Emptied, EndAdmin, NoJob
<1>25. CASE Killed
  BY <1>25 DEF Killed, EndAdmin, NoJob
<1>26. CASE FoundDown
  BY <1>26 DEF FoundDown
<1>27. CASE OtherStarts
  BY <1>27 DEF OtherStarts, Kickstart
<1>28. CASE Spawn
  BY <1>28 DEF Spawn, Startup
<1>29. CASE Dies
  BY <1>29 DEF Dies
<1>30. CASE Stops
  BY <1>30 DEF Stops
<1>31. CASE Reboot
  BY <1>31 DEF Reboot, EndAdmin, NoJob
<1>32. CASE Occupy
  BY <1>32 DEF Occupy
<1>33. CASE UNCHANGED installVars
  BY <1>33 DEF installVars
<1> QED
  BY <1>1, <1>2, <1>3, <1>4, <1>5, <1>6, <1>7, <1>8, <1>9, <1>10, <1>11, <1>12, <1>13, <1>14, <1>15, <1>16, <1>17, <1>18, <1>19, <1>20, <1>21, <1>22, <1>23, <1>24, <1>25, <1>26, <1>27, <1>28, <1>29, <1>30, <1>31, <1>32, <1>33
  DEF InstallNext, SetupStep, UninstallStep

-----------------------------------------------------------------------------
LEMMA InitEstablishes == InstallInit => IInv /\ SetupComplete
<1> SUFFICES ASSUME InstallInit PROVE IInv /\ SetupComplete
  OBVIOUS
<1>1. FilesOK
  BY DEF InstallInit, FilesOK, Skills, NoSkill
<1>2. ServicesOK
  BY InstallAssumption DEF InstallInit, ServicesOK
<1>3. CommandsOK
  BY DEF InstallInit, CommandsOK, Places, NoJob
<1>4. JobInv /\ RunInv /\ AddressInv /\ UrlInv /\ SkillInv /\ ServiceInv
  BY DEF InstallInit, JobInv, RunInv, AddressInv, UrlInv, SkillInv, ServiceInv,
         Reported, Started, Defined, Recorded, Copied, Linked, Chosen
<1>5. DoneInv /\ SetupComplete
  BY DEF InstallInit, DoneInv, SetupComplete
<1> QED
  BY <1>1, <1>2, <1>3, <1>4, <1>5 DEF IInv, InstallTypeOK

LEMMA StepPreserves == IInv /\ SetupComplete /\ [InstallNext]_installVars => (IInv /\ SetupComplete)'
BY CommandsStep, FilesStep, ServicesStep, RunStep, AddressStep, UrlStep, SkillStep, ServiceStep,
   DoneStep, CompleteStep
   DEF IInv, InstallTypeOK

THEOREM Inductive == InstallSpec => [](IInv /\ SetupComplete)
BY InitEstablishes, StepPreserves, PTL DEF InstallSpec

\* Every variable keeps its type.
THEOREM InstallTypeCorrect == InstallSpec => []InstallTypeOK
<1>1. IInv => InstallTypeOK
  BY DEF IInv
<1> QED
  BY <1>1, Inductive, PTL

\* Wherever setups and uninstalls are cut off, what would be started at the
\* next login can be.
THEOREM ServiceIsRunnable == InstallSpec => []ServiceRunnable
<1>1. IInv => ServiceRunnable
  BY DEF IInv, RunInv, ServiceRunnable
<1> QED
  BY <1>1, Inductive, PTL

\* A setup that reports success has put one version everywhere.
THEOREM SetupIsComplete == InstallSpec => []SetupComplete
BY Inductive, PTL

\* After a success the daemon is never down for want of anything: unless it is
\* not due, the manager has a definition loaded, a runtime to run and the port.
\* The rest of ServiceHolds is that the manager goes on.
THEOREM DownIsStartable == InstallSpec => [](installed /\ ~Answers /\ ~NotDue => Startup)
<1>1. IInv /\ SetupComplete => (installed /\ ~Answers /\ ~NotDue => Startup)
  <2> SUFFICES ASSUME IInv, SetupComplete, installed, ~Answers, ~NotDue PROVE Startup
    OBVIOUS
  <2>1. manifest # None /\ Origin = manifest.port /\ manifest.port \in Ports
    BY DEF IInv, DoneInv, InstallTypeOK, ServicesOK, Origin
  <2>2. service = manifest.port /\ service # None /\ service # foreign /\ ~stopped
    BY <2>1, InstallAssumption DEF SetupComplete, NotDue
  <2>3. daemon = None
    BY <2>1 DEF SetupComplete, Answers, Bound
  <2>4. current \in runtime
    BY DEF SetupComplete
  <2> QED
    BY <2>2, <2>3, <2>4 DEF Startup
<1> QED
  BY <1>1, Inductive, PTL

\* Only a command that asks for another port or base URL, or a purge, changes them.
LEMMA AddressStays == IInv /\ [InstallNext]_installVars => [Readdresses]_installVars
<1> SUFFICES ASSUME IInv, [InstallNext]_installVars, manifest # None, manifest' # manifest
             PROVE  \/ job.purge \/ job.asked
                    \/ \E v \in Versions : manifest' = [manifest EXCEPT !.version = v]
  BY DEF Readdresses
<1>1. CASE WriteManifest
  <2>1. job.asked \/ (job.port = manifest.port /\ job.url = manifest.url)
    BY <1>1 DEF WriteManifest, Admin, IInv, AddressInv, Chosen
  <2>2. manifest' = [version |-> job.version, port |-> job.port, url |-> job.url]
    BY <1>1 DEF WriteManifest
  <2>3. job.version \in Versions
    BY <1>1 DEF WriteManifest, Admin, IInv, JobInv, Chosen
  <2>4. manifest \in [version : Versions, port : Ports, url : Ports \cup {Public}]
    BY DEF IInv, InstallTypeOK, ServicesOK
  <2> QED
    BY <2>1, <2>2, <2>3, <2>4
<1>2. CASE Empty
  BY <1>2 DEF Empty, Admin, ClearsManifest
<1>3. ~WriteManifest /\ ~Empty => UNCHANGED manifest
  BY DEF InstallNext, SetupStep, UninstallStep, installVars, config, Setup, MakeDirectory, PlaceRuntime, ReplacePacked, Packed, Link, ReplaceSkill, CopySkill, WriteDefinition, Prune, Pruned, Unload, Load, Restart, ProbeDown, SetupStarts, Finish, Uninstall, RemoveService, RemoveDefinition, RemoveSkill, Emptied, Killed, FoundDown, OtherStarts, Spawn, Dies, Stops, Reboot, Occupy
<1> QED
  BY <1>1, <1>2, <1>3

THEOREM AddressIsKept == InstallSpec => KeepsAddress
BY Inductive, AddressStays, PTL DEF InstallSpec, KeepsAddress
=============================================================================
