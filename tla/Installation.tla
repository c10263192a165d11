---------------------------- MODULE Installation ----------------------------
(***************************************************************************)
(* codexhook setup, uninstall and the check every other command makes of   *)
(* the daemon, on macOS (launchd) and Linux (systemd).  A command is a     *)
(* sequence of changes to the home directory and to the service manager;   *)
(* it may be killed, or fail, between any two of them, and the machine may *)
(* go down.  The manager starts the daemon again after a crash, and launchd *)
(* also after a clean stop.                                                *)
(* Every command runs in the same environment, CODEXHOOK_HOME included,    *)
(* and setup and uninstall are run one at a time.                          *)
(***************************************************************************)
EXTENDS Naturals, FiniteSets

CONSTANTS Versions, Ports, DefaultPort, Public, None,
          Keep   \* the versions pruneVersions leaves, the current one included

ASSUME InstallAssumption ==
  /\ DefaultPort \in Ports /\ Public \notin Ports /\ None \notin Versions \cup Ports
  /\ Keep \in Nat \ {0}

ASSUME NoneIsNoManifest == None \notin [version : Versions, port : Ports, url : Ports \cup {Public}]

VARIABLES
  platform,   \* "darwin" or "linux"
  made,       \* the version directories there are
  runtime,    \* those with the runtime in them
  packed,     \* how much of the skill is in each
  current,    \* the version the link names
  skill,      \* the skill Codex sees: the version it is from and how much of it
  manifest,   \* install.json
  definition, \* the port in the service definition
  enabled,    \* systemd starts it at login
  service,    \* the port in the definition the manager runs it by
  stopped,    \* it ended cleanly, and systemd leaves it at that
  daemon,     \* the running daemon: its version and port
  foreign,    \* the port another program listens on
  at,         \* where the setup or uninstall is
  job,        \* what the running setup or uninstall was asked for
  starting,   \* another command is about to start the daemon
  installed   \* the last setup reported success, and none has begun since

files == <<made, runtime, packed, current, skill>>
config == <<manifest, definition>>
managed == <<enabled, service, stopped, daemon>>
installVars == <<platform, files, config, managed, foreign, at, job, starting, installed>>

Skills   == {"none", "part", "full"}   \* none: without SKILL.md
Places   == {"idle", "mkdir", "runtime", "pack", "packing", "link", "skill", "copying",
             "manifest", "definition", "prune", "unload", "load", "restart", "probe",
             "start", "await", "remove", "undefine", "unskill", "empty"}
NoJob    == [version |-> None, own |-> FALSE, port |-> None, url |-> None, asked |-> FALSE,
             purge |-> FALSE]
NoSkill  == [of |-> None, is |-> "none"]
PartOfSkill == [of |-> None, is |-> "part"]

Admin(from, to) == at = from /\ at' = to /\ UNCHANGED <<platform, foreign, job, starting, installed>>
EndAdmin == at' = "idle" /\ job' = NoJob

-----------------------------------------------------------------------------
(* Faulty variants, each in the place of one definition below *)

AnyOld == made                                 \* prune does not ask which is current
KeepsBaseUrl(port) == IF manifest = None THEN port ELSE manifest.url
ClearsEverything == TRUE                       \* uninstall leaves no manifest

-----------------------------------------------------------------------------
InstallInit ==
  /\ platform \in {"darwin", "linux"}
  /\ made = {} /\ runtime = {} /\ packed = [v \in Versions |-> "none"]
  /\ current = None /\ skill = NoSkill
  /\ manifest = None /\ definition = None
  /\ enabled = FALSE /\ service = None /\ stopped = FALSE /\ daemon = None
  /\ foreign \in {DefaultPort, None}
  /\ at = "idle" /\ job = NoJob /\ starting = FALSE /\ installed = FALSE

-----------------------------------------------------------------------------
(* setup *)

Bound(p) == daemon # None /\ daemon.port = p
Available(p) == p # foreign /\ ~Bound(p)

\* chooseInstallationPort
Choices(request) ==
  IF request # None
  THEN {p \in {request} : Available(p) \/ (manifest # None /\ manifest.port = p)}
  ELSE IF manifest # None THEN {manifest.port}
  ELSE IF Available(DefaultPort) THEN {DefaultPort}
  ELSE {p \in Ports : Available(p)}

\* A base URL that only names the previous port goes with it.
BaseUrl(port) ==
  IF manifest # None /\ manifest.url # manifest.port THEN manifest.url ELSE port

\* Run from a package, or from the installed copy, which needs its own skill.
Sources == {[version |-> v, own |-> FALSE] : v \in Versions} \cup
           {[version |-> v, own |-> TRUE] :
              v \in {w \in runtime : w = current /\ packed[w] # "none"}}

Setup ==
  /\ at = "idle"
  /\ \E s \in Sources, request \in Ports \cup {None}, public \in BOOLEAN :
       \E p \in Choices(request) :
         job' = [version |-> s.version, own |-> s.own, port |-> p,
                 url |-> IF public THEN Public ELSE BaseUrl(p),
                 asked |-> request # None \/ public, purge |-> FALSE]
  /\ at' = "mkdir" /\ installed' = FALSE
  /\ UNCHANGED <<platform, files, config, managed, foreign, starting>>

MakeDirectory ==
  /\ Admin("mkdir", "runtime")
  /\ made' = made \cup {job.version}
  /\ UNCHANGED <<runtime, packed, current, skill, config, managed>>

\* Copied beside its place and renamed.
PlaceRuntime ==
  /\ Admin("runtime", IF job.own THEN "link" ELSE "pack")
  /\ runtime' = runtime \cup {job.version}
  /\ UNCHANGED <<made, packed, current, skill, config, managed>>

\* Removed and copied again, file by file.
ReplacePacked ==
  /\ Admin("pack", "packing")
  /\ \E some \in Skills \ {"full"} : packed' = [packed EXCEPT ![job.version] = some]
  /\ UNCHANGED <<made, runtime, current, skill, config, managed>>

Packed ==
  /\ Admin("packing", "link")
  /\ packed' = [packed EXCEPT ![job.version] = "full"]
  /\ UNCHANGED <<made, runtime, current, skill, config, managed>>

Link ==
  /\ Admin("link", "skill")
  /\ current' = job.version
  /\ UNCHANGED <<made, runtime, packed, skill, config, managed>>

ReplaceSkill ==
  /\ Admin("skill", "copying")
  /\ skill' \in {NoSkill, PartOfSkill}
  /\ UNCHANGED <<made, runtime, packed, current, config, managed>>

CopySkill ==
  /\ Admin("copying", "manifest")
  /\ skill' = [of |-> job.version, is |-> packed[job.version]]
  /\ UNCHANGED <<made, runtime, packed, current, config, managed>>

WriteManifest ==
  /\ Admin("manifest", "definition")
  /\ manifest' = [version |-> job.version, port |-> job.port, url |-> job.url]
  /\ UNCHANGED <<files, definition, managed>>

WriteDefinition ==
  /\ Admin("definition", "prune")
  /\ definition' = job.port
  /\ UNCHANGED <<files, manifest, managed>>

\* The versions that may go; the most recently changed of them stays.
Prunable == made \ {current}

\* rm, seen half done or done.
Remove(v) ==
  /\ runtime' = runtime \ {v}
  /\ \/ UNCHANGED made /\ \E some \in Skills \ {"full", packed[v]} : packed' = [packed EXCEPT ![v] = some]
     \/ made' = made \ {v} /\ packed' = [packed EXCEPT ![v] = "none"]

Prune ==
  /\ Cardinality(Prunable) > Keep - 1
  /\ Admin("prune", "prune")
  /\ \E v \in Prunable : Remove(v)
  /\ UNCHANGED <<current, skill, config, managed>>

Pruned ==
  /\ Cardinality(Prunable) <= Keep - 1
  /\ Admin("prune", "unload")
  /\ UNCHANGED <<files, config, managed>>

\* launchctl bootout, whose failure is ignored; systemctl daemon-reload.
Unload ==
  /\ Admin("unload", "load")
  /\ \/ platform = "darwin" /\ service' = None /\ daemon' = None
     \/ platform = "darwin" /\ UNCHANGED <<service, daemon>>
     \/ /\ platform = "linux" /\ UNCHANGED daemon
        /\ service' = IF service = None THEN None ELSE definition
  /\ UNCHANGED <<files, config, enabled, stopped>>

\* launchctl bootstrap fails on a service that is still loaded; systemctl
\* enable --now.
Load ==
  /\ platform = "darwin" => service = None
  /\ Admin("load", "restart")
  /\ service' = definition /\ enabled' = TRUE /\ stopped' = FALSE /\ UNCHANGED daemon
  /\ UNCHANGED <<files, config>>

Restart ==
  /\ Admin("restart", "probe")
  /\ daemon' = None /\ stopped' = FALSE
  /\ UNCHANGED <<files, config, enabled, service>>

-----------------------------------------------------------------------------
(* uninstall *)

Uninstall ==
  /\ at = "idle"
  /\ \E purge \in BOOLEAN : job' = [NoJob EXCEPT !.purge = purge]
  /\ at' = "remove" /\ installed' = FALSE
  /\ UNCHANGED <<platform, files, config, managed, foreign, starting>>

\* launchctl bootout or systemctl disable --now, whose failures are ignored.
RemoveService ==
  /\ Admin("remove", "undefine")
  /\ \/ enabled' = FALSE /\ service' = None /\ stopped' = FALSE /\ daemon' = None
     \/ UNCHANGED managed
  /\ UNCHANGED <<files, config>>

RemoveDefinition ==
  /\ Admin("undefine", "unskill")
  /\ definition' = None
  /\ UNCHANGED <<files, manifest, managed>>

RemoveSkill ==
  /\ \/ Admin("unskill", "empty") /\ skill' = NoSkill
     \/ Admin("unskill", "unskill") /\ skill.is = "full" /\ skill' = PartOfSkill
  /\ UNCHANGED <<made, runtime, packed, current, config, managed>>

\* Without --purge the manifest is kept.
ClearsManifest == job.purge

\* The entries of the runtime's directory, in any order; the data go with a purge.
Empty ==
  /\ Admin("empty", "empty")
  /\ \/ \E v \in made : Remove(v) /\ UNCHANGED <<current, manifest>>
     \/ current # None /\ current' = None /\ UNCHANGED <<made, runtime, packed, manifest>>
     \/ /\ ClearsManifest /\ manifest # None
        /\ manifest' = None /\ UNCHANGED <<made, runtime, packed, current>>
  /\ UNCHANGED <<skill, definition, managed>>

Emptied ==
  /\ at = "empty" /\ made = {} /\ current = None /\ (ClearsManifest => manifest = None)
  /\ EndAdmin
  /\ UNCHANGED <<platform, files, config, managed, foreign, starting, installed>>

-----------------------------------------------------------------------------
(* requireDaemon, at the end of setup and at the beginning of other commands *)

Origin == IF manifest = None THEN DefaultPort ELSE manifest.port
Answers == Bound(Origin)

Down == ~Answers /\ foreign # Origin
Startable == manifest # None /\ definition # None

\* Another command finds the daemon down and is about to start it.
FoundDown ==
  /\ ~starting /\ Down /\ Startable
  /\ starting' = TRUE
  /\ UNCHANGED <<platform, files, config, managed, foreign, at, job, installed>>

\* setup finds it down.
ProbeDown ==
  /\ Admin("probe", "start") /\ Down /\ Startable
  /\ UNCHANGED <<files, config, managed>>

\* launchctl kickstart -k, of a service that is loaded, or systemctl restart,
\* which finds the definition by itself.
Kickstart ==
  IF service # None \/ (platform = "linux" /\ definition # None)
  THEN /\ daemon' = None /\ stopped' = FALSE
       /\ service' = IF service = None THEN definition ELSE service
  ELSE UNCHANGED <<service, stopped, daemon>>

OtherStarts ==
  /\ starting /\ starting' = FALSE
  /\ Kickstart
  /\ UNCHANGED <<platform, files, config, enabled, foreign, at, job, installed>>

SetupStarts ==
  /\ Admin("start", "await")
  /\ Kickstart
  /\ UNCHANGED <<files, config, enabled>>

\* The daemon answers, or the command fails: another program answers, there
\* is nothing to start, it could not be started, or three seconds are over.
Finish ==
  /\ at \in {"probe", "await"} /\ (at = "probe" => ~(Down /\ Startable))
  /\ installed' = Answers
  /\ EndAdmin
  /\ UNCHANGED <<platform, files, config, managed, foreign, starting>>

-----------------------------------------------------------------------------
(* Interruptions, the service manager, and other programs *)

\* Killed, or failed: the manifest and the definition are written whole or not at all.
Killed ==
  /\ at # "idle" /\ EndAdmin
  /\ UNCHANGED <<platform, files, config, managed, foreign, starting, installed>>

\* KeepAlive, or Restart=on-failure; a port in use makes it exit again.
Startup == service # None /\ ~stopped /\ daemon = None /\ current \in runtime /\ service # foreign

Spawn ==
  /\ Startup
  /\ daemon' = [version |-> current, port |-> service]
  /\ UNCHANGED <<platform, files, config, enabled, service, stopped, foreign, at, job, starting, installed>>

\* The daemon fails or is killed.
Dies ==
  /\ daemon # None /\ daemon' = None
  /\ UNCHANGED <<platform, files, config, enabled, service, stopped, foreign, at, job, starting, installed>>

\* SIGTERM or SIGINT, also before it listens: serve ends with 0, which
\* Restart=on-failure leaves alone and KeepAlive does not.
Stops ==
  /\ service # None
  /\ daemon' = None /\ stopped' = (platform = "linux")
  /\ UNCHANGED <<platform, files, config, enabled, service, foreign, at, job, starting, installed>>

Reboot ==
  /\ service' = IF platform = "darwin" \/ enabled THEN definition ELSE None
  /\ daemon' = None /\ stopped' = FALSE
  /\ EndAdmin /\ starting' = FALSE
  /\ UNCHANGED <<platform, files, config, enabled, foreign, installed>>

Occupy ==
  /\ \E p \in {DefaultPort, None} \ {foreign} :
       ~Bound(p) /\ foreign' = p
  /\ UNCHANGED <<platform, files, config, managed, at, job, starting, installed>>

-----------------------------------------------------------------------------
SetupStep ==
  \/ MakeDirectory \/ PlaceRuntime \/ ReplacePacked \/ Packed \/ Link
  \/ ReplaceSkill \/ CopySkill \/ WriteManifest \/ WriteDefinition
  \/ Prune \/ Pruned \/ Unload \/ Load \/ Restart
  \/ ProbeDown \/ SetupStarts \/ Finish
UninstallStep ==
  \/ RemoveService \/ RemoveDefinition \/ RemoveSkill \/ Empty \/ Emptied

InstallNext ==
  \/ Setup \/ SetupStep \/ Uninstall \/ UninstallStep \/ Killed
  \/ FoundDown \/ OtherStarts
  \/ Spawn \/ Dies \/ Stops \/ Reboot \/ Occupy

InstallSpec == InstallInit /\ [][InstallNext]_installVars

\* The manager starts what it was told to run, and systemd not what ended cleanly.
FairInstallSpec == InstallSpec /\ WF_installVars(Spawn)
-----------------------------------------------------------------------------
(* Properties *)

FilesOK ==
  /\ made \subseteq Versions /\ runtime \subseteq Versions
  /\ packed \in [Versions -> Skills]
  /\ current \in Versions \cup {None}
  /\ skill \in [of : Versions \cup {None}, is : Skills]

ServicesOK ==
  /\ manifest = None \/ manifest \in [version : Versions, port : Ports, url : Ports \cup {Public}]
  /\ definition \in Ports \cup {None}
  /\ service \in Ports \cup {None}
  /\ foreign \in Ports \cup {None}
  /\ daemon = None \/ daemon \in [version : Versions, port : Ports]
  /\ enabled \in BOOLEAN /\ stopped \in BOOLEAN

CommandsOK ==
  /\ platform \in {"darwin", "linux"}
  /\ at \in Places
  /\ job \in [version : Versions \cup {None}, own : BOOLEAN, port : Ports \cup {None},
             url : Ports \cup {Public, None}, asked : BOOLEAN, purge : BOOLEAN]
  /\ starting \in BOOLEAN /\ installed \in BOOLEAN

InstallTypeOK == FilesOK /\ ServicesOK /\ CommandsOK

\* At whatever point a setup, an upgrade or an uninstall is cut off, a service
\* that would be started at the next login has a runtime to start.
ServiceRunnable == definition # None => current \in runtime

\* A setup that reports success leaves one version everywhere, however many
\* were cut off before it: the link, the skill, the manifest, the definition,
\* the one the manager has loaded and the daemon that runs say the same, and a
\* local base URL names the daemon's port.
SetupComplete ==
  installed =>
    /\ current = manifest.version /\ current \in runtime
    /\ skill = [of |-> current, is |-> packed[current]] /\ skill.is \in {"part", "full"}
    /\ definition = manifest.port /\ service = definition
    /\ manifest.url \in {Public, manifest.port}
    /\ daemon # None => daemon = [version |-> current, port |-> manifest.port]

Readdresses ==
  manifest # None /\ manifest' # manifest =>
    \/ job.purge \/ job.asked
    \/ \E v \in Versions : manifest' = [manifest EXCEPT !.version = v]

\* The URLs handed out stay good: once there is a port and a base URL, only a
\* command that asks for others, or a purge, changes them; an upgrade, a
\* repair, an uninstall and an installation after it keep them.
KeepsAddress == [][Readdresses]_installVars

\* No daemon is due: no setup has succeeded since the last command began,
\* another program has the port, or the daemon was told to stop on Linux and
\* nothing has started it since.
NotDue == ~installed \/ foreign = manifest.port \/ stopped

=============================================================================
