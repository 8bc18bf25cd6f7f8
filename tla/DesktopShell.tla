---------------------------- MODULE DesktopShell ----------------------------
(***************************************************************************)
(* The desktop app on Windows: an Electron shell that unpacks the bundle,  *)
(* stops what an earlier run left, starts one launcher process and waits   *)
(* for its services; a launcher that frees the ports, prepares the         *)
(* database, starts backend, frontend and WhatsApp bridge and writes their *)
(* PIDs to a file; and the stop script, which kills by that file and by    *)
(* port.  Launcher, services and other programs run beside the shell; any  *)
(* of them may end, and the window may be closed, at any time.             *)
(***************************************************************************)
EXTENDS DesktopInstall

VARIABLES
  window,    \* "closed", "open", or "closing" until the app has quit
  pc,        \* where startServicesInner is
  launcher,  \* the launcher process, see LauncherStates
  own,       \* own[s]: the service process of the current launcher
  orphan,    \* orphan[s]: service processes of launchers that have ended
  foreign,   \* services whose port another program listens on
  pidfile,   \* services of this launcher that desktop.pids.json names
  unnamed    \* history: services left to boot by a launcher that had still to name
             \* them, or by a stop that ran out of time

shellVars == <<window, pc>>
procs == <<launcher, own, orphan, foreign, pidfile, unnamed>>
desktopVars == <<installVars, shellVars, procs>>

Core == {"backend", "frontend"}
Services == Core \cup {"openwa"}
LauncherStates == {"none", "preflight", "ports", "schema", "spawn", "wait", "bridge",
                   "bridged", "serve", "dead"}
OwnStates == {"none", "booting", "up", "exited"}
(* An orphan that boots is "known" while the PID file names it, else        *)
(* "stray".                                                                 *)
OrphanStates == {"known", "stray", "up"}
Starting == {"layout", "runtime", "stop", "backend", "frontend"}

ShellTypeOK ==
  /\ InstallTypeOK
  /\ window \in {"closed", "open", "closing"}
  /\ pc \in Starting \cup {"idle", "ready", "failed"}
  /\ launcher \in LauncherStates
  /\ own \in [Services -> OwnStates]
  /\ orphan \in [Services -> SUBSET OrphanStates]
  /\ foreign \subseteq Services /\ pidfile \subseteq Services
  /\ unnamed \subseteq Services

ShellInit ==
  /\ InstallInit
  /\ window = "closed" /\ pc = "idle"
  /\ launcher = "none"
  /\ own = [s \in Services |-> "none"]
  /\ orphan = [s \in Services |-> {}]
  /\ foreign = {} /\ pidfile = {} /\ unnamed = {}

Listening(s) == own[s] = "up" \/ "up" \in orphan[s] \/ s \in foreign
Ours(s) == own[s] = "up" \/ "up" \in orphan[s]
Alive(s) == own[s] \in {"booting", "up"}

-----------------------------------------------------------------------------
(* The stop script kills the PIDs of the file, removes the file, and kills  *)
(* whatever listens on the three ports, each in this order; it is given     *)
(* 3.5 s.                                                                   *)
Prefixes == {{}, {"backend"}, Core, Services}

StopScript ==
  \E named, freed \in Prefixes :
    /\ freed # {} => named = Services
    /\ orphan' = [s \in Services |-> orphan[s] \
                     ((IF s \in named THEN {"known"} ELSE {}) \cup (IF s \in freed THEN {"up"} ELSE {}))]
    /\ foreign' = foreign \ freed

(* killChildTree and stopViaScript: the launcher with its children, then    *)
(* the script, if it has been unpacked.                                     *)
Cleanup(next) ==
  /\ launcher' = next
  /\ own' = [s \in Services |-> "none"] /\ pidfile' = {}
  /\ IF Complete(app) THEN StopScript ELSE UNCHANGED <<orphan, foreign>>
  /\ unnamed' = unnamed \cup {s \in Services : "known" \in orphan'[s]}

OpenWindow ==
  /\ window = "closed"
  /\ window' = "open"
  /\ UNCHANGED <<installVars, pc, procs>>

(* start_services, by the splash or its Retry button; one at a time.        *)
StartServices ==
  /\ window = "open" /\ pc \in {"idle", "failed"}
  /\ pc' = "layout" /\ ipc' = "begin"
  /\ UNCHANGED <<files, held, gap, window, procs>>

(* ensureBundledRuntime runs twice in a row, first from ensureDataLayout.   *)
InstallRuns ==
  /\ pc \in {"layout", "runtime"} /\ InstallStep
  /\ UNCHANGED <<shellVars, procs>>

InstallReturns ==
  /\ pc \in {"layout", "runtime"} /\ ipc \in {"done", "failed"}
  /\ IF ipc = "failed"
       THEN pc' = "failed" /\ ipc' = "idle"
       ELSE IF pc = "layout" THEN pc' = "runtime" /\ ipc' = "begin"
       ELSE pc' = "stop" /\ ipc' = "idle"
  /\ UNCHANGED <<files, held, gap, window, procs>>

(* Mutant: what an earlier launcher left is not stopped.                    *)
SpawnBesides ==
  /\ pc = "stop" /\ pc' = "backend"
  /\ launcher' = "preflight"
  /\ own' = [s \in Services |-> "none"] /\ pidfile' = {}
  /\ UNCHANGED <<installVars, window, orphan, foreign, unnamed>>

(* In one go: stop what runs, start the launcher.                           *)
SpawnLauncher ==
  /\ pc = "stop"
  /\ Cleanup("preflight")
  /\ pc' = "backend"
  /\ UNCHANGED <<installVars, window>>

(* Mutant: the backend is waited for without a limit.                       *)
WaitBackendForever ==
  /\ pc = "backend" /\ launcher # "dead" /\ Listening("backend")
  /\ pc' = "frontend"
  /\ UNCHANGED <<installVars, window, procs>>

(* waitHttpOk: a launcher that has ended fails the start, unless a closing  *)
(* window has taken it away; any listener on the port passes it, 180 s      *)
(* without one fail it.                                                     *)
WaitBackend ==
  /\ pc = "backend"
  /\ pc' = IF launcher # "dead" /\ Listening("backend") THEN "frontend" ELSE "failed"
  /\ UNCHANGED <<installVars, window, procs>>

WaitFrontend ==
  /\ pc = "frontend"
  /\ pc' = IF launcher # "dead" /\ Listening("frontend") THEN "ready" ELSE "failed"
  /\ UNCHANGED <<installVars, window, procs>>

(* Closing the window cleans up; what startServicesInner awaits may still   *)
(* go on until the app quits, which cleans up once more.                    *)
Close ==
  /\ window = "open" /\ window' = "closing"
  /\ Cleanup("none")
  /\ UNCHANGED <<installVars, pc>>

Quit ==
  /\ window = "closing" /\ window' = "closed"
  /\ pc' = "idle"
  /\ Interrupted
  /\ Cleanup("none")

PowerLoss ==
  /\ window' = "closed" /\ pc' = "idle"
  /\ Interrupted
  /\ launcher' = "none"
  /\ own' = [s \in Services |-> "none"]
  /\ orphan' = [s \in Services |-> {}]
  /\ foreign' = {} /\ pidfile' = {}
  /\ UNCHANGED unnamed

-----------------------------------------------------------------------------
(* The services whose children this launcher has still to name.             *)
ToName == IF launcher = "wait" THEN Core ELSE IF launcher = "bridged" THEN {"openwa"} ELSE {}

(* The launcher ends, by itself or not: its children run on.                *)
LauncherEnds ==
  /\ launcher' = "dead"
  /\ orphan' = [s \in Services |->
       IF own[s] = "up" THEN orphan[s] \cup {"up"}
       ELSE IF own[s] = "booting"
         THEN orphan[s] \cup {IF s \in pidfile THEN "known" ELSE "stray"}
         ELSE orphan[s]]
  /\ own' = [s \in Services |-> "none"] /\ pidfile' = {}
  /\ unnamed' = unnamed \cup {s \in ToName : own[s] = "booting"}
  /\ UNCHANGED foreign

LauncherFails ==
  /\ launcher \notin {"none", "dead"}
  /\ LauncherEnds
  /\ UNCHANGED <<installVars, shellVars>>

Preflight ==
  /\ launcher = "preflight" /\ Complete(app)
  /\ launcher' = "ports"
  /\ UNCHANGED <<installVars, shellVars, own, orphan, foreign, pidfile, unnamed>>

(* stopAllPorts: listeners are killed; one that cannot be is warned about.  *)
FreePorts ==
  /\ launcher = "ports"
  /\ launcher' = "schema"
  /\ orphan' = [s \in Services |-> orphan[s] \ {"up"}]
  /\ foreign' \in {{}, foreign}
  /\ UNCHANGED <<installVars, shellVars, own, pidfile, unnamed>>

Schema ==
  /\ launcher = "schema"
  /\ launcher' = "spawn"
  /\ UNCHANGED <<installVars, shellVars, own, orphan, foreign, pidfile, unnamed>>

StartCore ==
  /\ launcher = "spawn"
  /\ launcher' = "wait"
  /\ own' = [s \in Services |-> IF s \in Core THEN "booting" ELSE own[s]]
  /\ UNCHANGED <<installVars, shellVars, orphan, foreign, pidfile, unnamed>>

(* Both ports answer, and the backend that answers uses this data folder,   *)
(* be it this launcher's or an orphan: the PID file is written, over what   *)
(* an earlier launcher's named.                                             *)
NameCore ==
  /\ launcher = "wait"
  /\ \A s \in Core : Listening(s)
  /\ Ours("backend")
  /\ launcher' = "bridge" /\ pidfile' = Core
  /\ orphan' = [s \in Services |->
       IF "known" \in orphan[s] THEN (orphan[s] \ {"known"}) \cup {"stray"} ELSE orphan[s]]
  /\ UNCHANGED <<installVars, shellVars, own, foreign, unnamed>>

(* The WhatsApp bridge is started if it is bundled, ...                     *)
StartBridge ==
  /\ launcher = "bridge"
  /\ launcher' = "bridged"
  /\ \/ own' = [own EXCEPT !["openwa"] = "booting"]
     \/ UNCHANGED own
  /\ UNCHANGED <<installVars, shellVars, orphan, foreign, pidfile, unnamed>>

(* ... and the file written again.                                          *)
NameBridge ==
  /\ launcher = "bridged"
  /\ launcher' = "serve"
  /\ pidfile' = IF own["openwa"] = "none" THEN Core ELSE Services
  /\ UNCHANGED <<installVars, shellVars, own, orphan, foreign, unnamed>>

-----------------------------------------------------------------------------
(* A service that boots takes its port, or exits because it is taken.       *)
ServiceBoots(s) ==
  /\ \/ /\ own[s] = "booting"
        /\ own' = [own EXCEPT ![s] = IF Listening(s) THEN "exited" ELSE "up"]
        /\ UNCHANGED orphan
     \/ \E k \in orphan[s] \cap {"known", "stray"} :
          /\ orphan' = [orphan EXCEPT ![s] = IF Listening(s) THEN @ \ {k} ELSE (@ \ {k}) \cup {"up"}]
          /\ UNCHANGED own
  /\ UNCHANGED <<installVars, shellVars, launcher, foreign, pidfile, unnamed>>

ServiceExits(s) ==
  /\ \/ Alive(s) /\ own' = [own EXCEPT ![s] = "exited"] /\ UNCHANGED orphan
     \/ \E k \in orphan[s] : orphan' = [orphan EXCEPT ![s] = @ \ {k}] /\ UNCHANGED own
  /\ UNCHANGED <<installVars, shellVars, launcher, foreign, pidfile, unnamed>>

ForeignMoves(s) ==
  /\ \/ s \in foreign /\ foreign' = foreign \ {s}
     \/ ~Listening(s) /\ foreign' = foreign \cup {s}
  /\ UNCHANGED <<installVars, shellVars, launcher, own, orphan, pidfile, unnamed>>

(* An installer runs while the app is closed; the bridge writes while it is *)
(* up.                                                                      *)
Installer == window = "closed" /\ Install /\ UNCHANGED <<shellVars, procs>>
BridgeRecords == own["openwa"] = "up" /\ Record /\ UNCHANGED <<shellVars, procs>>

-----------------------------------------------------------------------------
Shell ==
  \/ InstallRuns \/ InstallReturns \/ SpawnLauncher \/ WaitBackend \/ WaitFrontend
Launcher == Preflight \/ FreePorts \/ Schema \/ StartCore \/ NameCore \/ StartBridge \/ NameBridge
            \/ LauncherFails

ShellNext ==
  \/ OpenWindow \/ StartServices \/ Shell \/ Close \/ Quit \/ PowerLoss
  \/ Launcher
  \/ \E s \in Services : ServiceBoots(s) \/ ServiceExits(s) \/ ForeignMoves(s)
  \/ Installer \/ BridgeRecords

ShellSpec == ShellInit /\ [][ShellNext]_desktopVars

(* The shell's own steps end: a tool exits, a wait is bounded by 180 s.     *)
ShellLiveSpec == ShellSpec /\ WF_desktopVars(Shell)

-----------------------------------------------------------------------------
(* No service is lost to stop-services.mjs: one that boots, and so listens  *)
(* on no port yet, under a launcher that serves or after one that served,   *)
(* is named by the PID file, and no later launcher writes over its name;    *)
(* but for a launcher that ended with services still to be named, and a     *)
(* stop that ran out of time.                                               *)
StopFindsAll ==
  \A s \in Services :
    /\ "stray" \in orphan[s] => s \in unnamed
    /\ launcher = "serve" /\ own[s] = "booting" => s \in pidfile

(* A start loses the bridge's database only when all three tools have left  *)
(* the application incomplete: an unpacking that one of them completed, or  *)
(* an application that was complete, does not cost it.                      *)
StoreKept == [][store /\ ~store' /\ window # "closed" => ~Complete(app)]_desktopVars

(* A start request is answered, whatever becomes of launcher and services.  *)
StartReturns == pc \in Starting ~> pc \notin Starting
=============================================================================
