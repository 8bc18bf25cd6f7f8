--------------------------- MODULE DesktopInstall ---------------------------
(***************************************************************************)
(* The unpacking of the desktop bundle next to the executable.  An         *)
(* installer ships a payload and tries to unpack it; every start of the    *)
(* app looks whether the files are there and the marker names the shipped  *)
(* payload, and unpacks again if not: with three Windows tools, each over  *)
(* what is there, and if the files are still not complete by removing the  *)
(* application folder and unpacking it file by file.  What is in the       *)
(* sessions folder of the WhatsApp bridge is copied aside before; the      *)
(* bridge's database, beside that folder, is not.                          *)
(*                                                                         *)
(* A payload is its version.  Of the files, "core" are the four that       *)
(* appPayloadComplete looks for, "rest" all others; 0 is missing.          *)
(***************************************************************************)
EXTENDS Naturals

CONSTANT Versions  \* bound: payloads shipped

ASSUME DesktopInstallAssumption == Versions \in Nat \ {0}

VARIABLES
  shipped,   \* version of app-payload.zip
  app,       \* the unpacked application: versions of core and rest
  marker,    \* appSha256 of .schoolsms-installed.json, 0 without one
  sessions,  \* app/openwa/data/sessions, see Folders
  store,     \* whether app/openwa/data holds a database and an API key of the bridge
  backup,    \* data/.session-backup
  ipc,       \* where ensureBundledRuntime is, see Steps
  held,      \* history: the sessions folder had sessions to begin with
  gap        \* history: an unpacking ended between removal and restore, or an uninstaller
             \* removed the application

files == <<shipped, app, marker, sessions, store, backup>>
installVars == <<files, ipc, held, gap>>

Payloads == 1 .. Versions
(* "broken": the folder exists, without the sessions or with half of them.  *)
Folders == {"none", "broken", "whole"}
Tools == {"tar", "dotnet", "expand"}
Steps == Tools \cup {"idle", "begin", "aside", "remove", "js", "restore", "final", "done", "failed"}

InstallTypeOK ==
  /\ shipped \in Payloads
  /\ app \in [core : 0 .. Versions, rest : 0 .. Versions]
  /\ marker \in 0 .. Versions
  /\ sessions \in Folders /\ backup \in Folders
  /\ ipc \in Steps
  /\ store \in BOOLEAN /\ held \in BOOLEAN /\ gap \in BOOLEAN

Nothing == [core |-> 0, rest |-> 0]

(* launch-services.mjs keeps the sessions elsewhere (SESSION_DATA_PATH), so *)
(* what is in the folder comes from a bridge that ran with its default.     *)
InstallInit ==
  /\ shipped = 1 /\ app = Nothing /\ marker = 0
  /\ sessions \in {"broken", "whole"} /\ store = FALSE /\ backup = "none"
  /\ ipc = "idle" /\ held = (sessions = "whole") /\ gap = FALSE

(* appPayloadComplete: the four files exist, of whatever payload.           *)
Complete(a) == a.core # 0

(* What a tool that may fail leaves: some files new, the others as before,  *)
(* or missing, because a file is removed before it is written again.        *)
Unpacked(a, v) == [core : {a.core, v, 0}, rest : {a.rest, v, 0}]

-----------------------------------------------------------------------------
(* installer.nsh: a new payload.  The uninstaller of the old one, if this   *)
(* folder has one registered, first removes the application; then the new   *)
(* one is unpacked, over what is left; if the four files are there its      *)
(* manifest becomes the marker.                                             *)
Install ==
  /\ shipped < Versions
  /\ shipped' = shipped + 1
  /\ \/ /\ app' \in Unpacked(app, shipped + 1)
        /\ sessions' = IF sessions = "none" THEN "broken" ELSE sessions
        /\ UNCHANGED <<store, gap>>
     \/ /\ app' \in Unpacked(Nothing, shipped + 1)
        /\ sessions' = "broken" /\ store' = FALSE /\ gap' = TRUE
  /\ marker' = IF Complete(app') THEN shipped + 1 ELSE 0
  /\ UNCHANGED <<backup, ipc, held>>

(* ensureInstallFolders makes the sessions folder; what is complete and     *)
(* marked is not unpacked again.                                            *)
Begin ==
  /\ ipc = "begin"
  /\ sessions' = IF sessions = "none" THEN "broken" ELSE sessions
  /\ ipc' = IF Complete(app) /\ marker = shipped THEN "final" ELSE "aside"
  /\ UNCHANGED <<shipped, app, marker, store, backup, held, gap>>

(* The sessions are copied aside, over an earlier copy.                     *)
CopyAside ==
  /\ ipc = "aside"
  /\ backup' = IF sessions = "none" THEN backup ELSE sessions
  /\ ipc' = "tar"
  /\ UNCHANGED <<shipped, app, marker, sessions, store, held, gap>>

NextTool == [tar |-> "dotnet", dotnet |-> "expand", expand |-> "remove"]

(* Mutant: the copy aside is dropped after any tool.                        *)
RunToolDropsBackup ==
  /\ ipc \in Tools
  /\ app' \in Unpacked(app, shipped)
  /\ backup' = "none"
  /\ ipc' = IF Complete(app') THEN "final" ELSE NextTool[ipc]
  /\ UNCHANGED <<shipped, marker, sessions, store, held, gap>>

(* Mutant: the removal follows unless the first tool has done.              *)
RunToolOnce ==
  /\ ipc \in Tools
  /\ app' \in Unpacked(app, shipped)
  /\ IF Complete(app') /\ ipc = "tar"
       THEN backup' = "none" /\ ipc' = "final"
       ELSE UNCHANGED backup /\ ipc' = NextTool[ipc]
  /\ UNCHANGED <<shipped, marker, sessions, store, held, gap>>

(* A tool's exit code does not count, only the four files.                  *)
RunTool ==
  /\ ipc \in Tools
  /\ app' \in Unpacked(app, shipped)
  /\ IF Complete(app')
       THEN backup' = "none" /\ ipc' = "final"
       ELSE UNCHANGED backup /\ ipc' = NextTool[ipc]
  /\ UNCHANGED <<shipped, marker, sessions, store, held, gap>>

(* A file that is in use ends the removal, and the start, half way.         *)
Remains(a) == [core : {0, a.core}, rest : {0, a.rest}]

RemoveApp ==
  /\ ipc = "remove"
  /\ \/ /\ app' = Nothing /\ sessions' = "none" /\ store' = FALSE
        /\ ipc' = "js" /\ UNCHANGED gap
     \/ /\ app' \in Remains(app) /\ sessions' \in {sessions, "broken", "none"}
        /\ store' \in {store, FALSE} /\ ipc' = "failed" /\ gap' = TRUE
  /\ UNCHANGED <<shipped, marker, backup, held>>

(* File by file; a file that cannot be written ends the start.              *)
UnpackFiles ==
  /\ ipc = "js"
  /\ \/ app' = [core |-> shipped, rest |-> shipped] /\ ipc' = "restore" /\ UNCHANGED gap
     \/ app' \in Unpacked(app, shipped) /\ ipc' = "failed" /\ gap' = TRUE
  /\ UNCHANGED <<shipped, marker, sessions, store, backup, held>>

Restore ==
  /\ ipc = "restore"
  /\ sessions' = IF backup = "none" THEN sessions ELSE backup
  /\ backup' = "none"
  /\ ipc' = "final"
  /\ UNCHANGED <<shipped, app, marker, store, held, gap>>

(* The marker is written last, and on every start.                          *)
Finish ==
  /\ ipc = "final"
  /\ IF Complete(app)
       THEN marker' = shipped /\ ipc' = "done"
       ELSE UNCHANGED marker /\ ipc' = "failed"
  /\ UNCHANGED <<shipped, app, sessions, store, backup, held, gap>>

(* The process ends here; the step it was in may have been half done.       *)
Interrupted ==
  /\ ipc' = "idle"
  /\ gap' = (gap \/ ipc \in {"remove", "js", "restore"})
  /\ app' \in IF ipc \in Tools \cup {"js"} THEN Unpacked(app, shipped)
              ELSE IF ipc = "remove" THEN Remains(app)
              ELSE {app}
  /\ UNCHANGED <<shipped, marker, held>>
  /\ backup' \in IF ipc = "aside" THEN {backup, "none", "broken"} ELSE {backup}
  /\ store' \in IF ipc = "remove" THEN {store, FALSE} ELSE {store}
  /\ sessions' \in IF ipc = "remove" THEN {sessions, "broken", "none"}
                   ELSE IF ipc = "restore" THEN {sessions, "broken"} ELSE {sessions}

InstallStep == Begin \/ CopyAside \/ RunTool \/ RemoveApp \/ UnpackFiles \/ Restore \/ Finish

(* The bridge that runs stores what it knows.                               *)
Record ==
  /\ Complete(app)
  /\ store' = TRUE
  /\ UNCHANGED <<shipped, app, marker, sessions, backup, ipc, held, gap>>

-----------------------------------------------------------------------------
(* Sessions found in the folder are there or aside at any moment, whatever  *)
(* tool failed and wherever the app was closed or lost power; only what     *)
(* ends between removal and restore, or an uninstaller, may lose them       *)
(* (extractAppPayloadAsync).                                                *)
SessionsSurvive == held => sessions = "whole" \/ backup = "whole" \/ gap
=============================================================================
