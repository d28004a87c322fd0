----------------------------- MODULE BuildSystem -----------------------------
(***************************************************************************)
(* Builds: triggerBuild and the run target of                              *)
(* src/core/BuildSystem/build_system.c, the build a client asks for        *)
(* (src/core/Ipc/ide_ipc_build_helpers.c, on the client's thread), the     *)
(* output of the build shell (terminal_session_runtime.c), the choice of a *)
(* workspace and the end of the program.                                   *)
(*                                                                         *)
(* A build by a pipe keeps the main thread until it is done and is one     *)
(* step; a build shell prints between frames; a client's build prints      *)
(* while the main thread goes on.                                          *)
(***************************************************************************)
EXTENDS DiagnosticLists

CONSTANTS
    NoTarget,   \* no run target
    MaxSteps    \* bound on what is not a reader or the begin of a frame

VARIABLES
    status,     \* currentStatus
    shell,      \* the workspace whose build prints into the Build terminal
    client,     \* the client's build: its workspace
    target,     \* the run target, by workspace of its executable
    steps

buildVars == <<status, shell, client, target, steps>>
allBuildVars == <<listVars, buildVars>>

NoBuild == NoTarget

BuildTypeOK ==
    /\ ListsTypeOK
    /\ status \in {"idle", "running", "success", "failed"}
    /\ {shell, client, target} \subseteq Roots \cup {NoTarget}

BuildInit ==
    /\ ListsInit
    /\ status = "idle"
    /\ shell = NoBuild /\ client = NoBuild
    /\ target = NoTarget
    /\ steps = 0

Counted == steps < MaxSteps /\ steps' = steps + 1

-----------------------------------------------------------------------------
(* Builds.                                                                 *)

(* What decides how a workspace is built.                                  *)
Setups == [command : BOOLEAN, manifest : BOOLEAN, makefile : BOOLEAN,
           compiler : BOOLEAN, terminal : BOOLEAN]

(* A command of the preferences, a manifest, a Makefile, or the compiler   *)
(* over all sources.  A shell is used for the first and the third, if      *)
(* there is a Build terminal.                                              *)
WayToBuild(s) ==
    CASE ~s.command /\ s.manifest /\ ~s.compiler -> "none"
      [] s.terminal /\ (s.command \/ (s.makefile /\ ~s.manifest)) -> "shell"
      [] OTHER -> "pipe"

(* discoverRunTarget: the newest executable in the output directory, or in *)
(* the workspace, becomes the run target if there is none.                 *)
TargetAfter(root) == IF target # NoTarget THEN {target} ELSE {NoTarget, root}

(* The build ends within the step, and its list is saved.                  *)
BuildByPipe ==
    /\ \E printed \in {0, ListRoom}, ok \in BOOLEAN :
           LET list == [i \in 1..printed |-> Reported(projectRoot)]
           IN /\ rows' = [rows EXCEPT !["build"] = list]
              /\ files' = [files EXCEPT !["build"][projectRoot] = list]
              /\ status' = IF ok THEN "success" ELSE "failed"
              /\ IF ok THEN target' \in TargetAfter(projectRoot) ELSE UNCHANGED target
    /\ reads' = [reads EXCEPT !["build"] = Outdated(@)]
    /\ UNCHANGED shell

(* The old shell of the terminal ends, a new one begins if it can be had.  *)
(* Nothing ever tells that the build has ended.                            *)
BuildInShell ==
    /\ ClearRows("build")
    /\ \/ status' = "running" /\ shell' = projectRoot
       \/ status' = "failed" /\ shell' = NoBuild
    /\ UNCHANGED <<files, target>>

BuildNotPossible ==
    /\ ClearRows("build")
    /\ status' = "failed"
    /\ UNCHANGED <<files, shell, target>>

(* triggerBuild                                                            *)
TriggerBuild ==
    /\ Counted
    /\ \E setup \in Setups :
           CASE WayToBuild(setup) = "pipe" -> BuildByPipe
             [] WayToBuild(setup) = "shell" -> BuildInShell
             [] OTHER -> BuildNotPossible
    /\ UNCHANGED <<projectRoot, unnoticed, client>>

(* terminal_flush_backend_output of the build session                      *)
ShellPrints ==
    /\ Counted
    /\ shell # NoBuild
    /\ AddRow(Reported(shell))
    /\ UNCHANGED <<projectRoot, unnoticed, files, status, shell, client, target>>

ShellEnds ==
    /\ shell # NoBuild
    /\ shell' = NoBuild
    /\ UNCHANGED <<listVars, status, client, target, steps>>

(* ide_ipc_build_build_result: whatever the profile, the working directory *)
(* and the command, the list is cleared and then fed by the command.       *)
ClientBuilds ==
    /\ Counted
    /\ client = NoBuild
    /\ client' = projectRoot
    /\ ClearRows("build")
    /\ UNCHANGED <<projectRoot, unnoticed, files, status, shell, target>>

(* run_exec_capture, while the command prints                              *)
ClientPrints ==
    /\ Counted
    /\ client # NoBuild
    /\ AddRow(Reported(client))
    /\ UNCHANGED <<projectRoot, unnoticed, files, status, shell, client, target>>

(* Its end, or its failure, after which the answer counts the rows.        *)
ClientEnds ==
    /\ client # NoBuild
    /\ client' = NoBuild
    /\ UNCHANGED <<listVars, status, shell, target, steps>>

-----------------------------------------------------------------------------
(* The workspace and the program.                                          *)

(* applyWorkspaceSelection, asked for in a menu                            *)
ChooseWorkspace(root) ==
    /\ Counted
    /\ projectRoot' = root
    /\ unnoticed' = TRUE
    /\ target' = NoTarget
    /\ UNCHANGED <<rows, reads, files, status, shell, client>>

(* ide_open_workspace_checked, asked for by a client                       *)
OpenWorkspace(root) ==
    /\ status # "running" /\ shell = NoBuild
    /\ ChooseWorkspace(root)

(* shutdownSystem saves both lists; a crash does not.  A start reads the   *)
(* files of its workspace, and finds the run target of the last time.      *)
RestartIde(root) ==
    /\ Counted
    /\ files' \in {files,
                   [k \in Kinds |-> [files[k] EXCEPT ![projectRoot] = rows[k]]]}
    /\ projectRoot' = root
    /\ unnoticed' = FALSE
    /\ rows' = [k \in Kinds |-> NoRows]
    /\ reads' = [k \in Kinds |-> WithReader([s \in Slots |-> NoRead], root)]
    /\ status' = "idle"
    /\ shell' = NoBuild /\ client' = NoBuild
    /\ target' \in {NoTarget, target}

ListStep ==
    \/ /\ \/ \E k \in Kinds, s \in Slots : ReaderEnds(k, s)
          \/ FrameBegins
       /\ UNCHANGED buildVars
    \/ /\ Flatten \/ \E root \in Roots : RunSavesStore(root)
       /\ Counted
       /\ UNCHANGED <<status, shell, client, target>>

BuildNext ==
    \/ ListStep
    \/ TriggerBuild \/ ShellPrints \/ ShellEnds
    \/ ClientBuilds \/ ClientPrints \/ ClientEnds
    \/ \E root \in Roots : ChooseWorkspace(root) \/ OpenWorkspace(root) \/ RestartIde(root)

BuildSpec == BuildInit /\ [][BuildNext]_allBuildVars

-----------------------------------------------------------------------------
(* Statements of comments and of the design that do not hold.              *)

(* What is shown and what is saved for a workspace is about it: a shell    *)
(* goes on printing after another workspace was chosen, and so does the    *)
(* build of a client.                                                      *)
SavedRowsAreOwn ==
    \A k \in Kinds, r \in Roots : \A i \in DOMAIN files[k][r] : files[k][r][i].of = r

(* A build that has ended is not running: a client cannot open another     *)
(* workspace after a build in the shell ("workspace_build_running").       *)
EndedBuildIsNotRunning == status = "running" => shell # NoBuild

=============================================================================
