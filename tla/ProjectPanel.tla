---------------------------- MODULE ProjectPanel ----------------------------
(***************************************************************************)
(* The project panel (ToolPanels/Project, GlobalInfo/project.c): the tree  *)
(* of entries read from the disk at the last refresh, the pointers into it *)
(* (selection, entry being renamed, entry being dragged), the run target,  *)
(* and the operations on the disk.                                         *)
(*                                                                         *)
(* A frame handles mouse and keyboard, executes one command and, if asked  *)
(* to, reads the tree anew (runFrameLoop).  The mouse acts at once; keys   *)
(* become commands, which act on what is selected when they are executed.  *)
(* Another program changes the disk at any time; the watcher asks for a    *)
(* refresh some time later.                                                *)
(*                                                                         *)
(* A path is the sequence of its names below the workspace.  An entry is   *)
(* named by the path it was read under; moving a file changes its path.    *)
(* Left out: what is expanded, the contents of files, the tabs of files    *)
(* that are deleted (DeleteFile of Editor), folders listed without their   *)
(* contents (build, dist, ...), and the time stamps that decide which of   *)
(* several programs is the newest.                                         *)
(***************************************************************************)
EXTENDS Naturals, Sequences, SequencesExt, FiniteSetsExt

CONSTANTS
    Names,           \* names of files and folders
    NewFile,         \* "new_file.c"
    NewFolder,       \* "new_folder"
    Depth,           \* bound on the folders above a file
    StartDisk,       \* the disk at first: from the paths there to their kinds
    MaxChanges,      \* bound on the changes of the disk
    MaxWaiting       \* bound on the commands waiting

VARIABLES
    disk,       \* from the paths that exist to what is there
    tree,       \* projectRoot: from entries to their path, parent and type
    sel,        \* selected entry, file, directory, and the paths remembered
    rename,     \* renamingEntry and renameBuffer
    prompt,     \* s_projectRenameContext while the prompt is open
    drag,       \* projectDrag: the entry, and whether it has been moved
    created,    \* newly_created_path
    target,     \* runTargetPath of the core state, run_target_path of the panel
    waiting,    \* the command bus
    pending,    \* pendingProjectRefresh
    drawn,      \* the tree was drawn since it was read, so rows can be hit
    step,       \* where the frame is; "stopped" once freed memory was used
    changes,    \* changes of the disk so far (no program variable)
    unseen      \* the disk was changed behind the panel's back (no program variable)

projectVars == <<disk, tree, sel, rename, prompt, drag, created, target, waiting,
                 pending, drawn, step, changes, unseen>>

Top == <<>>
Places == UNION {[1..n -> Names] : n \in 0..Depth}
Nothing == <<"nothing">>     \* a null pointer or an empty path
Freed == <<"freed">>         \* a pointer to memory that was freed
Truncated == <<"truncated">> \* a path cut to seven bytes

(* At first every entry is in a folder; the values that stand for what is  *)
(* no path are no paths.                                                   *)
ASSUME ProjectAssumption ==
    /\ Top \in DOMAIN StartDisk /\ StartDisk[Top] = "folder"
    /\ \A p \in DOMAIN StartDisk :
           /\ p \in Seq(Names)
           /\ StartDisk[p] \in {"folder", "plain", "program"}
           /\ p # Top => Front(p) \in DOMAIN StartDisk /\ StartDisk[Front(p)] = "folder"
    /\ {NewFile, NewFolder} \subseteq Names
    /\ {"nothing", "freed", "truncated"} \cap Names = {}

DirEntry == [path : Places, parent : Places \cup {Nothing}, type : {"file", "folder"}]

ProjectTypeOK ==
    /\ Top \in DOMAIN disk /\ DOMAIN disk \subseteq Places
    /\ \A p \in DOMAIN disk : disk[p] \in {"folder", "plain", "program"}
    /\ Top \in DOMAIN tree /\ DOMAIN tree \subseteq Places
    /\ \A e \in DOMAIN tree : tree[e] \in DirEntry
    /\ {sel.entry, sel.file, sel.dir, rename.entry, drag.entry} \subseteq
            Places \cup {Nothing, Freed}
    /\ {sel.filePath, sel.dirPath, created, prompt, target.core} \subseteq Places \cup {Nothing}
    /\ target.panel \in Places \cup {Nothing, Truncated}
    /\ rename.name \in Names /\ drag.active \in BOOLEAN
    /\ Len(waiting) <= MaxWaiting
    /\ {pending, drawn, unseen} \subseteq BOOLEAN
    /\ step \in {"input", "refresh", "stopped"}

-----------------------------------------------------------------------------
(* The disk *)

IsFolder(p) == p \in DOMAIN disk /\ disk[p] = "folder"
Inside(p) == {q \in DOMAIN disk : IsStrictPrefix(p, q)}

Created(p, kind) == [q \in DOMAIN disk \cup {p} |-> IF q = p THEN kind ELSE disk[q]]
Removed(gone) == [q \in DOMAIN disk \ gone |-> disk[q]]

\* rename(2): a file replaces a file, a folder an empty folder.
CanRename(old, new) ==
    /\ old \in DOMAIN disk /\ old # new /\ IsFolder(Front(new))
    /\ ~IsPrefix(old, new)
    /\ new \in DOMAIN disk => /\ IsFolder(old) = IsFolder(new)
                              /\ Inside(new) = {}

Moved(old, new, q) == new \o SubSeq(q, Len(old) + 1, Len(q))

Renamed(old, new) ==
    LET gone == {old} \cup Inside(old)
    IN [q \in (DOMAIN disk \ gone) \cup {Moved(old, new, g) : g \in gone} |->
            IF \E g \in gone : q = Moved(old, new, g)
            THEN disk[CHOOSE g \in gone : q = Moved(old, new, g)] ELSE disk[q]]

\* loadProjectDirectory
ReadIn(d) == [p \in DOMAIN d |->
                [path |-> p, parent |-> IF p = Top THEN Nothing ELSE Front(p),
                 type |-> IF d[p] = "folder" THEN "folder" ELSE "file"]]

Shallow(p) == Len(p) < Depth

-----------------------------------------------------------------------------
(* Selection and run target *)

IsEntry(e) == e \in DOMAIN tree

\* findEntryByPath
FindEntry(t, p) == IF \E e \in DOMAIN t : t[e].path = p
                   THEN CHOOSE e \in DOMAIN t : t[e].path = p ELSE Nothing

SetFile(s, t, e) == [s EXCEPT !.file = e, !.filePath = IF e = Nothing THEN Nothing ELSE t[e].path]
SetDirectory(s, t, e) ==
    [s EXCEPT !.dir = e, !.dirPath = IF e = Nothing THEN Nothing ELSE t[e].path]

\* selectDirectoryEntry and selectFileEntry, without the run target
DirectorySelected(s, t, e) == SetFile([SetDirectory(s, t, e) EXCEPT !.entry = e], t, Nothing)
FileSelected(s, t, e) ==
    LET chosen == [SetFile(s, t, e) EXCEPT !.entry = e]
    IN IF s.dir \in {Nothing, Top} /\ t[e].parent # Nothing
       THEN SetDirectory(chosen, t, t[e].parent) ELSE chosen

\* find_newest_executable_recursive: the execute bits are looked at, which
\* folders have too.
Programs(d, t, e) ==
    {t[f].path : f \in {f \in DOMAIN t : /\ t[f].type = "file" /\ IsPrefix(e, f)
                                         /\ t[f].path \in DOMAIN d
                                         /\ d[t[f].path] # "plain"}}

\* project_run_target_update_from_entry
RunTargets(d, t, e) ==
    LET p == t[e].path
        found == IF t[e].type = "folder" THEN Programs(d, t, e)
                 ELSE IF p \in DOMAIN d /\ d[p] = "program" THEN {p} ELSE {}
        kept(f) == IF target.panel = f THEN target ELSE [core |-> f, panel |-> f]
    IN IF found = {} THEN {[core |-> Nothing, panel |-> Nothing]} ELSE {kept(f) : f \in found}

\* Mutant: the run target is kept when the tree is read anew.
KeptRunTarget(t) == IF target.core = Nothing THEN target ELSE [target EXCEPT !.panel = Truncated]

\* restoreRunTargetSelection, after the tree was read
RestoredRunTarget(t) ==
    IF target.core = Nothing THEN [target EXCEPT !.panel = Nothing]
    ELSE IF FindEntry(t, target.core) # Nothing THEN [target EXCEPT !.panel = Truncated]
    ELSE [core |-> Nothing, panel |-> Nothing]

Select(e) ==
    /\ sel' = IF tree[e].type = "folder" THEN DirectorySelected(sel, tree, e)
                                         ELSE FileSelected(sel, tree, e)
    /\ target' \in RunTargets(disk, tree, e)

-----------------------------------------------------------------------------
(* Input *)

Hovered(e) == step = "input" /\ drawn /\ drag.entry = Nothing /\ IsEntry(e)

ClickRow(e) ==
    /\ Hovered(e)
    /\ Select(e)
    /\ drag' = IF tree[e].type = "file" THEN [entry |-> e, active |-> FALSE] ELSE drag
    /\ UNCHANGED <<disk, tree, rename, prompt, created, waiting, pending, drawn, step,
                   changes, unseen>>

\* A click that opens a file or a folder starts no drag.
DoubleClickRow(e) ==
    /\ Hovered(e)
    /\ Select(e)
    /\ UNCHANGED <<disk, tree, rename, prompt, drag, created, waiting, pending, drawn, step,
                   changes, unseen>>

RightClickRow(e) ==
    /\ Hovered(e) /\ e # Top
    /\ Select(e)
    /\ prompt' = tree[e].path
    /\ UNCHANGED <<disk, tree, rename, drag, created, waiting, pending, drawn, step,
                   changes, unseen>>

\* updateProjectDrag and finalizeProjectDrag look at the dragged entry.
UseFreedEntry ==
    /\ step = "input" /\ drag.entry = Freed
    /\ step' = "stopped"
    /\ UNCHANGED <<disk, tree, sel, rename, prompt, drag, created, target, waiting, pending,
                   drawn, changes, unseen>>

DragFile ==
    /\ step = "input" /\ IsEntry(drag.entry) /\ ~drag.active
    /\ drag' = [drag EXCEPT !.active = TRUE]
    /\ UNCHANGED <<disk, tree, sel, rename, prompt, created, target, waiting, pending, drawn,
                   step, changes, unseen>>

NoDrag == [entry |-> Nothing, active |-> FALSE]

\* Released elsewhere, or the pointer left the window.
DropNowhere ==
    /\ step = "input" /\ drag.entry # Nothing
    /\ drag' = NoDrag
    /\ UNCHANGED <<disk, tree, sel, rename, prompt, created, target, waiting, pending, drawn,
                   step, changes, unseen>>

\* setProjectDirectoryDropTarget and moveFileEntryToDirectory
DropOnFolder(e) ==
    /\ step = "input" /\ drawn /\ IsEntry(drag.entry) /\ drag.active
    /\ IsEntry(e) /\ tree[e].type = "folder" /\ Shallow(tree[e].path)
    /\ e # tree[drag.entry].parent
    /\ changes < MaxChanges
    /\ LET old == tree[drag.entry].path
           new == Append(tree[e].path, Last(old))
       IN /\ new \notin DOMAIN disk
          /\ IF CanRename(old, new)
             THEN /\ disk' = Renamed(old, new)
                  /\ tree' = [tree EXCEPT ![drag.entry].path = new, ![drag.entry].parent = e]
                  /\ created' = new /\ pending' = TRUE /\ changes' = changes + 1
             ELSE UNCHANGED <<disk, tree, created, pending, changes>>
    /\ drag' = NoDrag
    /\ UNCHANGED <<sel, rename, prompt, target, waiting, drawn, step, unseen>>

\* Keys and buttons; which of them are there depends on what is selected now.
PressKey(command) ==
    /\ step = "input" /\ prompt = Nothing /\ Len(waiting) < MaxWaiting
    /\ CASE command \in {"confirm", "cancel"} -> rename.entry # Nothing
         [] command = "delete_file" -> rename.entry = Nothing /\ sel.file # Nothing
         [] command = "delete_folder" -> rename.entry = Nothing /\ sel.dir \notin {Nothing, Top}
         [] OTHER -> rename.entry = Nothing
    /\ waiting' = Append(waiting, command)
    /\ UNCHANGED <<disk, tree, sel, rename, prompt, drag, created, target, pending, drawn, step,
                   changes, unseen>>

TypeName(name) ==
    /\ step = "input" /\ prompt = Nothing /\ rename.entry # Nothing
    /\ rename' = [rename EXCEPT !.name = name]
    /\ UNCHANGED <<disk, tree, sel, prompt, drag, created, target, waiting, pending, drawn,
                   step, changes, unseen>>

\* submitRename with isRenameValid and handleProjectFileRenameCallback
SubmitPrompt(name) ==
    /\ step = "input" /\ prompt # Nothing /\ changes < MaxChanges
    /\ LET new == Append(Front(prompt), name)
       IN /\ name # Last(prompt) => new \notin DOMAIN disk
          /\ IF name # Last(prompt) /\ CanRename(prompt, new)
             THEN disk' = Renamed(prompt, new) /\ pending' = TRUE /\ changes' = changes + 1
             ELSE UNCHANGED <<disk, pending, changes>>
    /\ prompt' = Nothing
    /\ UNCHANGED <<tree, sel, rename, drag, created, target, waiting, drawn, step, unseen>>

CancelPrompt ==
    /\ step = "input" /\ prompt # Nothing
    /\ prompt' = Nothing
    /\ UNCHANGED <<disk, tree, sel, rename, drag, created, target, waiting, pending, drawn,
                   step, changes, unseen>>

-----------------------------------------------------------------------------
(* Commands (handleProjectFilesCommand) *)

BeginRename ==
    /\ rename' = IF sel.file # Nothing
                 THEN [entry |-> sel.file, name |-> Last(tree[sel.file].path)]
                 ELSE IF sel.dir \notin {Nothing, Top}
                 THEN [entry |-> sel.dir, name |-> Last(tree[sel.dir].path)]
                 ELSE [rename EXCEPT !.entry = Nothing]
    /\ UNCHANGED <<disk, sel, created, target, pending, changes, unseen>>

CancelRename ==
    /\ rename' = [rename EXCEPT !.entry = Nothing]
    /\ UNCHANGED <<disk, sel, created, target, pending, changes, unseen>>

\* Whatever stands under the new name is replaced without a question.
ConfirmRename ==
    IF rename.entry \notin {Nothing, Top}
    THEN LET old == tree[rename.entry].path
             new == Append(tree[tree[rename.entry].parent].path, rename.name)
         IN /\ IF CanRename(old, new)
               THEN disk' = Renamed(old, new) /\ created' = new /\ changes' = changes + 1
               ELSE /\ UNCHANGED <<disk, changes>>
                    /\ created' = IF old = new /\ old \in DOMAIN disk THEN new ELSE created
            /\ rename' = [rename EXCEPT !.entry = Nothing]
            /\ pending' = TRUE
            /\ UNCHANGED <<sel, target, unseen>>
    ELSE UNCHANGED <<disk, sel, rename, created, target, pending, changes, unseen>>

\* getCurrentTargetDirectory
TargetDirectory ==
    IF sel.dir # Nothing THEN sel.dir
    ELSE IF sel.file # Nothing THEN tree[sel.file].parent ELSE Top

\* createFileInProject (an existing file is emptied, which is not represented)
\* and createFolderInProject
Create(name, kind) ==
    LET folder == tree[TargetDirectory].path
        new == Append(folder, name)
        works == /\ IsFolder(folder)
                 /\ \/ new \notin DOMAIN disk
                    \/ kind = "plain" /\ ~IsFolder(new)
    IN /\ Shallow(folder)
       /\ IF works
          THEN /\ disk' = IF new \in DOMAIN disk THEN disk ELSE Created(new, kind)
               /\ created' = new /\ changes' = changes + 1
          ELSE UNCHANGED <<disk, created, changes>>
       /\ pending' = TRUE
       /\ UNCHANGED <<sel, rename, target, unseen>>

\* The run target is dropped with what is deleted, then chosen anew for the
\* folder that is selected instead.
SelectAfterDelete(d, s, parent) ==
    /\ sel' = DirectorySelected(SetFile(s, tree, Nothing), tree, parent)
    /\ target' \in RunTargets(d, tree, parent)

DeleteFile ==
    IF sel.file # Nothing /\ tree[sel.file].path \in DOMAIN disk
                          /\ Inside(tree[sel.file].path) = {}
    THEN /\ disk' = Removed({tree[sel.file].path})
         /\ SelectAfterDelete(disk', sel, tree[sel.file].parent)
         /\ pending' = TRUE /\ changes' = changes + 1
         /\ UNCHANGED <<rename, created, unseen>>
    ELSE UNCHANGED <<disk, sel, rename, created, target, pending, changes, unseen>>

\* deletePathRecursive may fail after it has removed some of the contents; then
\* nothing else is done.
DeleteDirectory ==
    IF sel.dir \notin {Nothing, Top} /\ tree[sel.dir].path \in DOMAIN disk
    THEN LET p == tree[sel.dir].path
         IN \/ /\ disk' = Removed({p} \cup Inside(p))
               /\ SelectAfterDelete(disk', sel, tree[sel.dir].parent)
               /\ pending' = TRUE /\ changes' = changes + 1
               /\ UNCHANGED <<rename, created, unseen>>
            \/ /\ \E gone \in SUBSET Inside(p) :
                    /\ gone # {} /\ \A q \in gone : Inside(q) \subseteq gone
                    /\ disk' = Removed(gone)
               /\ changes' = changes + 1 /\ unseen' = TRUE
               /\ UNCHANGED <<sel, rename, created, target, pending>>
    ELSE UNCHANGED <<disk, sel, rename, created, target, pending, changes, unseen>>

Execute(command) ==
    CASE command = "rename" -> BeginRename
      [] command = "confirm" -> ConfirmRename
      [] command = "cancel" -> CancelRename
      [] command = "new_file" -> Create(NewFile, "plain")
      [] command = "new_folder" -> Create(NewFolder, "folder")
      [] command = "delete_file" -> DeleteFile
      [] command = "delete_folder" -> DeleteDirectory

ExecuteCommand ==
    /\ step = "input" /\ waiting # <<>> /\ changes < MaxChanges
    /\ Execute(Head(waiting))
    /\ waiting' = Tail(waiting) /\ step' = "refresh"
    /\ UNCHANGED <<tree, prompt, drag, drawn>>

NoCommand ==
    /\ step = "input" /\ waiting = <<>>
    /\ step' = "refresh"
    /\ UNCHANGED <<disk, tree, sel, rename, prompt, drag, created, target, waiting, pending,
                   drawn, changes, unseen>>

-----------------------------------------------------------------------------
(* The end of a frame *)

Dangling(e) == IF e = Nothing THEN Nothing ELSE Freed

\* Mutant: the entry being renamed is kept.
KeepRename ==
    /\ rename' = [rename EXCEPT !.entry = Dangling(rename.entry)]
    /\ drag' = [drag EXCEPT !.entry = Dangling(drag.entry)]

\* refreshProjectDirectory forgets its pointers before it frees the tree; the
\* drag keeps its own.
CleanPointers ==
    /\ rename' = [rename EXCEPT !.entry = Nothing]
    /\ drag' = [drag EXCEPT !.entry = Dangling(drag.entry)]

\* refreshProjectDirectory, from "Restore selections"
RestoredSelection(t) ==
    LET none == [sel EXCEPT !.entry = Nothing, !.file = Nothing, !.dir = Nothing]
        new == FindEntry(t, created)
        file == FindEntry(t, sel.filePath)
        dir == FindEntry(t, sel.dirPath)
        withFile == SetFile(none, t, IF file # Nothing /\ t[file].type = "file"
                                     THEN file ELSE Nothing)
        withDir == SetDirectory(withFile, t, IF dir # Nothing /\ t[dir].type = "folder"
                                             THEN dir ELSE Top)
    IN IF created # Nothing
       THEN IF new = Nothing THEN none
            ELSE IF t[new].type = "folder" THEN [SetDirectory(none, t, new) EXCEPT !.entry = new]
            ELSE [SetDirectory(SetFile(none, t, new), t, t[new].parent) EXCEPT !.entry = new]
       ELSE [withDir EXCEPT !.entry = IF withDir.file # Nothing THEN withDir.file
                                                                ELSE withDir.dir]

Refresh ==
    /\ step = "refresh" /\ pending
    /\ tree' = ReadIn(disk)
    /\ CleanPointers
    /\ sel' = RestoredSelection(tree')
    /\ created' = Nothing
    /\ target' = RestoredRunTarget(tree')
    /\ pending' = FALSE /\ unseen' = FALSE /\ drawn' = FALSE /\ step' = "input"
    /\ UNCHANGED <<disk, prompt, waiting, changes>>

Draw ==
    /\ step = "refresh" /\ ~pending
    /\ drawn' = TRUE /\ step' = "input"
    /\ UNCHANGED <<disk, tree, sel, rename, prompt, drag, created, target, waiting, pending,
                   changes, unseen>>

\* Another program, and the watcher (file_watcher.c:263)
ChangeOutside(p) ==
    /\ step = "input" /\ changes < MaxChanges
    /\ \/ /\ p \notin DOMAIN disk /\ IsFolder(Front(p))
          /\ \E kind \in {"plain", "program"} : disk' = Created(p, kind)
       \/ /\ p \in DOMAIN disk
          /\ disk' = Removed({p} \cup Inside(p))
    /\ changes' = changes + 1 /\ unseen' = TRUE
    /\ UNCHANGED <<tree, sel, rename, prompt, drag, created, target, waiting, pending, drawn, step>>

WatcherNotices ==
    /\ step = "input" /\ unseen /\ ~pending
    /\ pending' = TRUE
    /\ UNCHANGED <<disk, tree, sel, rename, prompt, drag, created, target, waiting, drawn, step,
                   changes, unseen>>

ProjectInit ==
    /\ disk = StartDisk
    /\ tree = ReadIn(StartDisk)
    /\ sel = [entry |-> Top, file |-> Nothing, dir |-> Top, filePath |-> Nothing,
              dirPath |-> Top]
    /\ rename = [entry |-> Nothing, name |-> NewFile]
    /\ prompt = Nothing /\ drag = NoDrag /\ created = Nothing
    /\ target = [core |-> Nothing, panel |-> Nothing]
    /\ waiting = <<>> /\ pending = FALSE /\ drawn = TRUE /\ step = "input"
    /\ changes = 0 /\ unseen = FALSE

Commands == {"rename", "confirm", "cancel", "new_file", "new_folder", "delete_file",
             "delete_folder"}

ProjectNext ==
    \/ \E e \in Places : ClickRow(e) \/ DoubleClickRow(e) \/ RightClickRow(e) \/ DropOnFolder(e)
    \/ DragFile \/ DropNowhere \/ UseFreedEntry
    \/ \E command \in Commands : PressKey(command)
    \/ \E name \in Names : TypeName(name) \/ SubmitPrompt(name)
    \/ CancelPrompt
    \/ ExecuteCommand \/ NoCommand \/ Refresh \/ Draw
    \/ \E p \in Places \ {Top} : ChangeOutside(p)
    \/ WatcherNotices

ProjectSpec == ProjectInit /\ [][ProjectNext]_projectVars

-----------------------------------------------------------------------------
(* Properties *)

\* Selection and inline rename never point at an entry that was freed, and name
\* entries of their type, whatever was moved, deleted, renamed or refreshed
\* while commands were waiting (tool_project.c:836).  The drag is not covered.
SelectionStands ==
    /\ {sel.entry, sel.file, sel.dir, rename.entry} \subseteq DOMAIN tree \cup {Nothing}
    /\ sel.file # Nothing => tree[sel.file].type = "file"
    /\ sel.dir # Nothing => tree[sel.dir].type = "folder"

\* The run target is there: after moves, renames and deletions it is given up or
\* chosen anew at the latest with the refresh they ask for, unless the disk was
\* changed unseen or a deletion stopped half way (tool_project.c:275, 663).
RunTargetStands ==
    ~pending /\ ~unseen /\ target.core # Nothing => target.core \in DOMAIN disk

\* Nothing the panel remembers of the tree outlives what it names.
ProjectPointersStand == SelectionStands /\ RunTargetStands
=============================================================================
