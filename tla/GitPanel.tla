------------------------------ MODULE GitPanel ------------------------------
(***************************************************************************)
(* The git panel (src/ide/Panes/ToolPanels/Git): what git says of the      *)
(* repository, read when the panel is drawn after something asked for it,  *)
(* the log as a stream of which each frame takes a batch, the tree built   *)
(* from both, and the watcher that compares the status with the one it saw *)
(* before.                                                                 *)
(*                                                                         *)
(* git itself is external: a program that prints the status or the log of  *)
(* the repository, or cannot be started.  Left out: the branch, the text   *)
(* of messages, and commits unfolded to their author and date.             *)
(***************************************************************************)
EXTENDS Naturals, Sequences, SequencesExt, Collections

CONSTANTS
    GitStates,      \* what git status may print: sequences of [path, code]
    GitLogs,        \* what git log may print: sequences of commits and BadLine
    LogBatch,       \* git_panel_log_batch_size
    GitEntryRoom,   \* MAX_GIT_ENTRIES
    MaxGitChanges,  \* bound on the changes of the repository
    FoldSections    \* bound on the sections that are folded

VARIABLES
    repository,     \* its status and its log
    gitChanges,     \* how often it changed (no program variable)
    gitFiles,       \* gitFiles, as [path, status]
    gitLog,         \* gitLogEntries
    logLeft,        \* what the process of gitLogProcess has not printed
    logRead,        \* what the log was when that process began (no program variable)
    gitTree,        \* g_gitTree
    needsRefresh,
    sectionFolds,   \* g_expandCache
    lastStatus,     \* g_lastStatusHash: the status hashed
    watched,        \* g_lastWorkspacePath is the workspace
    gitRow          \* the row selected in a tree

gitVars == <<repository, gitChanges, gitFiles, gitLog, logLeft, logRead, gitTree, needsRefresh,
             sectionFolds, lastStatus, watched, gitRow>>

BadLine == "bad"            \* a line without the three separators
NoLog == <<"no process">>

ASSUME GitAssumption ==
    /\ LogBatch \in Nat \ {0}
    /\ \A log \in GitLogs : log \in Seq(ToSet(log)) /\ "no process" \notin ToSet(log)

NoGitTree == [files |-> <<>>, log |-> <<>>, loading |-> FALSE, unfolded |-> {"no tree"}]
NoStatus == <<[path |-> "no hash", code |-> <<" ", " ">>]>>
NoGitRow == <<"none">>
FreedGitRow == <<"freed">>  \* a pointer to a row that was freed

Sections == {"git", "changes", "staged", "modified", "added", "deleted", "untracked", "log"}
Loading == logLeft # NoLog

GitTypeOK ==
    /\ repository.status \in GitStates /\ repository.log \in GitLogs
    /\ Len(gitFiles) <= GitEntryRoom
    /\ BadLine \notin ToSet(gitLog)
    /\ {needsRefresh, watched} \subseteq BOOLEAN
    /\ gitTree.unfolded \subseteq Sections \cup {"no tree"}
    /\ DOMAIN sectionFolds \subseteq Sections
    /\ lastStatus \in GitStates \cup {NoStatus}

GitInit ==
    /\ repository \in [status : GitStates, log : GitLogs]
    /\ gitChanges = 0
    /\ gitFiles = <<>> /\ gitLog = <<>> /\ logLeft = NoLog /\ logRead = <<>>
    /\ gitTree = NoGitTree /\ needsRefresh = TRUE
    /\ sectionFolds = <<>>
    /\ lastStatus = NoStatus /\ watched = FALSE
    /\ gitRow = NoGitRow

-----------------------------------------------------------------------------
(* Reading.                                                                *)

(* refreshGitStatus: what stands in the index counts only if it is M.      *)
StatusOf(code) ==
    CASE code[1] = "M" -> "staged"
      [] code[1] # "M" /\ code[2] = "A" -> "added"
      [] code[1] # "M" /\ code[2] = "D" -> "deleted"
      [] code[1] # "M" /\ code[2] = "?" -> "untracked"
      [] OTHER -> "modified"

Listed(status) ==
    LET shown == SubSeq(status, 1, IF Len(status) > GitEntryRoom THEN GitEntryRoom ELSE Len(status))
    IN [i \in DOMAIN shown |-> [path |-> shown[i].path, status |-> StatusOf(shown[i].code)]]

(* git_panel_log_pump_stream: as many lines as have a batch of commits, or *)
(* all; the process is closed with the last line, which ends without a     *)
(* newline.                                                                *)
Commits(lines) == Dropping(lines, {BadLine})

Taken(lines) ==
    IF Len(Commits(lines)) < LogBatch THEN Len(lines)
    ELSE CHOOSE k \in DOMAIN lines :
             /\ Len(Commits(SubSeq(lines, 1, k))) = LogBatch
             /\ lines[k] # BadLine

Rest(lines) == IF Taken(lines) = Len(lines) THEN NoLog
               ELSE SubSeq(lines, Taken(lines) + 1, Len(lines))

NewCommits(lines) == Commits(SubSeq(lines, 1, Taken(lines)))

-----------------------------------------------------------------------------
(* The tree.                                                               *)

(* The rows a click can hit: sections, files and commits.                  *)
GitRows(t) ==
    IF t = NoGitTree THEN {}
    ELSE {<<"section", s>> : s \in {"git", "log"}}
         \cup {<<"section", t.files[i].status>> : i \in DOMAIN t.files}
         \cup {<<"file", t.files[i].path>> : i \in DOMAIN t.files}
         \cup {<<"commit", t.log[i]>> : i \in DOMAIN t.log}

(* git_panel_apply_tree_expansion_state on a tree just made, in which all  *)
(* but the log is unfolded.                                                *)
Unfolded(folds) == {s \in Sections : IF s \in DOMAIN folds THEN folds[s] ELSE s # "log"}

BuiltTree(files, log, loading, folds) ==
    [files |-> files, log |-> log, loading |-> loading, unfolded |-> Unfolded(folds)]

SectionsOf(t) ==
    {"git"} \cup (IF t.files = <<>> THEN {} ELSE {"changes"})
            \cup {t.files[i].status : i \in DOMAIN t.files}
            \cup (IF t.log # <<>> \/ t.loading THEN {"log"} ELSE {})

(* git_panel_capture_tree_expansion_state                                  *)
Captured(folds, t) ==
    [s \in DOMAIN folds \cup (IF t = NoGitTree THEN {} ELSE SectionsOf(t)) |->
        IF t # NoGitTree /\ s \in SectionsOf(t) THEN s \in t.unfolded ELSE folds[s]]

(* The selection is not told when a tree is freed.  The memory may be used *)
(* for a row of the next one, which is then selected.                      *)
RowAfter(row, old, new) ==
    LET kept == IF row \in GitRows(old) THEN FreedGitRow ELSE row
    IN IF kept = FreedGitRow THEN {FreedGitRow} \cup GitRows(new) ELSE {kept}

-----------------------------------------------------------------------------
(* The repository and the watcher.                                         *)

RepositoryChanges ==
    /\ gitChanges < MaxGitChanges
    /\ repository' \in [status : GitStates, log : GitLogs] \ {repository}
    /\ gitChanges' = gitChanges + 1
    /\ UNCHANGED <<gitFiles, gitLog, logLeft, logRead, gitTree, needsRefresh, sectionFolds,
                   lastStatus, watched, gitRow>>

(* resetGitTree, beginning with the folds given.                           *)
TreeReset(folds) ==
    /\ sectionFolds' = Captured(folds, gitTree)
    /\ gitTree' = NoGitTree
    /\ gitRow' \in RowAfter(gitRow, gitTree, NoGitTree)
    /\ logLeft' = NoLog
    /\ needsRefresh' = TRUE

(* pollGitStatusWatcher: by timer, after a save, and when the program gets *)
(* the focus.  The folds are forgotten first when the workspace is another *)
(* one, but those of the tree that is there are taken over again.          *)
Poll(runs) ==
    /\ IF ~watched THEN TreeReset(<<>>)
       ELSE IF runs /\ lastStatus \notin {NoStatus, repository.status} THEN TreeReset(sectionFolds)
       ELSE UNCHANGED <<sectionFolds, gitTree, gitRow, logLeft, needsRefresh>>
    /\ watched' = TRUE
    /\ lastStatus' = IF runs THEN repository.status ELSE IF watched THEN lastStatus ELSE NoStatus
    /\ UNCHANGED <<repository, gitChanges, gitFiles, gitLog, logRead>>

-----------------------------------------------------------------------------
(* Drawing.                                                                *)

(* Mutant: the tree is built anew only when there are more commits.        *)
MoreToShow(more, ended) == more # <<>>

(* git_panel_prepare_for_render: whether the pump changed what is shown.   *)
NewsFromLog(more, ended) == more # <<>> \/ ended

(* The panel is drawn and nothing was asked for: a batch of the log.       *)
DrawLog ==
    LET more == IF Loading THEN NewCommits(logLeft) ELSE <<>>
        rest == IF Loading THEN Rest(logLeft) ELSE NoLog
        news == Loading /\ NewsFromLog(more, rest = NoLog)
        folds == IF news THEN Captured(sectionFolds, gitTree) ELSE sectionFolds
        drawn == IF news \/ gitTree = NoGitTree
                 THEN BuiltTree(gitFiles, gitLog \o more, rest # NoLog, folds) ELSE gitTree
    IN /\ ~needsRefresh
       /\ gitLog' = gitLog \o more /\ logLeft' = rest
       /\ sectionFolds' = folds
       /\ gitTree' = drawn
       /\ gitRow' \in IF drawn = gitTree THEN {gitRow} ELSE RowAfter(gitRow, gitTree, drawn)
       /\ UNCHANGED <<repository, gitChanges, gitFiles, logRead, needsRefresh, lastStatus, watched>>

(* Something asked for it: status and log are read again, the latter by    *)
(* two batches.  A command that cannot be started shows nothing, and is    *)
(* not tried again.                                                        *)
DrawAnew(statusRuns, logRuns) ==
    LET files == IF statusRuns THEN Listed(repository.status) ELSE <<>>
        lines == IF logRuns THEN repository.log ELSE <<>>
        first == NewCommits(lines)
        left == IF logRuns THEN Rest(lines) ELSE NoLog
        second == IF left = NoLog THEN <<>> ELSE NewCommits(left)
        rest == IF left = NoLog THEN NoLog ELSE Rest(left)
        folds == Captured(sectionFolds, gitTree)
        drawn == BuiltTree(files, first \o second, rest # NoLog, folds)
    IN /\ needsRefresh
       /\ gitFiles' = files
       /\ gitLog' = first \o second /\ logLeft' = rest /\ logRead' = lines
       /\ sectionFolds' = folds
       /\ gitTree' = drawn
       /\ gitRow' \in RowAfter(gitRow, gitTree, drawn)
       /\ needsRefresh' = FALSE
       /\ UNCHANGED <<repository, gitChanges, lastStatus, watched>>

-----------------------------------------------------------------------------
(* The user.                                                               *)

(* git_stage_all_changes, git_commit_with_message: whatever git does with  *)
(* the repository, or fails to.                                            *)
RunGit ==
    /\ gitChanges < MaxGitChanges
    /\ repository' \in [status : GitStates, log : GitLogs]
    /\ gitChanges' = gitChanges + 1
    /\ TreeReset(sectionFolds)
    /\ UNCHANGED <<gitFiles, gitLog, logRead, lastStatus, watched>>

(* COMMAND_REFRESH_GIT_STATUS, which every command of the panel runs first.*)
RefreshGit ==
    /\ gitFiles' = Listed(repository.status)
    /\ TreeReset(sectionFolds)
    /\ UNCHANGED <<repository, gitChanges, gitLog, logRead, lastStatus, watched>>

ClickGitRow ==
    /\ gitRow' \in GitRows(gitTree)
    /\ UNCHANGED <<repository, gitChanges, gitFiles, gitLog, logLeft, logRead, gitTree,
                   needsRefresh, sectionFolds, lastStatus, watched>>

FoldSection(s) ==
    /\ gitTree # NoGitTree /\ s \in SectionsOf(gitTree)
    /\ gitTree' = [gitTree EXCEPT !.unfolded =
                       IF s \in @ THEN @ \ {s} ELSE @ \cup {s}]
    /\ UNCHANGED <<repository, gitChanges, gitFiles, gitLog, logLeft, logRead, needsRefresh,
                   sectionFolds, lastStatus, watched, gitRow>>

GitNext ==
    \/ RepositoryChanges
    \/ \E runs \in BOOLEAN : Poll(runs)
    \/ DrawLog
    \/ \E statusRuns, logRuns \in BOOLEAN : DrawAnew(statusRuns, logRuns)
    \/ RunGit \/ RefreshGit \/ ClickGitRow
    \/ \E s \in FoldSections : FoldSection(s)

GitSpec == GitInit /\ [][GitNext]_gitVars

-----------------------------------------------------------------------------
(* Properties.                                                             *)

(* What is drawn is what was read, and what was read is all of the log and *)
(* nothing twice: a log still loading is the beginning of what git had to  *)
(* say and says so, however often the stream was cut off and begun again   *)
(* (tool_git.c:513, 440).                                                  *)
GitTreeStands ==
    gitTree # NoGitTree =>
        /\ gitTree.files = gitFiles /\ gitTree.log = gitLog
        /\ gitTree.loading = Loading
        /\ IF Loading THEN gitLog \o Commits(logLeft) = Commits(logRead)
           ELSE gitLog = Commits(logRead)

(* Statements that do not hold.  A status read while the panel was drawn   *)
(* for another reason, and gone again at the next poll, stays on the       *)
(* screen; and a row is selected that nobody clicked.                      *)
ShownIsWatched ==
    gitTree # NoGitTree /\ ~needsRefresh /\ lastStatus = repository.status /\ gitFiles # <<>>
        => gitFiles = Listed(repository.status)
SelectedRowWasClicked ==
    [][gitRow' \notin {gitRow, NoGitRow, FreedGitRow} => ClickGitRow]_gitVars

=============================================================================
