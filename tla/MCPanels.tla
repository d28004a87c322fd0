------------------------------ MODULE MCPanels ------------------------------
(* The panels share no variable here, so each behaviour moves one of them  *)
(* only.                                                                   *)
EXTENDS ProjectPanel, ErrorsPanel, LibrariesPanel, BuildOutputPanel,
        TaskPanel, GitPanel, TLC

VARIABLE panel   \* the one that moves

MCStartDisk == (<<>> :> "folder") @@ (<<"x">> :> "folder") @@ (<<"x", "x">> :> "program")

MCDiagLists == {<<>>, <<[severity |-> "warning", says |-> "v"], [severity |-> "error", says |-> "w"]>>}

MCIndexes == {("project" :> <<[header |-> "h", usages |-> 1]>>) @@ ("system" :> <<>>),
              ("project" :> <<[header |-> "g", usages |-> 0]>>)
                  @@ ("system" :> <<[header |-> "s", usages |-> 0]>>)}

MCGraphs == {<<>>, <<[source |-> "a", deps |-> <<"h">>], [source |-> "h", deps |-> <<"a">>]>>}

MCDefaultGroups ==
    (1 :> [label |-> "New Task", parent |-> 0, children |-> <<2>>, isExpanded |-> TRUE, isSelected |-> FALSE])
    @@ (2 :> [label |-> "New Task", parent |-> 1, children |-> <<>>, isExpanded |-> FALSE, isSelected |-> FALSE])

MCGitStates == {<<>>, <<[path |-> "f", code |-> <<" ", "M">>]>>,
                <<[path |-> "f", code |-> <<"M", " ">>], [path |-> "g", code |-> <<"?", "?">>]>>}

MCGitLogs == {<<"c">>, <<"e", BadLine, "d", "c", BadLine>>}

listVars == <<errorsVars, librariesVars, outputVars>>
treeVars == <<taskVars, gitVars>>

MCInit ==
    /\ ProjectInit /\ ErrorsInit /\ LibrariesInit /\ OutputInit
    /\ TasksInit /\ GitInit
    /\ panel \in {"project", "errors", "libraries", "output", "tasks", "git"}
    /\ panel # "git" => repository = [status |-> <<>>, log |-> <<"c">>]
    /\ panel # "libraries" => libIndex = (CHOOSE x \in MCIndexes : TRUE) /\ includes = <<>>

UseProject == panel = "project" /\ ProjectNext /\ UNCHANGED <<listVars, treeVars, panel>>

UseErrors ==
    panel = "errors" /\ ErrorsNext
    /\ UNCHANGED <<projectVars, librariesVars, outputVars, treeVars, panel>>

UseLibraries ==
    panel = "libraries" /\ LibrariesNext
    /\ UNCHANGED <<projectVars, errorsVars, outputVars, treeVars, panel>>

UseOutput ==
    panel = "output" /\ OutputNext
    /\ UNCHANGED <<projectVars, errorsVars, librariesVars, treeVars, panel>>

UseTasks ==
    panel = "tasks" /\ TasksNext /\ UNCHANGED <<projectVars, listVars, gitVars, panel>>

UseGit ==
    panel = "git" /\ GitNext /\ UNCHANGED <<projectVars, listVars, taskVars, panel>>

MCNext ==
    \/ UseProject \/ UseErrors \/ UseLibraries \/ UseOutput \/ UseTasks \/ UseGit

MCSpec == MCInit /\ [][MCNext]_<<projectVars, listVars, treeVars, panel>>

\* Rows are marked by number in both lists, and through everything a user does,
\* and whatever is published meanwhile, a marked row stays the row it was
\* (tool_errors.c:301, tool_libraries.c:236).
MarkedRowsStand == ErrorMarksStand /\ LibraryMarksStand

=============================================================================
