------------------------------ MODULE TaskPanel ------------------------------
(***************************************************************************)
(* The task panel (src/ide/Panes/ToolPanels/Tasks): a tree of tasks, the   *)
(* task selected, the prompt that renames one, and the file the tree is    *)
(* saved to when the program ends.                                         *)
(*                                                                         *)
(* The mouse and the two buttons act at once; keys become commands, of     *)
(* which a frame executes one (runFrameLoop).  While the prompt is open it *)
(* gets all input.  Left out: the check marks, the scrolling, and what is  *)
(* hovered, which nothing but drawing reads.                               *)
(***************************************************************************)
EXTENDS Naturals, Sequences, SequencesExt, FiniteSetsExt, Collections

CONSTANTS
    TaskRoom,           \* bound on the tasks, numbered from 1
    MaxTaskRoots,       \* MAX_TASK_ROOTS
    MaxTaskChildren,    \* MAX_CHILDREN_PER_TASK
    TaskNames,          \* names a user gives, besides those of new tasks
    DefaultGroups,      \* the groups of initTaskPanel, as tasks
    MaxTaskCommands     \* bound on the commands waiting

VARIABLES
    tasks,          \* the tasks there are: label, parent, children, isExpanded, isSelected
    taskRoots,
    selectedTask,
    renamedTask,    \* context of the rename prompt while it is open
    taskCommands,   \* the command bus
    taskFile,       \* how many roots task_tree.json has
    tasksRun        \* "running"; "ended"; "stopped" once freed memory was used

taskVars == <<tasks, taskRoots, selectedTask, renamedTask, taskCommands, taskFile, tasksRun>>

NoTask == 0
FreedTask == TaskRoom + 1   \* a pointer to a task that was freed
TaskIds == 1..TaskRoom
Labels == TaskNames \cup {"", "New Task"}

TaskNode == [label : Labels, parent : TaskIds \cup {NoTask}, children : Seq(TaskIds),
             isExpanded : BOOLEAN, isSelected : BOOLEAN]

TasksTypeOK ==
    /\ DOMAIN tasks \subseteq TaskIds
    /\ \A t \in DOMAIN tasks : tasks[t] \in TaskNode
    /\ ToSet(taskRoots) \subseteq TaskIds
    /\ selectedTask \in TaskIds \cup {NoTask}
    /\ renamedTask \in TaskIds \cup {NoTask, FreedTask}
    /\ Len(taskCommands) <= MaxTaskCommands
    /\ tasksRun \in {"running", "ended", "stopped"}

(* Following the parents never ends where it began.                        *)
RootedIn(nodes) ==
    \A S \in SUBSET DOMAIN nodes : S # {} => \E t \in S : nodes[t].parent \notin S

(* The default groups are a forest, with nothing selected.                 *)
ASSUME TasksAssumption ==
    /\ TaskRoom \in Nat
    /\ DOMAIN DefaultGroups \subseteq TaskIds
    /\ \A t \in DOMAIN DefaultGroups :
           /\ DefaultGroups[t] \in TaskNode
           /\ ~DefaultGroups[t].isSelected
           /\ DefaultGroups[t].parent \in DOMAIN DefaultGroups \cup {NoTask}
           /\ IsInjective(DefaultGroups[t].children)
           /\ ToSet(DefaultGroups[t].children) =
                  {c \in DOMAIN DefaultGroups : DefaultGroups[c].parent = t}
    /\ RootedIn(DefaultGroups)

(* The panel's own state is made with its pane, after the file was read    *)
(* into the state used before there are panes: initTaskPanel always finds  *)
(* no tasks and makes the default groups.                                  *)
DefaultRoots ==
    Dropping([i \in TaskIds |-> i],
             {t \in TaskIds : t \in DOMAIN DefaultGroups => DefaultGroups[t].parent # NoTask})

DefaultTasks == tasks' = DefaultGroups /\ taskRoots' = DefaultRoots

TasksInit ==
    /\ tasks = DefaultGroups
    /\ taskRoots = DefaultRoots
    /\ selectedTask = NoTask /\ renamedTask = NoTask
    /\ taskCommands = <<>>
    /\ taskFile = 0
    /\ tasksRun = "running"

-----------------------------------------------------------------------------
(* The tree.                                                               *)

Siblings(t) == IF tasks[t].parent = NoTask THEN taskRoots ELSE tasks[tasks[t].parent].children

Subtree(t) == Reached([s \in DOMAIN tasks |-> ToSet(tasks[s].children)], t)

Ancestors(t) == Reached([s \in DOMAIN tasks |-> {tasks[s].parent} \ {NoTask}], t) \ {t}
TaskShown(t) == \A a \in Ancestors(t) : tasks[a].isExpanded

NewId == CHOOSE t \in TaskIds \ DOMAIN tasks : \A s \in TaskIds \ DOMAIN tasks : t <= s

(* Mutant: only the tasks shown lose the mark.                             *)
SelectionClearedWhereShown(nodes) ==
    [t \in DOMAIN nodes |-> [nodes[t] EXCEPT !.isSelected = @ /\ ~TaskShown(t)]]

(* clearAllTaskSelections                                                  *)
SelectionCleared(nodes) == [t \in DOMAIN nodes |-> [nodes[t] EXCEPT !.isSelected = FALSE]]

TaskSelected(nodes, t) == [SelectionCleared(nodes) EXCEPT ![t].isSelected = TRUE]

-----------------------------------------------------------------------------
(* Adding and removing.                                                    *)

(* A new task goes below the one selected, whatever that is, and expands   *)
(* it; beyond the limit of children it is dropped.                         *)
WithTask(label) ==
    LET new == [label |-> label, parent |-> selectedTask, children |-> <<>>,
                isExpanded |-> TRUE, isSelected |-> FALSE]
        grown(nodes) == [t \in DOMAIN nodes \cup {NewId} |-> IF t = NewId THEN new ELSE nodes[t]]
    IN IF selectedTask = NoTask
       THEN tasks' = grown(tasks) /\ taskRoots' = Append(taskRoots, NewId)
       ELSE /\ tasks' = IF Len(tasks[selectedTask].children) >= MaxTaskChildren THEN tasks
                        ELSE grown([tasks EXCEPT ![selectedTask].children = Append(@, NewId),
                                                 ![selectedTask].isExpanded = TRUE])
            /\ UNCHANGED taskRoots

(* removeSelectedTaskAndReselect: the task below in the same list takes    *)
(* the selection, or the last.  The prompt is not told.                    *)
WithoutSelected ==
    LET siblings == Siblings(selectedTask)
        at == CHOOSE i \in DOMAIN siblings : siblings[i] = selectedTask
        left == RemoveAt(siblings, at)
        next == IF left = <<>> THEN NoTask ELSE left[IF at <= Len(left) THEN at ELSE Len(left)]
        gone == Subtree(selectedTask)
        parent == tasks[selectedTask].parent
    IN /\ tasks' = [t \in DOMAIN tasks \ gone |->
                       IF t = parent THEN [tasks[t] EXCEPT !.children = left]
                       ELSE IF t = next THEN [tasks[t] EXCEPT !.isSelected = TRUE]
                       ELSE tasks[t]]
       /\ taskRoots' = IF parent = NoTask THEN left ELSE taskRoots
       /\ selectedTask' = next
       /\ renamedTask' = IF renamedTask \in gone THEN FreedTask ELSE renamedTask

-----------------------------------------------------------------------------
(* The mouse, and the buttons.                                             *)

Listening == tasksRun = "running" /\ renamedTask = NoTask

ClickBesideTasks ==
    /\ Listening
    /\ tasks' = SelectionCleared(tasks)
    /\ selectedTask' = NoTask
    /\ UNCHANGED <<taskRoots, renamedTask, taskCommands, taskFile, tasksRun>>

ClickTask(t) ==
    /\ Listening /\ t \in DOMAIN tasks /\ TaskShown(t)
    /\ tasks' = TaskSelected(tasks, t)
    /\ selectedTask' = t
    /\ UNCHANGED <<taskRoots, renamedTask, taskCommands, taskFile, tasksRun>>

(* The box before a task that has children, or is a group: the defaults.   *)
ClickExpand(t) ==
    /\ Listening /\ t \in DOMAIN tasks /\ TaskShown(t)
    /\ tasks[t].children # <<>> \/ t \in DOMAIN DefaultGroups
    /\ tasks' = [tasks EXCEPT ![t].isExpanded = ~@]
    /\ UNCHANGED <<taskRoots, selectedTask, renamedTask, taskCommands, taskFile, tasksRun>>

(* The button respects the limit of roots, the command does not.           *)
AddButton ==
    /\ Listening /\ DOMAIN tasks # TaskIds
    /\ selectedTask = NoTask => Len(taskRoots) < MaxTaskRoots
    /\ WithTask("")
    /\ UNCHANGED <<selectedTask, renamedTask, taskCommands, taskFile, tasksRun>>

RemoveButton ==
    /\ Listening /\ selectedTask # NoTask
    /\ WithoutSelected
    /\ UNCHANGED <<taskCommands, taskFile, tasksRun>>

-----------------------------------------------------------------------------
(* Keys, and the commands they leave on the bus.                           *)

TaskKey(command) ==
    /\ Listening /\ Len(taskCommands) < MaxTaskCommands
    /\ taskCommands' = Append(taskCommands, command)
    /\ UNCHANGED <<tasks, taskRoots, selectedTask, renamedTask, taskFile, tasksRun>>

(* handleTasksCommand                                                      *)
RunTaskCommand ==
    /\ tasksRun = "running" /\ taskCommands # <<>>
    /\ taskCommands' = Tail(taskCommands)
    /\ UNCHANGED <<taskFile, tasksRun>>
    /\ CASE Head(taskCommands) = "add" ->
               /\ DOMAIN tasks # TaskIds
               /\ WithTask("New Task") /\ UNCHANGED <<selectedTask, renamedTask>>
         [] Head(taskCommands) = "delete" /\ selectedTask # NoTask -> WithoutSelected
         [] Head(taskCommands) = "rename" /\ selectedTask # NoTask ->
               /\ renamedTask' = selectedTask
               /\ UNCHANGED <<tasks, taskRoots, selectedTask>>
         [] OTHER -> UNCHANGED <<tasks, taskRoots, selectedTask, renamedTask>>

(* submitRename: a name another task of the same list has is refused; the  *)
(* prompt stays.  An unchanged name is accepted unseen.                    *)
SubmitTaskName(name) ==
    /\ tasksRun = "running" /\ renamedTask \in TaskIds
    /\ \A s \in ToSet(Siblings(renamedTask)) \ {renamedTask} :
           name = tasks[renamedTask].label \/ tasks[s].label # name
    /\ tasks' = [tasks EXCEPT ![renamedTask].label = name]
    /\ renamedTask' = NoTask
    /\ UNCHANGED <<taskRoots, selectedTask, taskCommands, taskFile, tasksRun>>

CancelTaskName ==
    /\ tasksRun = "running" /\ renamedTask # NoTask
    /\ renamedTask' = NoTask
    /\ UNCHANGED <<tasks, taskRoots, selectedTask, taskCommands, taskFile, tasksRun>>

(* The command after the one that opened the prompt deleted its task.      *)
SubmitFreedTask ==
    /\ tasksRun = "running" /\ renamedTask = FreedTask
    /\ tasksRun' = "stopped"
    /\ UNCHANGED <<tasks, taskRoots, selectedTask, renamedTask, taskCommands, taskFile>>

-----------------------------------------------------------------------------
(* The end of the program, and the next start.                             *)

(* shutdownSystem destroys the panes that are shown, and the tasks with    *)
(* the tool panel's, before it saves them: the file is empty then, unless  *)
(* the tool panel was hidden.  (The pane that is asked for the tasks was   *)
(* freed; what is found there is taken for a pane without a state.)        *)
EndTasks(hidden) ==
    /\ tasksRun = "running"
    /\ taskFile' = IF hidden THEN Len(taskRoots) ELSE 0
    /\ tasksRun' = "ended"
    /\ UNCHANGED <<tasks, taskRoots, selectedTask, renamedTask, taskCommands>>

StartTasks ==
    /\ tasksRun = "ended"
    /\ DefaultTasks
    /\ selectedTask' = NoTask /\ renamedTask' = NoTask
    /\ taskCommands' = <<>>
    /\ tasksRun' = "running"
    /\ UNCHANGED taskFile

TasksNext ==
    \/ ClickBesideTasks \/ AddButton \/ RemoveButton
    \/ \E t \in TaskIds : ClickTask(t) \/ ClickExpand(t)
    \/ \E command \in {"add", "rename", "delete"} : TaskKey(command)
    \/ RunTaskCommand \/ CancelTaskName \/ SubmitFreedTask
    \/ \E name \in TaskNames : SubmitTaskName(name)
    \/ \E hidden \in BOOLEAN : EndTasks(hidden)
    \/ StartTasks

TasksSpec == TasksInit /\ [][TasksNext]_taskVars

-----------------------------------------------------------------------------
(* Properties.                                                             *)

(* Every task that was not freed is in exactly one list, that of its       *)
(* parent, and the task the panel shows as selected is the one commands    *)
(* act on (tool_tasks.c:221, 364).                                         *)
TasksStand ==
    /\ \A t \in DOMAIN tasks : Cardinality({i \in DOMAIN Siblings(t) : Siblings(t)[i] = t}) = 1
    /\ ToSet(taskRoots) \cup UNION {ToSet(tasks[t].children) : t \in DOMAIN tasks} = DOMAIN tasks
    /\ {t \in DOMAIN tasks : tasks[t].isSelected} = {selectedTask} \ {NoTask}

(* Statements that do not hold.  Tasks are never seen again after the      *)
(* program ends; the command adds roots beyond the array; a task can be    *)
(* given the name of another when it is added; the prompt's task can be    *)
(* freed.                                                                  *)
TasksComeBack ==
    [][StartTasks => taskFile = Len(taskRoots')]_taskVars
TasksAreSaved ==
    [][\A hidden \in BOOLEAN : EndTasks(hidden) => taskFile' = Len(taskRoots)]_taskVars
RootsFit == Len(taskRoots) <= MaxTaskRoots
SiblingsNamed ==
    \A t \in DOMAIN tasks : \A s \in ToSet(Siblings(t)) \ {t} : tasks[s].label # tasks[t].label
PromptNamesTask == renamedTask # FreedTask

=============================================================================
