# Verification of the IDE: analysis, builds, clients, editor, terminal, panels

TLA+ modules, TLC configurations and TLAPS proofs for the desktop IDE of this
repository (`src/` below is the repository root; the IDE's own sources are in
`src/src/`). The program has one main thread, which draws and owns nearly all
state, and around it actors it does not control: a detached analysis worker,
the threads of the IPC server and their clients, a shell behind a pseudo
terminal, other programs that change the disk, timers, and a user who acts
between any two of their steps. The modules model the parts where those actors
meet.

## 1. Inventory

### Modelled

| component | state | operations | what makes it correct |
|---|---|---|---|
| **Analysis scheduler** `core/Analysis/analysis_scheduler.c` | a pending slot per job key (force, reasons, file hints, live buffer), the active job, run ids, counters; all under `g_scheduler_mutex` | `request_key`, `request_file`, `request_live_buffer`, `tick` | requests fold into one slot per key and none is lost; saves overtake background work; the active job is the one that runs; pending work gets its turn |
| **Analysis worker** `core/Analysis/analysis_job.c`, `analysis_status.c` | file-level globals (mode, hints, live request, run id, forced flag, thread flag) without a lock, an atomic cancel flag, the refresh flag under `g_status_mutex` | three start functions, the thread's body with two cancel checks and four ways to end | two workers never scan at once; a cancel hits the run it was meant for; a forced run is full; results carry their run's id and revision |
| **Incremental analysis** `analysis_job.c`, `project_scan.c`, `analysis_snapshot.c`, `analysis_incremental_policy.c`, `include_graph.c`, the stores, `analysis_cache.c`, `library_index.c` (partly) | stores in memory, artifacts on disk, the saved fingerprints | plan, scan of each file, saves, live-buffer run, load at start | what a run passes over has up-to-date results, in memory and on disk, whatever the edits and crashes, and up to what no run can notice |
| **Completed results** `core/LoopResults` | a locked queue per subsystem, a staged head per queue, a sequence number under another lock | `push`, `pop_any` | one owner per result, what was in front is delivered in order, nothing stranded |
| **Loop events** `core/LoopEvents` | a ring with head, tail, count and statistics | `push`, `pop`, `drain_bounded`, `reset` | a bounded FIFO with consecutive numbers |
| **Main frame loop** `app/GlobalInfo/event_loop.c`, with what follows it in the diagnostics engine and the errors, symbol and library panels (partly) | applied run, announced stamps, panel copies | a frame: drain, dispatch, tick, render | every copy of a store follows the store, whichever result or event is filtered or lost |
| **IPC server and slots** `core/Ipc/ide_ipc_server.c` and the document, edit and typing services | six request slots handed from server threads to the main thread | accept, submit, wait, time out, pump, close | an answer goes to its request; a slot is free again after every end; nothing done in a workspace it was not bound to |
| **Save queue, document watcher** `core/CommandBus/save_queue.c`, `core/Watcher/file_watcher.c` (partly), document and edit services | buffers, modified flags, waiting snapshots, stamps of files | type, save, write, patch, poll, reload | text a client was told is in place stays until somebody replaces it; documents and disk come together |
| **Editor views, commands, edit transactions, session, live diagnostics** `ide/Panes/Editor`, `core/CommandBus` | a tree of views with tabs, reference counts, a queue of commands, one open transaction, one timer | open, close, split, collapse, restore, edit, commit | tabs show live documents; no edit ends without its commit; a commit happens for every burst |
| **Editor text** `editor_buffer.c`, `editor_text_edit.c`, `undo_stack.c`, selection, clipboard | lines, cursor, anchor, clipboard, undo and redo stacks | every command that changes them | the history of two stacks is shared fairly; a clean document is the saved one; a paste is undone as it was done |
| **Terminal** `ide/Panes/Terminal`, `core/Terminal` (partly) | two screens, a ring of rows scrolled off, a journal, the session | bytes from the shell, tick, resize, clear, start, end | nothing that left the screen is lost or kept twice, in history, journal and transcript |
| **Project panel** `ide/Panes/ToolPanels/Project` | tree of entries, four pointers into it, paths that outlive it, a drag, a prompt | click, drag, rename, create, delete, refresh | no pointer names a freed entry, and a selection or a run target survives a refresh |
| **Artifacts and start-up audit** `analysis_startup_audit.c`, `analysis_cache_manifest.c`, `analysis_token_store.c`, `analysis_units_store.c`, `analysis_provenance_store.c` (partly), `analysis_cache.c` | which artifacts are under `ide_files/`, whole, torn or made under other build arguments; the stores; the audit's announcement | load, audit, the first run, saves that may be torn, changes of files and arguments | what was announced is what is done; provenance is kept of files that are there |
| **Build system, build and analysis diagnostics** `core/BuildSystem`, `core/Diagnostics`, `ide_ipc_build_helpers.c` | two flat lists, a file for each, a detached reader for each, the build's status, the run target | builds by a pipe, in a shell, for a client; publish, save, change of workspace, end | a list read back never replaces a younger one or one of another workspace |
| **Errors, libraries and build output panels** `ide/Panes/ToolPanels` | rows built from a snapshot of a store, folds, filters, rows marked by number | renew, fold, filter, search, mark, drag | marks lie within the rows there are |
| **Task panel** | a tree of tasks, the selected one twice, a prompt, a file | add, remove, rename, select, save, load | the selected task is in the tree and is the one marked |
| **Git panel** | status and log as they are read, a tree, folds, a watcher | refresh, poll, a batch of the log a frame, fold, select, commit | the tree shows what was read, each commit once and in order |
| **Timer scheduler**, **start-up and shutdown**, **workspace** (partly) | armed timers; artifacts; the workspace path | as the other modules use them | see those modules |

### Not modelled

| component | why |
|---|---|
| Event invalidation policy, wake, jobs, kernel and time of the loop | a table from events to panes, and means to sleep less: what happens does not depend on them, only when |
| IPC queries, search, build and the `idebridge` client | read-only answers from the stores, and a command line |
| Include path resolver, frontend bridge | path arithmetic and an external compiler frontend: a file's includes are a constant |
| Input manager, file operations, text selection | translation of device events to the commands that are modelled |
| Build graph and memory report stores | filled by clients only, read by clients only |
| Other panes (assets, control panel but for its copy of the symbols, menu, icon bar), renderer, parser stub, plugins | layout and drawing |

`PROJECT.json` gives for each component the files and modules, and lists what
is hard to test in this code at the line where it bites, with the properties
that watch over it or the reason none does.

### How they interact

Each frame the main loop ticks in the background (timers, watchers), serves the
requests IPC clients have left in the slots, drains completed results and
events, runs one waiting command, writes one file of the save queue, calls
`analysis_scheduler_tick`, renders, issues the project refresh it has
accumulated, and waits for at most 500 ms. Analysis is asked for at start,
on reload, by the watcher, manually, after a mutation of the project, by the
library panel, after an edit, after a save and at the commit of an edit
transaction. The tick empties a slot and starts a detached thread. The thread
pushes its results to the queue, lowers the refresh flag (the scheduler may
retire the run), lowers `g_thread_running` (the next run may be prepared) and
then still clears the thread handle and its live request. Nothing joins the
thread; that order of single writes is the whole protocol between two runs.
A client's request is bound to the workspace it was made in and waits in its
connection's thread until the main thread has answered or its time is up.

## 2. Modules

```
AnalysisStatus           the refresh flag and the live request both sides share
 |- AnalysisScheduler    slots, requests, the tick's locked section
 |- AnalysisJob          start functions and worker threads
AnalysisPipeline         EXTENDS both: requests, ticks, worker steps; properties
 |- MCAnalysisPipeline   requests and symmetry for TLC
 |- AnalysisPipelineProofs
IncrementalAnalysis      what one run does to stores and artifacts
 |- MCIncrementalAnalysis   a workspace of a source and a header
 |- IncrementalAnalysisProofs
CompletedResults         producers inside push, main thread inside pop_any
BoundedFifo              what an event queue promises (abstract)
LoopEvents               the ring; IsFifo == INSTANCE of BoundedFifo's Spec
AnalysisArtifacts        what a start makes of the artifacts it finds
DiagnosticLists          the two lists of diagnostics, their files, their readers
 |- BuildSystem          EXTENDS it: builds, the run target, workspaces
MCMainLoop, MainLoopProofs
                         LoopEvents, AnalysisArtifacts, BuildSystem: one of them a behaviour;
                         the proofs also of CompletedResults
RequestReply             what a client may rely on (abstract)
IpcServer                slots, threads, pump; IsRequestReply == INSTANCE of RequestReply's Spec
 |- IpcServerProofs      EXTENDS Document and UnifiedDiff too: what its services write
Collections              what is done to sequences and trees alike
EditorViews              views, tabs, documents, session
 |- Editor               EXTENDS EditTransaction and EditorViews: commands, frames, ticks
EditorText               one document's text, selection and history
 |- EditorTextProofs
 |- MCEditorParts        EXTENDS EditorViews too: one of them a behaviour
Document                 buffers, save queue, disk, watcher, clients
 |- MCDocument           EXTENDS Document and UnifiedDiff (how a diff is read)
FrameLoop                a frame against a worker: results, events, copies
 |- FrameLoopProofs
TerminalGrid, TerminalJournal
 |- Terminal             EXTENDS both: the session
     |- MCTerminal, TerminalProofs
RowSelection             marks by number in a list of rows
 |- ErrorsPanel, LibrariesPanel, BuildOutputPanel
ProjectPanel, TaskPanel, GitPanel
MCPanels                 all panels: one of them a behaviour
PaneProofs               EXTENDS Editor and MCPanels
```

**AnalysisScheduler, AnalysisJob, AnalysisPipeline.** Each scheduler operation
holds one mutex for its whole length, so it is one action; variables carry the
names of the globals. The worker is a program counter per thread, one step for
each write of something shared, because between any two the main thread may
tick: refresh flag, thread flag, thread handle, live request. A message is a step
that reads the run id (`Compose`), one that reads the live request (`Attach`) where the
code attaches a revision, and the push. All but one are sent while the thread flag
is up; the `finished` message of a run that was cancelled before it began comes after
everything is down, and another run may start and push between its steps. The two
messages of a start that failed are one step: the main thread sends them.
`Workers` may hold two threads, since an ending one overlaps the next. A tick's locked
section and the start function it calls after unlocking are one step: the main
thread is the only other user of the scheduler, and the one shared datum it
reads in between is the thread flag, whose lowering may as well come before or
after the tick. A start has four outcomes, each an action: the thread is
created; `SDL_CreateThread` fails; the previous thread has not lowered its
flag and the start returns (`TickRefused`, with the forced flag set just before
left behind); or the thread is created and taken for one that was not
(`TickMistaken`), because the ending thread clears the global handle before the
start has read it back. The last needs a build that reads the variable again:
`HandleReread` is TRUE for the debug profile (`-O0`, the default) and FALSE for
the perf profile (`-O3`), where the handle just returned is in a register. In
the code the new thread may already have run some way when its flags
come down; in the model it has not. Contents of a live buffer are identified by document and revision.
`ClearLive` is one step though it writes several globals; it may fall
before, after, but not in the middle of the assignments of a start.

**IncrementalAnalysis.** The contents of a file are a number that is never used
twice, and a result is the function from the files it depends on to their
contents when it was made; so "out of date" is a store that does not hold `Facts(f)`. The
content hash is taken to tell contents apart. A run plans in one step, visits
files one by one, then writes its artifacts one after the other. A live-buffer
run analyses the contents of a buffer nobody saved and writes into the same
stores. `Restart` takes everything in memory at any point and loads the
artifacts. The library index is kept by source file: its usages are replaced
only by incremental and live-buffer runs, it is built anew after a full run
and before the snapshot is taken, and it is saved after snapshot and metadata
by runs that were not cancelled; a run cut off in between leaves the index
behind until the next full run (`cut`). So does a crash between include graph and snapshot
when a header was deleted: the edges to it are gone from the saved graph, and the next run, which
sees the header gone, finds no includers. `missed` records what no later run can see by itself: a scan that
was cut short, an edit during a full run, a header that came, a clean exit. Its value
`since` is about the time since the last run began and `before` about the time before; a full run that ends
without the first clears it. Neither is a program variable and no guard reads them. Results of an unsaved buffer stay in the
stores when the buffer is closed. Build arguments are constant, and one
artifact is written in one step; `AnalysisArtifacts` lifts both.

**CompletedResults.** The granularity is that of the locks: a push is drawing a
number, queueing, and accounting (with the refusal of a full lane on the way);
`pop_any` is a refill for each subsystem and then a choice. Producers interleave
anywhere.

**LoopEvents.** The ring with its statistics and the bounded drain, all on the
main thread. `BoundedFifo` says what it promises without indices: a sequence
that takes an event when there is room and gives out the oldest.

**IpcServer, RequestReply.** A client's thread takes its service's slot, waits,
and leaves with the answer, a time-out or a refusal; the main thread serves the six
slots in the order of `tickBackgroundSystems`. Three protocols are in use and are
guards of the same actions: a client that gives up leaves the slot taken while
the main thread works on it (workspace, document), a generation counter tells
the main thread whether the slot still holds what it worked on (presentation,
typing), or neither (open, edit). `generation` is the workspace, which
changes under waiting requests. Framing, authentication and JSON are left out.

**EditorViews, EditTransaction, Editor.** Views and documents are memory: places
taken, freed and taken again, so that a pointer kept too long meets what it
would meet in the program. `Editor` adds the queue of commands, of
which a frame executes one, the edit transaction with its debounce timer,
requests of clients, and switches of workspace.

**ProjectPanel, MCPanels.** An entry is named by the path it was read under and
is made new by each refresh; selection, rename and drag point at entries, the
remembered selections and the run target are paths. A drag that outlives a
refresh holds a freed entry: `UseFreedEntry` ends the behaviour. `MCPanels` runs
the panels in one model, each behaviour about one of them, since no two share a
variable there.

**AnalysisArtifacts.** The same stores as in `IncrementalAnalysis`, seen from the
start of the program: each artifact is missing, torn by a crash in the middle
of its write, or holds which files have entries, and was made under some setting of
the build arguments. `StartProgram` audits, loads and asks for the first run, whose plan
and saves follow one by one; files and arguments change between any two steps. A file is
read (`ScanFile`), then its provenance is noted and, in a step of its own because the stores have a lock
each and others read them meanwhile, its diagnostics and the rest are stored (`NoteProvenance`,
`StoreResults`); the cancel flag is last looked at before the first. The five stores
after the diagnostics are one step with them, as nobody here compares them in between; so is forgetting a
file that is gone, and emptying the stores for a full run, which take the diagnostics
away before the provenance.

**DiagnosticLists, BuildSystem.** A row is the workspace it is about and the file
it was read back from. A read is marked stale where the code raises
`cache_generation` or two seconds have passed. A build by a pipe keeps the main
thread and is one step; a shell prints between frames; a client's build prints
on its own thread, with no lock, while the main thread goes on.

**RowSelection, ErrorsPanel, LibrariesPanel, BuildOutputPanel.** The panels share the
functions that mark rows by number and each builds its rows from a snapshot of a store. A
diagnostic is its severity and a word; a library index is a function from
buckets to headers to usages.

**TaskPanel, GitPanel.** Mouse and buttons act at once, keys become commands for
a later frame. A task is a place in memory; `git` is external, a program that prints the
status or the log of a repository, a batch a frame, or cannot be started.
`Collections` has what they share with the views: the elements of a sequence that are left
(`Dropping`) and what a walk from a node reaches (`Reached`, the least set closed under
the children, where the code calls itself), so that theorems can be about trees of any depth.

**EditorText.** A text is a sequence of lines of characters. Each command is one
action with the push to the undo stack where its handler makes it, and a
snapshot comes back with the empty line the loader adds. Where the code reads
outside the text the model stops. The line clipboard (`editor_clipboard.c:355-415`: cut-line,
paste-cut-line and its clearing) is left out, because no key reaches it:
`input_editor.c:42-45` makes the cut, paste and delete commands of K, U and I with Ctrl or Cmd before
`handleCommandLineClipboard` could see them. Of that function duplicate-line (P) arrives and is modelled.

**Document, UnifiedDiff, MCDocument.** One file and the documents that show it:
the save queue with its snapshots, stamps in seconds as the watcher noted them,
other programs, and clients that patch, save and type. `SameSecond` says whether
two writes can carry one stamp. `UnifiedDiff` reads a diff row by row as the
edit service does; `MCDocument` is both in one model.

**FrameLoop.** The worker is reduced to what a frame sees (stores with stamps,
results, the project it was started for); the main loop's steps interleave with
it. What a copy holds is not represented, only whether its store still holds it. The end of a run cancelled before it
began comes before the next run here, where in the code it may come within it (item 19 below): at
most the loop drops it, or announces the library index once more, as it does after a project refresh.

**TerminalGrid, TerminalJournal, Terminal.** What the shell prints is a sequence
of operations from grid to grid; rows that scroll off enter a ring; the journal
turns them, and what vanished from a screen Codex repaints, into durable rows;
the session ties both to the shell's process. `history` is what an observer saw and is
read by no guard.

## 3. Runs

| run | instance | states | shows |
|---|---|---|---|
| `pipeline_safety` | 2 documents, 2 threads, 3 requests, 1 hint a slot, creation may fail, handle not read back, symmetry | 348 015 | `OneScanner`, `SaveNotBlocked`, `CancelHitsItsRun`, `ForcedRunIsFull`, `OnlyQuietEndsAreOvertaken`, `ResultsNameTheirRun` |
| `pipeline_liveness` | 1 document, 2 threads, 3 requests, creation may fail, handle read back, `FairSpec`, view without the results | 324 052 | `SaveGetsItsTurn`, `LaneDrains` |
| `completed_results` | 2 producers, lanes of 2, 3 results, `FairSpec` | 141 769 | `OneOwner`, `OvertakesNoFront`, `EventuallyDelivered` |
| `main_loop` | ring of 3, budgets 1 and 2, 7 pushes; artifacts: 1 source, 1 header, room for 1 file's tokens, 2 changes, 2 faults; builds: 2 workspaces, lists of 2, 4 steps | 6 775 364 | `IsFifo`, `ProvenanceStands`, `AuditFollowed`, `RestoredRowsStand` |
| `incremental` | 1 source, 1 header, 1 outside header; both come and go; 2 changes, an open buffer; crashes, clean exits, cancels and edits at any point | 10 861 038 | `StoresFollowSnapshot`, `SavedFollowSnapshot` |
| `ipc` | 2 clients, 5 kinds of service, 2 requests, 2 workspaces, `FairSpec` | 230 715 | `RetainedWhileExecuting`, `SwitchHonoursBinding`, `SlotsRecover`, `IsRequestReply` |
| `editor` | 2 paths, 2 documents, 2 leaves, 1 waiting command, 2 edits | 448 524 | `NoEditForgotten`, `EditsCommitted` |
| `document` | 2 documents, 4 texts, queue of 2; diffs of scripts of up to 4 rows | 647 681 | `PatchIsExact`, `ConfirmedTextStays`, `DocumentsConverge` |
| `frame_loop` | 2 projects, 2 runs of 2 files, budgets 1, ring of 2 | 2 001 804 | `CopiesFollowStores`, `CopiesCatchUp` |
| `terminal` | 2 or 3 rows, ring of 4, pending buffer of 3, 3 reads, 1 resize | 1 242 669 | `HistoryStands`, `TranscriptKept`, `DurableStays` |
| `editor_parts` | views: 2 paths, 3 documents, 3 leaves, without commands; text: 2 characters (one blank), history of 2, 5 commands | 2 421 998 | `ViewsStand`, `HistoryShared`, `LatestKept`, `CleanIsSaved`, `PasteUndoesCut` |
| `panels` | project: 2 names, depth 2, 2 changes of the disk, 1 waiting command; errors: 2 files, 2 diagnostics, 3 rows; libraries: 2 indexes, 2 graphs; output: 4 rows; tasks: 3 places, 2 roots, 2 children, 2 commands; git: 2 states, 2 logs, batches of 1, 2 changes | 1 373 016 | `ProjectPointersStand`, `TasksStand`, `GitTreeStands`, `MarkedRowsStand` |

Every property is stated above its definition in words, and `PROJECT.json` gives
for each a mutation of a modelled definition that breaks it.

Why the bounds are enough. *Pipeline:* a hazard here involves an ending run, a
next one and a request between them, that is two threads and three requests;
with one hint a slot the full hint list is met, with two documents also a second
save that finds no room. *Results:* lanes of two have an order to keep and are
filled by two of the three results, and two producers on three subsystems meet
both races (numbering against queueing, refill against push). *Ring:* seven
pushes wrap a ring of three twice. *Artifacts:* two faults are a torn write and one more,
two changes an edit and a change of arguments. *Builds:* two workspaces and lists of two
let a list be full, and a build or a read of one end in the other. *Incremental:* two changes allow an edit
during a run and one after a crash, or a header deleted and created again; with all six
disturbances each way to miss something comes before, within and after a full run that
makes up for it. Two sources that share one header, so that dependents differ from dirty files,
were checked with one change (`Files {a, b, h}`, `Movable {b, h}`, `Opened {}`, `MaxEdits` 1 and an `MCIncludes`
that gives `b` the header too: 2 017 899 states, no violation); the theorem is for any. *Ipc:* two clients meet on one service and on
two, a time-out can leave a slot to the second request, and the workspace can change once
under each. *Editor:* two leaves and two documents allow a document to be freed
and its place taken again while a command for it waits; three leaves exceed the
time limit here and are in `editor_parts`. *Document:* two documents of a file and
one more text than writers. *Frame loop:* two runs, so
that a result of the first meets the second; budgets of one and a ring of two, so that
results and events are left over and events rejected. *Terminal:* three
reads fill the ring of four rows over two or three row screens and scroll it; one resize before,
between or after. *Text:* a history of two is full after three commands. *Panels:*
two names two levels deep allow a file to move, to meet one of the same name, and to
vanish with its folder; three changes of the disk (2 144 308 states for the
panel alone) show no violation either; three tasks make a subtree with a neighbour;
a log of a bad and a good line more than the room cuts a batch short.

The view of `pipeline_liveness` leaves out `results`, the history of what was
pushed: no guard, fairness condition or liveness property depends on it, so two
states that differ in it alone behave alike. The run covers both builds, since
reading the handle back only adds behaviours.

`CHECK_DEADLOCK FALSE` is set for the two `pipeline_` runs, `ipc`,
`document`, `frame_loop`, `editor_parts` and `panels`: their inputs (requests,
texts, runs, commands, changes) are bounded and a behaviour that has used them up
really stops, as does one that uses freed memory. The other models can always take a step and
deadlock is checked.

Beside the listed properties, `TypeOK` of each module and the smaller
invariants `RefreshFlagNamesActiveRun`, `RequestsAccounted`, `LaneOrder`, `CountersAgree`,
`NumbersConsecutive`, `WindowAgrees` and `CursorInside` hold in the same instances.

### Fairness

`FairSpec` of the pipeline assumes that the main loop keeps ticking
(`WF_vars(Tick)`: each frame calls `analysis_scheduler_tick`, and a frame comes
at the latest after the 500 ms wait) and that a thread is scheduled
(`WF_vars(Run(w))`). `FairSpec` of the queue assumes the same of `pop_any`, called
each frame, and of a producer inside a push; that of `IpcServer` of the pump and
of a client's thread, which is woken or times out. `Editor` assumes frames and
timer ticks, `Document` the tick of the save queue and the poll of the
watcher (both in every frame's background tick), `FrameLoop` the main thread and
the worker. Nothing is assumed of requests, edits, cancels, clients, users, the
shell or other programs: they may never come. `SaveGetsItsTurn` and `LaneDrains`
hold for a bounded number of requests; saves or edits without end do starve
the background lanes, which the code does not rule out. The runs of `MCMainLoop`,
`IncrementalAnalysis`, `Terminal`, `MCEditorParts` and `MCPanels` state safety only.

### What the code does not meet

Statements of the documentation, of comments or of the design that the models
refute. Each can be seen by giving the named configuration the constants below and the
statement, defined in the module, as its only property.

1. **Two scanners** (`OneScanner`; `pipeline_safety.cfg` with `HandleReread`
   TRUE, `CreateMayFail` FALSE, `Files = {f1}`). `analysis_job.h` calls a start a
   "no-op if already running". The ending worker lowers the thread flag at
   `analysis_job.c:577` and clears `g_thread` one line later. A start in between
   creates its thread, finds the handle cleared, reports a failure and lowers
   both flags over a live thread; the next tick starts another beside it. Only
   in builds that read the variable back, of which the default is one.
2. **Lost save** (`SavedHintsPreserved`; the same with `HandleReread` FALSE). The
   worker lowers the refresh flag at `analysis_job.c:576` and the thread flag one
   line later. A tick in between retires the run and empties the diagnostics
   slot, and the start function returns: "already running". The Analysis README
   says saves preempt "while preserving saved-file hints".
3. **Clobbered live run** (`LiveResultsCarryRevision`; as 2). The live request
   is cleared after the thread flag is down, so on the globals of the next run;
   its results then carry no revision and pass the stale-result filter.
4. **Delivery order** (`GlobalOrder`; `completed_results.cfg` with 1 producer, 2
   results, `Spec`). `pop_any` refills its staged heads one lock at a time; a
   result pushed behind its back comes after one with a higher number. The
   tests' README promises global sequence order. Within a lane, and against every
   result that was at the front when `pop_any` began, the order does hold.
5. **Cancelled scan** (`StoresAlwaysFollow`; `incremental.cfg` with `Movable`
   and `Opened` empty, `FirstRun` TRUE, `Disturbances {"cancelScan",
   "cancelSave"}`, `MaxEdits` 1). The snapshot is saved even when the scan
   before it was cut short: files never analysed are clean from then on. Likewise an **edit
   during a full run** (`Movable` and `Opened` empty, `FirstRun` FALSE, `Disturbances {"editFull"}`,
   `MaxEdits` 1), which fingerprints the workspace after it has analysed it.
6. **Restored header** (`StoresAlwaysFollow`; `Movable {h}`, `Opened {}`, `FirstRun`
   FALSE, no disturbances, `MaxEdits` 2). Unresolved includes leave no edge, so
   nothing leads from a header that comes back to its includers.
7. **Ghost symbols** (`NoGhostSymbols`; `Movable {a}`, `Opened {}`, no
   disturbances, `MaxEdits` 1). A full scan empties the diagnostics store and
   the include graph but not the symbols store.
8. **Stamp restart** (`ErrorsPanelFollowsStore`; `frame_loop.cfg` with one project, `Files`
   1, `ErrorsShown {TRUE, FALSE}`). A full run clears the diagnostics store
   and its stamp counter starts again (`analysis_store.c:50`, `:195`); the errors
   panel compares stamps for equality (`tool_errors.c:241`) and keeps old rows
   when the count comes out the same.
9. **Alternate screen** (`AlternateShieldsPrimary`; `terminal.cfg`): 
   `terminal.c:54` asserts that a feed that begins and ends on the alternate screen
   commits nothing to the scrollback, but the primary screen may have been shown
   and scrolled in between; and **rows over a resize** (`ResizeKeepsRows`): a pane that
   grows does not show the rows it showed, against the terminal's README.
10. **Answers of the IPC server** (`AnswersAreTrue`, `WorksInBoundWorkspace`,
    `TypingArgumentsLive` of `IpcServer`; `ipc.cfg`): the answer to an open or edit
    request that was given up while it was worked on goes to the next one; open, edit,
    present and type check their workspace when they come in and never again;
    and the arguments of a typing request that was given up may be read freed.
11. **Commits of a freed document** (`CommitsNameLiveDocuments` of `Editor`;
    `editor.cfg`): a command that closes the tab tells the transaction
    nothing, and the next frame commits the freed document.
12. **Same second** (`DocumentsConverge`; `document.cfg` with `SameSecond` TRUE): a
    change from outside in the second of the last noted stamp is never seen.
13. **Undo** (`UndoTakesBack`, `SelectionInside`, `NothingStray` of `EditorText`;
    `editor_parts.cfg`): Backspace over a selection pushes twice, so the first undo shows
    what is already shown; a restored text has an empty line more; Backspace at the start of
    the second line clears the redo stack for nothing; a selection outlives lines it spans; a paste
    drops empty lines, and one of nothing but newlines uses a freed line.

14. **Clean exit** (`StoresAlwaysFollow`; `incremental.cfg` with `Movable` and `Opened`
    empty, `Disturbances {"exit"}`, `MaxEdits` 1). `shutdownSystem` ends with
    `diagnostics_save`, which overwrites `analysis_diagnostics.json`, the artifact of the
    diagnostics store, with the flat list. The next start loads nothing from it,
    while the snapshot goes on vouching for every file.
15. **Rows of another workspace** (`SavedRowsAreOwn`, `EndedBuildIsNotRunning` of
    `BuildSystem`; `main_loop.cfg`). A shell or a client's build goes on printing after another
    workspace was chosen, and its rows are shown and saved there; and after a build in the
    shell the status stays "running", so that a client can never switch the workspace
    again.
16. **Marks and folds by position** (`MarksNameRows`, `FoldsFollowFiles` of `ErrorsPanel`,
    `SelectedRowStands` of `LibrariesPanel`, `NewRowsUnmarked` of `BuildOutputPanel`; `panels.cfg`).
    Rows marked or folded by number stay so when the list under them is renewed, so the marks
    move to other rows and the folds to other files.
17. **Tasks** (`TasksComeBack`, `TasksAreSaved`, `RootsFit`, `SiblingsNamed`,
    `PromptNamesTask` of `TaskPanel`; `panels.cfg`). `loadInitialWorkspace` loads `task_tree.json`
    into a state that is then replaced by a fresh one with the default groups; at the end
    `destroyPane` frees the panel's state before it is saved, so an empty tree is written
    unless the panel was hidden. A command adds roots beyond `MAX_TASK_ROOTS`; a new task
    may get the name of its neighbour; the prompt keeps its pointer to a task that is removed.
18. **Git** (`ShownIsWatched`, `SelectedRowWasClicked` of `GitPanel`; `panels.cfg`). A status
    that changes and changes back between two polls stays on the screen, and a failed
    `git status` shows no changes and is not tried again; the selected row is not told when
    its tree is freed, and may come to be another. Staged additions and deletions
    show as modified (`StatusOf`), and a commit that leaves the status as it was is
    not seen.
19. **Late end** (`ResultRunsMonotone` of `AnalysisPipeline`; `pipeline_safety.cfg`). A run cancelled before it began
    queues its `finished` message after the thread flag is down (`analysis_job.c:504`, `:508`): it reads the run id
    at `:73` and pushes at `:82`, and the next run may have pushed results of a higher id in between, so that
    `event_loop.c:204` drops the message. `OnlyQuietEndsAreOvertaken` shows that nothing else is lost this way.
20. **Provenance ahead of diagnostics** (`ProvenanceAlwaysStands` of `AnalysisArtifacts`; `main_loop.cfg`). Between
    `project_scan.c:364` and `:371` provenance that counts as current stands beside diagnostics of an older text, and
    a client's query (`ide_ipc_query_helpers.c:119`) or the control panel (`render_control_panel.c:281`) may
    see it. `ProvenanceStands` excepts the one file the worker has in hand then.
21. **Library index after a deleted header** (`StoresFollowSnapshot` with the last disjunct of `cut'` in `Restart` of
    `IncrementalAnalysis` taken out; `incremental.cfg`). A crash after the include graph is saved (`analysis_job.c:462`)
    and before the snapshot is (`:463`) leaves the includers' usages as they were before the header was deleted.

What happens in items 5, 6 and 14 happens in the passing run `incremental` too, which excludes
nothing: `StoresFollowSnapshot` and `SavedFollowSnapshot` promise up-to-date results as long as `missed` is
empty, that is up to the first such event and again from the end of the next full run without one.

More show in the models without a property of their own.

*Artifacts* (`AnalysisArtifacts`). When build arguments or the Makefile change across a
restart, the audit announces a full run, yet the run that follows is incremental and
saves metadata as matching; a Makefile that changes during a run is vouched for. An include
graph lost at a start is filled in part by the next incremental run and no longer counts as
missing; torn diagnostics with one changed file lose the diagnostics of the others, which stay
vouched for. The combined stamp of a store is its count xor its stamps, so two
changes may cancel out. The provenance of a removed file outlives incremental
runs, which never save provenance; shutdown saves the analysis only under
`IDE_FORCE_ANALYSIS_SAVE_ON_EXIT`; token and unit stores load in reverse order.

*Builds* (`BuildSystem`). A shutdown before the cached list is published overwrites the file
with an empty one; a client's build writes the lists on its own thread without a lock, and
ignores a `project.fisics.json`; a summary counts rows of other workspaces.

*Lists* (`ErrorsPanel`, `RowSelection`). The snapshot borrows message and hint pointers from store entries
the worker frees; opening or closing all folds moves marks; select-all without rows
marks the whole array.

*Diffs* (`UnifiedDiff`). A hunk header with an old count other than 1 and a new
count of 1 fails both forms the service scans for, and the diff is refused; a
removed line that starts with `-- ` is read as a file header, and refused; an
added line `++ x` redirects the path; an insertion without context (`-N,0`) lands before line
N; `\ No newline` is ignored; context lines whose only blank was stripped are
skipped; and a patch whose result lacks a final newline changes the buffer and
then answers failure. `PatchIsExact` says that what is accepted is exact for texts and diffs
outside these cases, which its definition names.

*Project panel* (`ProjectPanel`). A drag's entry is not reset by a refresh and is
used freed; New File empties an existing file of the default name; the inline
rename replaces an existing file where the prompt checks; Delete and a click
on another file in one frame delete the other file; after a deletion the parent
folder is selected, so a second Delete removes it; a folder whose deletion fails half way is
not read anew; and the panel's own copy of a restored run target is cut to seven
bytes, `sizeof` of a pointer.

## 4. Proofs

TLAPS checks the following for every value of the constants.

**AnalysisPipelineProofs** (from `PipelineAssumption`, which requests the
program issues). `TypeCorrect` holds in every build. The
others assume `~HandleReread`, without which item 1 above refutes
mutual exclusion: `PipelineInvariant`, that
`PipelineInv` is invariant; from it `ScannersExclude`, `RefreshFlagCorrect`,
`SavesPreempt`, `CancelsAreAimed`, `ForcedRunsAreFull`, `OvertakenAreQuietEnds`, `ResultsAreNamed`.
None of the properties is inductive alone. Mutual exclusion needs
`ScannerHoldsFlags`: a thread between its start and its lowering of the thread flag holds that
flag, the refresh flag up to the step before, and its run id is the global one;
then a start, which needs the thread flag down, finds no scanner.
`RefreshFlagNamesActiveRun` follows from the same conjunct, since a refused start
happens with the refresh flag already down. `CancelHitsItsRun` needs
`CancelNamesActiveRun`: while the refresh flag is up, a raised cancel flag was
asked for the active run. `ForcedRunIsFull` needs `ForcedFlagWaits`: from the start of
a forced run to its consumption of the flag nothing lowers it, and no live slot is
ever forced, so the run is in workspace mode. `OnlyQuietEndsAreOvertaken` needs
`DraftsNameTheirRun`: what a thread has read for its message is its own run's id as long as it
holds the thread flag, and later at most the current one; `RunsApart`: no two threads are of one run;
and `EarlyEndsAreQuiet`: a thread that may end late has published nothing but that it is idle. There is one step
for each action and, under it, one for each conjunct it disturbs.

**MainLoopProofs** is about the three parts of `MCMainLoop` and the queue of completed results,
each from its own specification. The event ring (from `LoopEventsAssumption`): `TypeCorrect`,
`WindowCorrect`, `NumbersCorrect`, and `RingImplementsFifo`: the initial state
maps to an empty sequence and each push, rejection, pop, drain and reset to a step of
`BoundedFifo` or a stutter, for every capacity. The arithmetic of wrapping
indices is in lemmas at the head of the module. The artifacts, for any sources, headers and
build arguments: `ArtifactsInvariant`, and from it `ProvenanceIsCurrent` (`ProvenanceStands`) and
`AuditIsFollowed` (`AuditFollowed`, of every step). That the audit and the first run decide
alike needs `AuditStands`: from the start to that run memory is what was loaded from the
artifacts the audit went by, whatever happens in between takes the audit back; then the run's three
reasons to go full (`BeginRun`) are each ruled out by one of the audit's (`AuditGoesFirst`).
That provenance is current needs `HandShaped`: the worker has one file in hand, and what it noted of
it is on record until its results are stored; a cancel no longer stops it there.
The lists (from `ListsAssumption`: the room is a number, and no workspace is the mark of
a reported row): `BuildInvariant`, and from it `RestoredRowsAreOwn` (`RestoredRowsStand`), for any
workspaces and room. The rows on the screen say too little: `AwaitedAreOwn` adds that a read which
will still be published is of the workspace that is open, unless the frame has yet to notice
that it changed, and `AwaitedAreAlone` that the engine awaits one only while nothing was
reported since. TLC checked both on the constants of `main_loop` before they were proved.

The queue (from `CompletedResultsAssumption`): `ResultsInvariant`; from it
`ResultsHaveOneOwner` (`OneOwner`), `LanesKeepOrder`, and `FrontsAreNotOvertaken`
(`OvertakesNoFront`, of every step), for any producers and lanes of any size. That each number
drawn is held once is inductive only by kind of holder: a producer's hand, a queue, a staged
head, what was delivered or refused (`HoldersDiffer`, `PlacesDisjoint`, `NumbersHeld`). The order of a
lane needs the same kinds in a row: delivered before staged before queued before in
hand (`LanesInOrder`, `HandIsLast`). That no front is overtaken needs `FrontsStand`: what was at a front
when `pop_any` began is there still, and staged once its lane was refilled, however the
producers go on.

**IpcServerProofs** (from `KindsAssumption` and `BoundsAssumption`). `IpcInvariant`; from it
`SlotsAreRetained` (`RetainedWhileExecuting`), `SwitchesAreBound` (`SwitchHonoursBinding`), and
`GuardedSlotsImplementRequestReply` (`IsRequestReply`): the requests of the four services whose
slots are guarded, by retaining them or by a number, implement `RequestReply`, each step mapping
to one of its steps or a stutter. Open and edit are not guarded and break it
(item 10). `IpcInv` says what the client's step, its slot and the main thread's hand
may be together: until it is posted no slot knows a request (`ClientsHoldRequests`), a waiting client's
slot is not taken from under it (`WaitersOwnSlots`), a slot asks for work never done and
reports success of its own request only (`GuardedSlots`), and the request in hand is worked on
once though its client may have left (`WorkInHand`, `WorkedOnce`).
From `DocumentAssumption`, `ConfirmedTextsStay` (`ConfirmedTextStays`), for any documents, texts
and length of the save queue: each of the three services tells success only with the queue
empty, so that whatever waits was asked for afterwards (`SavesKnew`); `DocumentInv` adds that what is
queued, typed and shown are texts.
`PatchesAreExact` (`PatchIsExact`), for scripts of any length over any words,
and every view of one. It goes by induction over the rows of the script, in three parts. What has
been read after row *k* is the hunks of the rows shown up to *k*, when the view is readable
(`ReadableIsRead`); otherwise a header that was refused stays refused, or a second file was
begun, and nothing read later takes that back (`ReadRowGrows`, `UnreadableIsRefused`). Applying those
hunks to any text passes, up to *k*, as many rows of it as the script keeps or removes, and
meets every one that is shown (`Reaches`, `ReachesStep`): so what was not refused still stands.
In the old text itself nothing is amiss, and what is put out, with what is yet to be copied, are
the rows of the new text up to *k* (`Makes`, `MakesStep`). A hunk's first row needs most: its
header says where the copying stops (`HeaderStarts`), which is right because a view shows some row of the
old text in each hunk, if it has one; a count of 0 before later rows, left out by that, is one of
the deviations.

**EditorTextProofs** (from the assumptions on the limits and the alphabet).
`RoomIsShared`: undo and redo stack together never hold more than one stack may,
so a step back finds room on the other side; the inductive form `SharedHistory` adds
that the entries come from some set of texts, which is all the stack operators need to know.
`CleanCorrect`: a document that counts as unmodified is the text last saved or
read; `CleanInv` adds the shape of a document, because a command that changes nothing
must leave the very lines. `TextsAreTexts`: document, clipboard and all of the history
are texts. `LatestStays` (`LatestKept`): what the last editing command left is still
shown or within reach. `CutIsUndone` (`PasteUndoesCut`): for every text and every selection of
lines that are not empty, drawn either way, cut and then paste give back the text.
Its lemmas follow the code's splitting and joining: the lines cut are those taken out
(`CutPieces`), what is left is joined at the columns (`CutJoins`), and to splice what
the clipboard's tokens are brings the lines back (`SplicedBack`, `CutThenPasted`). The function
that keeps the lines that are not empty (`Kept`) is recursive; that it exists, and what it computes,
is proved by induction on the set of lengths for which it does (`Induction`, from the
well-foundedness of < in the library), since an induction theorem about an operator is
out of the provers' reach.

**FrameLoopProofs** (from `FrameLoopAssumption`). `FrameInvariant`, and from it
`CopiesAreFollowed` (`CopiesFollowStores`): for any number of files, runs and projects, any
budgets and ring, each copy is of the store as it is, or something is still to come that renews it.
`FrameInv` has a conjunct for each copy (`EngineFollows`, `TreeFollows`, `RowsFollow`) that says
what is to come: a result of the current run in the queue, an event in the ring, or an announcement
the frame has yet to make. `ResultsOfRuns`, `RunsInOrder` and `StampsBounded` tie results
and stamps to the runs started, so that the filters of the drain let the last result pass.

**TerminalProofs** (from `GridAssumption`, `JournalAssumption` and `TerminalAssumption`: sizes are
not zero and what is printed are operations the emulator knows). `TerminalStands`; from it
`HistoryAlwaysStands` (`HistoryStands`), and `DurableRowsStay` (`DurableStays`, of every step), for
any sizes, ring, and output. The argument goes up the layers. `RingStands` says of the indices that the ring
is the end of what scrolled off; an operation of the emulator leaves the ring alone (`SameRing`) or
pushes rows (`Later`), so that what had scrolled off is still what came first. Of the journal,
`Onward` says that the durable rows stay but for the oldest, each step of a capture goes
`Onward`, and `DurableStays` is that. Without Codex the durable rows are the end of what
scrolled off as far as it was seen (`Faithful`); the rest is taken over and the screen put behind,
which is `HistoryStands`. When the width changes all of it is refitted alike.
`TranscriptStays` (`TranscriptKept`) assumes `OneWidth`: the pane keeps its width and is not
taller than the buffer of pending rows, 128 in the code. A row of Codex's is durable or waits (`Held`),
and what waits is on the screen, each row once (`Waiting`), so that the buffer never has
to drop one (`RoomToWait`, a pigeonhole). Both assumptions are needed: with a buffer of one row TLC
refutes the property, and after a change of width the pending rows are not what they were (`Restride`).
What is done to a sequence row by row is written with `Folded`, whose function is proved to exist by induction
over a set of numbers, as in `EditorTextProofs`.

**PaneProofs** is about six parts that share no variable, each from its own specification.

*Views* (from `PlacesAssumption`: the numbers of documents, nodes and leaves).
`ViewsAlwaysStand` and, for the editor as composed, `EditorViewsStand` (`ViewsStand`). The
statement counts: leaves, tabs that show a document, nodes below the root. `ViewsInv` says
instead what no two nodes share: a node is the child of one split and all that
are in use hang under the root (`Tree`), a document is shown by one tab at most
(`TabsOnce`), an empty node has no tabs (`TabsPlaced`), what is shown has a reference (`Alive`). An operation
then is one of few rearrangements, each with a lemma: a leaf becomes a split of two, a node is
raised into its parent's place while a subtree is freed, tabs are carried from leaf to leaf without
meeting (`TabsCarried`), tabs get fewer (`FewerTabs`). `OneTree` and `TabsLive` count again.
That what is reached can be raised and cut is proved from `Reached` being the least closed set.

*Edits* (from the bounds on commands and edits). `EditsAreHeld` (`NoEditForgotten`): an
edit that was not handed to the analysis is the open transaction's, whose timer is set. `EditsInv` adds
what kind of value a document's mark is; that no way of opening, splitting or closing
makes an edit one that waits is a lemma each (`KeepsHanded`, `ViewsKeep`).

*Git* (from `GitAssumption`: batches are not empty, and no line of a log is the mark of a
process that could not start). `GitTreeAlwaysStands` (`GitTreeStands`). `GitInv` says of the model's lists, drawn or
not, that unless a refresh is due the commits so far and those left in the stream are the log that was read
(`LogStands`), and that a tree is there only when no refresh is due.

*Tasks* (from `TasksAssumption`: the default groups are a forest, with no task selected).
`TasksAlwaysStand` (`TasksStand`). `TaskInv` says of each list that it holds the children of
its owner once each, and that the parents lead out of any set of tasks (`RootedIn`): without it
a subtree could hold the task it is taken from, and what is freed would leave a list pointing at it.

*Project* (from `ProjectAssumption`: at the start every entry is in a folder, and the marks
for no path are no names). `ProjectPointersAlwaysStand` (`ProjectPointersStand`). Disk and tree
differ after changes, so `ProjectInv` says of each that the folder of an entry is an entry
(`DiskStands`, `EntriesStand`); what selection and rename hold is an entry of the right
type (`SelStands`), what is dragged a file or freed, and a run target is on disk or else a refresh is due, or the disk was changed unseen.
That a folder moved or freed takes with it what was under it is in lemmas about prefixes of paths.

*Errors* (from `DiagsAssumption`: finitely many files, each with lists of diagnostics).
`ErrorsPanelStands` (`ErrorsInv`), and from it `ErrorMarksAlwaysStand` (`ErrorMarksStand`, of every
step). Marks are numbers of rows, and a fold changes how many rows there are: that a mark which is kept
is of the row it was of needs each file to be once in the snapshot and to have a fold, so that the rows
down to a file's header are the same before and after (`HeadStays`, `BlockIs`). Whatever else
numbers the rows anew clears the marks, but for the steps the property names (item 16).

*Libraries.* `LibraryMarksAlwaysStand` (`LibraryMarksStand`, of every step): what makes the rows anew
leaves no mark (`Rebuilt`), and nothing else changes them. `MarkedRowsAlwaysStand` is both
(`MarkedRowsStand`).

TLC checked `TaskInv` (10.4 million states, four places) and `ProjectInv` (321 968 states) before
they were proved.

**IncrementalAnalysisProofs** (from `IncrementalAssumption` alone, so with every disturbance the
module has and any start). `IncrementalInvariant`, and from it `StoresFollow`
(`StoresFollowSnapshot`) and `SavedFollow` (`SavedFollowSnapshot`), for any files and any includes among
them. `IncrementalInv` has three parts. The shape of stores and artifacts (`Shapes`) holds always. What
is said of a run (`RunSound`) holds while nothing was missed since it began, and what is said between runs
(`Sound`) while nothing was missed at all, since a full run relies on nothing from before. As contents are
numbered in the order in which they come about, the saved snapshot, the snapshot a run is planned with and
the workspace are three moments in that order (`InOrder`, `Follows`), and no header came between them
(`NoneCame`). Then `Good`, that a store is up to date where a snapshot vouches, is carried from an earlier
workspace to a later one and from the plan to the saved snapshot (`GoodLater`, `GoodEarlier`); that the
targets of a plan suffice is `TargetsSuffice`, where the include graph must have the edges of each
unchanged file (`Linked`), which only lose deleted headers (`EdgesShrink`); and `SavedInOrder` has, for each
phase of the saving, what is already good on disk against the plan, so that the snapshot may replace the
old one when its turn comes. The library index, saved last, needs `HeaderLost`: a crash before that
is harmless to it unless a deleted header took its edges along. The run checked `IncrementalInv` itself before it was proved.

Model-checked only: liveness (under fairness, with ENABLED, it is out of this prover's
reach), `TranscriptKept` across a change of width, and the deviations of section 3, which are
counterexamples.

## 5. Plan

1. The control panel's tree of symbols and the editor's projection of it; the timer
   schedule; the watch of the workspace with its windows.

Left out for good: what only draws, formats or moves bytes to another process,
whose control is sequential, and the external compiler frontend.
