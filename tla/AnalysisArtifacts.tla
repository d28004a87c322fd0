------------------------- MODULE AnalysisArtifacts -------------------------
(***************************************************************************)
(* What a start of the program makes of the artifacts that analysis runs   *)
(* left under ide_files/: the audit (analysis_startup_audit.c,             *)
(* analysis_cache_manifest.c), the loading of the stores                   *)
(* (analysis_cache.c, analysis_token_store.c, analysis_units_store.c,      *)
(* analysis_provenance_store.c), and the run that is then asked for        *)
(* (system_control.c, analysis_job.c).                                     *)
(*                                                                         *)
(* Where IncrementalAnalysis is about whether results are up to date, this *)
(* is about which artifacts are there, torn by a crash in the middle of a  *)
(* write, or made under other build arguments.  A text or a setting of the *)
(* arguments is the number of the change that made it, 0 for a file that   *)
(* is not there.  Of symbols, tokens, units, edges and usages only is      *)
(* represented which files have them; each source includes the headers.    *)
(***************************************************************************)
EXTENDS Naturals, Sequences, FiniteSets

CONSTANTS
    CFiles, HFiles,     \* the sources and headers of the workspace
    TokenRoom,          \* files whose tokens fit into the token artifact
    Missing, Torn,      \* an artifact that is not there, or cut short
    Flat,               \* diagnostics in the engine's form, not the store's
    MaxChanges,         \* bound on the changes of texts and arguments
    MaxFaults           \* bound on ends of the program, cancels and runs of a buffer

Texts == CFiles \cup HFiles

VARIABLES
    text,       \* the workspace
    args,       \* build arguments, Makefile and frontend
    changes, faults,
    mem,        \* the stores in memory
    art,        \* the artifacts
    job,        \* the program and its analysis run
    audit       \* the refresh intent of the audit, while it stands

artifactVars == <<text, args, changes, faults, mem, art, job, audit>>

There == {f \in Texts : text[f] # 0}
NoDiags == [f \in Texts |-> 0]
NoProvenance == [f \in Texts |-> [of |-> 0, current |-> FALSE]]

EmptyStores == [diags |-> NoDiags, prov |-> NoProvenance, symbols |-> {}, tokens |-> {},
                units |-> {}, graph |-> {}, library |-> {}]

(* hand: the file the worker is at, if it is at one: the contents it has   *)
(* read, and whether it has noted their provenance; todo: the files after  *)
(* it; writes: the artifacts the run has yet to write; next: the snapshot  *)
(* it planned with.                                                        *)
NoJob(phase) == [phase |-> phase, forced |-> FALSE, full |-> FALSE, todo |-> {},
                 hand |-> {}, writes |-> <<>>, next |-> NoDiags,
                 cancelled |-> FALSE]

ReadAs(f, contents) == {[file |-> f, of |-> contents, noted |-> FALSE]}

ArtifactNames == {"meta", "index", "diags", "symbols", "tokens", "units", "prov",
                  "graph", "library", "flags"}

ArtifactsTypeOK ==
    /\ text \in [Texts -> 0..MaxChanges + 1]
    /\ args \in 0..MaxChanges
    /\ DOMAIN art = ArtifactNames
    /\ mem.diags \in [Texts -> 0..MaxChanges + 2]
    /\ \A store \in {mem.symbols, mem.tokens, mem.units, mem.graph, mem.library} :
           store \subseteq Texts
    /\ job.phase \in {"off", "asked", "idle", "scan", "live", "save"}
    /\ job.hand \subseteq [file : Texts, of : 1..MaxChanges + 2, noted : BOOLEAN]
    /\ audit \in {"none", "full", "targets", "noop"}

ArtifactsInit ==
    /\ text = [f \in Texts |-> 1]
    /\ args = 0
    /\ changes = 0 /\ faults = 0
    /\ mem = EmptyStores
    /\ art = [name \in ArtifactNames |-> Missing]
    /\ job = NoJob("off")
    /\ audit = "none"

Whole(artifact) == artifact \notin {Missing, Torn, Flat}

-----------------------------------------------------------------------------
(* The workspace, while the audit says something about it or not.          *)

Changed ==
    /\ changes < MaxChanges
    /\ changes' = changes + 1
    /\ audit' = "none"
    /\ UNCHANGED <<faults, mem, art, job>>

ChangeText(f) ==
    /\ Changed
    /\ \/ text' = [text EXCEPT ![f] = changes' + 1]
       \/ text[f] # 0 /\ text' = [text EXCEPT ![f] = 0]
    /\ UNCHANGED args

ChangeArguments == Changed /\ args' = changes' /\ UNCHANGED text

-----------------------------------------------------------------------------
(* The start.                                                              *)

(* analysis_cache_meta_matches                                             *)
Trusted == Whole(art.meta) /\ art.meta = args

Differing == {f \in There : art.index[f] # text[f]}
Gone == {f \in Texts \ There : art.index[f] # 0}
HeaderChanged == (Differing \cup Gone) \cap HFiles # {}

(* Mutant: the audit takes a library index that is not there for one.      *)
ReadyWithoutLibrary(name) == Trusted /\ (art[name] # Missing \/ name = "library")

(* artifact_ready: a torn artifact is there, or one in another form.       *)
Ready(name) == Trusted /\ art[name] # Missing

(* analysis_startup_audit_evaluate                                         *)
RefreshIntent ==
    IF \/ ~Whole(art.index) \/ ~Trusted
       \/ \E name \in {"diags", "symbols", "library"} : ~Ready(name)
       \/ HeaderChanged /\ ~Ready("graph")
    THEN "full"
    ELSE IF Differing \cup Gone = {} THEN "noop" ELSE "targets"

Read(name, nothing) == IF Whole(art[name]) THEN art[name] ELSE nothing
ReadTrusted(name, nothing) == IF Trusted THEN Read(name, nothing) ELSE nothing

(* Mutant: what is read counts as it did when it was saved.                *)
CachedAsSaved(prov) == prov

(* analysis_provenance_store_load: nothing that is read counts as current. *)
Cached(prov) == [f \in Texts |-> [prov[f] EXCEPT !.current = FALSE]]

(* Diagnostics, symbols and tokens are read under any metadata; each store  *)
(* is emptied before it is read into.                                      *)
LoadedDiagnostics == Read("diags", NoDiags)
LoadedSymbols == Read("symbols", {})
LoadedTokens == Read("tokens", {})
LoadedUnits == ReadTrusted("units", {})
LoadedGraph == ReadTrusted("graph", {})
LoadedLibrary == ReadTrusted("library", {})

Loaded == [diags |-> LoadedDiagnostics, prov |-> Cached(Read("prov", NoProvenance)),
           symbols |-> LoadedSymbols, tokens |-> LoadedTokens, units |-> LoadedUnits,
           graph |-> LoadedGraph, library |-> LoadedLibrary]

(* The first run is forced if there is no file of diagnostics.             *)
StartProgram ==
    /\ job.phase = "off"
    /\ mem' = Loaded
    /\ job' = [NoJob("asked") EXCEPT !.forced = (art.diags = Missing)]
    /\ audit' = RefreshIntent
    /\ UNCHANGED <<text, args, changes, faults, art>>

-----------------------------------------------------------------------------
(* A run.                                                                  *)

(* incremental_baseline_invalid_when_clean                                 *)
NoBaseline ==
    /\ Differing \cup Gone = {}
    /\ There # {}
    /\ mem.diags = NoDiags \/ mem.symbols = {} \/ mem.library = {}

(* include_graph_collect_dependents                                        *)
DependentsOf(changed) == IF changed \cap HFiles = {} THEN {} ELSE mem.graph

(* remove_deleted_file_entries leaves the provenance records.              *)
Cleared(stores, gone) ==
    [stores EXCEPT
        !.diags = [f \in Texts |-> IF f \in gone THEN 0 ELSE @[f]],
        !.symbols = @ \ gone, !.tokens = @ \ gone, !.units = @ \ gone,
        !.graph = @ \ gone, !.library = @ \ gone]

(* analysis_scan_workspace_with_flags clears some of the stores.           *)
ClearedForFull(stores) ==
    [stores EXCEPT !.diags = NoDiags, !.units = {}, !.prov = NoProvenance, !.graph = {}]

FullRun(stores) ==
    /\ mem' = ClearedForFull(stores)
    /\ job' = [NoJob("scan") EXCEPT !.full = TRUE, !.todo = Texts]

IncrementalRun ==
    /\ mem' = Cleared(mem, Gone)
    /\ job' = [NoJob("scan") EXCEPT
                  !.todo = Differing \cup DependentsOf(Differing \cup Gone),
                  !.next = text]

(* run_incremental_scan, or the full path if it gives up; removed files    *)
(* are taken out of the stores before a missing include graph is acted on. *)
BeginRun(forced) ==
    /\ IF forced \/ ~Whole(art.index) THEN FullRun(mem)
       ELSE IF NoBaseline THEN FullRun(mem)
       ELSE IF mem.graph = {} /\ HeaderChanged THEN FullRun(Cleared(mem, Gone))
       ELSE IncrementalRun
    /\ audit' = "none"
    /\ UNCHANGED <<text, args, changes, faults, art>>

FirstRunBegins == job.phase = "asked" /\ BeginRun(job.forced)
LaterRunBegins == job.phase = "idle" /\ \E forced \in BOOLEAN : BeginRun(forced)

ProvenanceOf(contents) == [of |-> contents, current |-> TRUE]

(* A header has no edges and no usages of its own; a full run leaves the   *)
(* library index to a pass of its own.                                     *)
WithEdgesOf(f, graph) == IF f \in CFiles THEN graph \cup {f} ELSE graph
WithUsagesOf(f, library, full) ==
    IF f \in CFiles /\ ~full THEN library \cup {f} ELSE library

Forgotten(f) ==
    mem' = [Cleared(mem, {f}) EXCEPT !.prov[f] = [of |-> 0, current |-> FALSE]]

(* The next file: it is read, or found to be gone.  (Forgetting empties    *)
(* the diagnostics first and the provenance last.)                         *)
ScanFile(f) ==
    /\ job.phase = "scan" /\ f \in job.todo /\ job.hand = {} /\ ~job.cancelled
    /\ job' = [job EXCEPT !.todo = @ \ {f},
                          !.hand = IF f \in There THEN ReadAs(f, text[f]) ELSE {}]
    /\ IF f \in There \/ job.full THEN UNCHANGED mem ELSE Forgotten(f)
    /\ UNCHANGED <<text, args, changes, faults, art, audit>>

(* analyze_buffer_with_active_flags: after the frontend has had the        *)
(* contents the cancel flag is read for the last time.                     *)
GiveUpFile(h) ==
    /\ job.cancelled /\ ~h.noted
    /\ job' = [job EXCEPT !.hand = {}]
    /\ UNCHANGED <<text, args, changes, faults, mem, art, audit>>

(* The provenance store is told first, under its own lock ...              *)
NoteProvenance(h) ==
    /\ ~job.cancelled /\ ~h.noted
    /\ mem' = [mem EXCEPT !.prov[h.file] = ProvenanceOf(h.of)]
    /\ job' = [job EXCEPT !.hand = {[h EXCEPT !.noted = TRUE]}]
    /\ UNCHANGED <<text, args, changes, faults, art, audit>>

(* ... and then the diagnostics and the other stores.                      *)
StoreResults(h) ==
    /\ h.noted
    /\ mem' = [mem EXCEPT
           !.diags[h.file] = h.of,
           !.symbols = @ \cup {h.file}, !.tokens = @ \cup {h.file},
           !.units = @ \cup {h.file},
           !.graph = WithEdgesOf(h.file, @),
           !.library = WithUsagesOf(h.file, @, job.full)]
    /\ job' = IF job.phase = "live" THEN NoJob("idle") ELSE [job EXCEPT !.hand = {}]
    /\ UNCHANGED <<text, args, changes, faults, art, audit>>

AnalyzeFile ==
    \E h \in job.hand : GiveUpFile(h) \/ NoteProvenance(h) \/ StoreResults(h)

(* What may happen at any time is counted.                                 *)
Disturbed == faults < MaxFaults /\ faults' = faults + 1

CancelRun ==
    /\ Disturbed
    /\ job.phase \in {"scan", "save"} /\ ~job.cancelled
    /\ job' = [job EXCEPT !.cancelled = TRUE]
    /\ UNCHANGED <<text, args, changes, mem, art, audit>>

(* The order in which a run writes.  A full run builds the library index   *)
(* anew before it takes its snapshot.                                      *)
WritesOf(full) ==
    IF full THEN <<"diags", "symbols", "tokens", "units", "prov", "graph", "build", "index">>
    ELSE <<"diags", "symbols", "tokens", "units", "graph", "index">>

ScanEnds ==
    /\ job.phase = "scan"
    /\ job.hand = {}
    /\ job.cancelled \/ job.todo = {}
    /\ job' = [job EXCEPT !.phase = "save", !.todo = {}, !.writes = WritesOf(job.full)]
    /\ UNCHANGED <<text, args, changes, faults, mem, art, audit>>

(* The token store gives up before it has written too much.                *)
WrittenTokens == IF Cardinality(mem.tokens) > TokenRoom THEN Missing ELSE mem.tokens

(* analysis_snapshot_refresh_and_save, and the snapshot of the plan.       *)
WrittenSnapshot == IF job.full THEN text ELSE job.next

(* Metadata is computed when it is written, from the arguments there are.  *)
Written(name) ==
    CASE name \in {"meta", "flags"} -> args
      [] name = "index" -> WrittenSnapshot
      [] name = "tokens" -> WrittenTokens
      [] OTHER -> mem[name]

(* library_index_build_workspace_with_flags: it stops when it is cancelled *)
(* and keeps what it has.                                                  *)
BuildLibrary ==
    \E listed \in IF job.cancelled THEN SUBSET (There \cap CFiles)
                                   ELSE {There \cap CFiles} :
        mem' = [mem EXCEPT !.library = listed]

(* After the snapshot a run that was cancelled ends; any other goes on.    *)
WritesLeft ==
    IF Len(job.writes) > 1 THEN Tail(job.writes)
    ELSE IF job.writes[1] = "index" /\ ~job.cancelled THEN <<"meta", "flags", "library">>
    ELSE <<>>

WriteArtifact ==
    /\ job.phase = "save"
    /\ LET name == job.writes[1]
       IN IF name = "build" THEN BuildLibrary /\ UNCHANGED art
          ELSE art' = [art EXCEPT ![name] = Written(name)] /\ UNCHANGED mem
    /\ job' = IF WritesLeft = <<>> THEN NoJob("idle") ELSE [job EXCEPT !.writes = WritesLeft]
    /\ UNCHANGED <<text, args, changes, faults, audit>>

(* analysis_scan_buffer_with_flags: an unsaved buffer, nothing written and *)
(* nothing that cancels it.                                                *)
AnalyzeBuffer(f) ==
    /\ Disturbed
    /\ job.phase = "idle"
    /\ f \in There
    /\ job' = [NoJob("live") EXCEPT !.hand = ReadAs(f, MaxChanges + 2)]
    /\ UNCHANGED <<text, args, changes, mem, art, audit>>

(* The program ends, in the middle of a write too: analysis_artifact_io    *)
(* writes in place, the token store writes another file and renames it.    *)
Die ==
    /\ Disturbed
    /\ job.phase # "off"
    /\ job' = NoJob("off")
    /\ mem' = EmptyStores
    /\ audit' = "none"
    /\ \/ UNCHANGED art
       \/ /\ job.phase = "save" /\ job.writes[1] \notin {"tokens", "build"}
          /\ art' = [art EXCEPT ![job.writes[1]] = Torn]
    /\ UNCHANGED <<text, args, changes>>

(* shutdownSystem: diagnostics_save writes the file of the diagnostics     *)
(* store, a row for each diagnostic where the store has groups.            *)
ShutDown ==
    /\ Disturbed
    /\ job.phase # "off"
    /\ job' = NoJob("off")
    /\ mem' = EmptyStores
    /\ audit' = "none"
    /\ art' = [art EXCEPT !.diags = Flat]
    /\ UNCHANGED <<text, args, changes>>

ArtifactsNext ==
    \/ \E f \in Texts : ChangeText(f)
    \/ ChangeArguments
    \/ StartProgram
    \/ FirstRunBegins
    \/ LaterRunBegins
    \/ \E f \in Texts : ScanFile(f)
    \/ AnalyzeFile
    \/ CancelRun
    \/ ScanEnds
    \/ WriteArtifact
    \/ \E f \in CFiles : AnalyzeBuffer(f)
    \/ Die
    \/ ShutDown

ArtifactsSpec == ArtifactsInit /\ [][ArtifactsNext]_artifactVars

-----------------------------------------------------------------------------
(* Properties.                                                             *)

(* A provenance record that counts as current is about the text the stored *)
(* diagnostics of its file were made from, but for the file whose results  *)
(* the worker is about to store (project_scan.c:364 and :371).  No cancel, *)
(* change of the file, run or start leaves the two apart for longer: an    *)
(* incremental run saves new diagnostics and leaves the saved provenance   *)
(* as it was, so what is loaded must not count                             *)
(* (analysis_provenance_store.c:413).                                      *)
ProvenanceStands ==
    \A f \in Texts : mem.prov[f].current /\ mem.diags[f] # 0 =>
        \/ mem.prov[f].of = mem.diags[f]
        \/ \E h \in job.hand : h.file = f /\ h.noted /\ h.of = mem.prov[f].of

(* Not so: between the two upserts the control panel                       *)
(* (render_control_panel.c:281) and a client that asks                     *)
(* (ide_ipc_query_helpers.c:119) may be told of current provenance beside  *)
(* the diagnostics of an older text.                                       *)
ProvenanceAlwaysStands ==
    \A f \in Texts : mem.prov[f].current /\ mem.diags[f] # 0
                         => mem.prov[f].of = mem.diags[f]

(* The audit and the run decide the same way, in code of their own: if     *)
(* nothing has changed since and no artifact is torn, empty or overwritten *)
(* by a shutdown, the run announced as incremental does not go full.       *)
AuditFollowed ==
    [][/\ job.phase = "asked" /\ job'.phase = "scan"
       /\ audit \in {"targets", "noop"}
       /\ \A name \in ArtifactNames : art[name] \notin {Torn, Flat}
       /\ {} \notin {art.symbols, art.graph, art.library} /\ art.diags # NoDiags
       => ~job'.full]_artifactVars

=============================================================================
