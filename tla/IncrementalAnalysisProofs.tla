--------------------- MODULE IncrementalAnalysisProofs ---------------------
(***************************************************************************)
(* Between runs, a file that the next run would pass over has up-to-date   *)
(* results in memory, and at every moment what is saved agrees with the    *)
(* snapshot that vouches for it: proofs for every workspace.               *)
(*                                                                         *)
(* Nothing is left out of what may happen.  What no later run can see      *)
(* (missed) ends the promise, and a full run that nothing of the kind      *)
(* happens in restores it.                                                 *)
(*                                                                         *)
(* Contents are numbered in the order in which they come about, so the     *)
(* snapshot saved, the one the run was planned with and the workspace are  *)
(* three moments in that order.  What was made from the first or the       *)
(* second and is the same in the third is up to date now.                  *)
(***************************************************************************)
EXTENDS IncrementalAnalysis, TLAPS

-----------------------------------------------------------------------------
(* The workspace, a store and a snapshot as values.                        *)

FactsIn(d, f) == [g \in Reads(f) |-> d[g]]

Made(d, store, f) ==
    store[f] \in {FactsIn(d, f), [FactsIn(d, f) EXCEPT ![f] = Unsaved]}

(* The files in which a plan finds nothing to do, they and the headers     *)
(* they are known to include being as they were.                           *)
Kept(d, edges, snapshot) ==
    {f \in Files : /\ d[f] # Absent /\ snapshot[f] = d[f]
                   /\ edges[f] # NotStored
                   /\ \A h \in edges[f] : snapshot[h] = d[h]}

(* What a store has of these, but for those still to visit, is up to date. *)
Good(d, store, edges, snapshot, todo) ==
    \A f \in Kept(d, edges, snapshot) \ todo : Made(d, store, f)

(* The graph has an edge to each header that is there, for every file that *)
(* did not change itself.                                                  *)
Edges(f) == Includes[f] \cap Files
Linked(d, edges, snapshot, todo) ==
    \A f \in Files \ todo :
        d[f] # Absent /\ snapshot[f] = d[f] =>
            /\ edges[f] # NotStored
            /\ edges[f] \subseteq Edges(f)
            /\ \A h \in Edges(f) : d[h] # Absent => h \in edges[f]

(* What is the same in the snapshot and the later workspace was so in      *)
(* between; a source that is gone is no matter.                            *)
Follows(earlier, later, snapshot) ==
    \A f \in Files :
        (later[f] # Absent \/ f \in Headers) /\ snapshot[f] = later[f]
            => earlier[f] = later[f]

NoneCame(earlier, later) ==
    \A h \in Headers : earlier[h] = Absent => later[h] = Absent

-----------------------------------------------------------------------------
(* The invariant.                                                          *)

(* Nothing was missed, or all that was comes before a full run, which      *)
(* makes up for it.                                                        *)
Sound == missed = {}
RunSound == "since" \notin missed /\ (Sound \/ (~Idle /\ run.full))

Shapes ==
    /\ disk \in Snapshot
    /\ edits \in Contents
    /\ DOMAIN diags = Files /\ DOMAIN symbols = Files
    /\ DOMAIN graph = Files /\ DOMAIN library = Files
    /\ saved = [diags |-> saved.diags, symbols |-> saved.symbols,
                graph |-> saved.graph, library |-> saved.library,
                snapshot |-> saved.snapshot, trusted |-> saved.trusted]
    /\ DOMAIN saved.diags = Files /\ DOMAIN saved.symbols = Files
    /\ DOMAIN saved.graph = Files /\ DOMAIN saved.library = Files
    /\ run \in [phase : Phases, full : BOOLEAN, current : Snapshot,
                todo : SUBSET Files]
    /\ cancel \in BOOLEAN
    /\ cut \in BOOLEAN
    /\ missed \subseteq {"before", "since"}

(* Nothing is younger than the last edit.                                  *)
Dated ==
    \A f \in Files : /\ disk[f] <= edits
                     /\ saved.snapshot # NotStored => saved.snapshot[f] <= edits
                     /\ run.current[f] <= edits

Plan == IF Idle THEN saved.snapshot ELSE run.current
Todo == IF run.phase = "scan" THEN run.todo ELSE {}

(* The snapshot saved, the plan of a run and the workspace are moments in  *)
(* this order; a full run sees one workspace throughout.                   *)
InOrder ==
    /\ saved.snapshot \in Snapshot \cup {NotStored}
    /\ run.phase = "library" => run.full
    /\ RunSound => NoneCame(Plan, disk)
    /\ RunSound /\ ~Idle /\ run.full => run.current = disk
    /\ Sound => /\ saved.snapshot \in Snapshot /\ saved.trusted = TRUE
                /\ NoneCame(saved.snapshot, disk)
                /\ Idle \/ Follows(run.current, disk, saved.snapshot)

StoresGood ==
    RunSound =>
        /\ Good(disk, diags, graph, Plan, Todo)
        /\ Good(disk, symbols, graph, Plan, Todo)
        /\ Linked(disk, graph, Plan, Todo)

(* A full run makes the library index anew, after the stores are saved.    *)
LibraryGood ==
    RunSound =>
        /\ Idle \/ ~run.full => cut \/ Good(disk, library, graph, Plan, Todo)
        /\ run.phase = "library" => cancel \/ Good(disk, library, graph, Plan, run.todo)
        /\ run.phase \in {"saveSnapshot", "saveMeta"} /\ run.full
                => cancel \/ Good(disk, library, graph, Plan, {})
        /\ run.phase = "saveLibrary" /\ run.full
                => Good(disk, library, graph, Plan, {})

SavedGood ==
    Sound =>
        /\ Good(disk, saved.diags, saved.graph, saved.snapshot, {})
        /\ Good(disk, saved.symbols, saved.graph, saved.snapshot, {})
        /\ Linked(disk, saved.graph, saved.snapshot, {})
        /\ run.phase \notin {"saveMeta", "saveLibrary"}
                => \/ cut
                   \/ run.phase \in {"library", "saveSnapshot"} /\ HeaderLost
                   \/ Good(disk, saved.library, saved.graph, saved.snapshot, {})

(* Edges are lost to headers that are gone, and no others come.            *)
EdgesShrink ==
    Sound => \A f \in Files \ Todo :
                disk[f] # Absent /\ saved.snapshot[f] = disk[f]
                    => graph[f] \subseteq saved.graph[f]

(* By the time the snapshot is saved, so is all that it vouches for.       *)
SavedInOrder ==
    RunSound =>
        /\ run.phase \notin {"idle", "scan", "saveDiags"}
                => Good(disk, saved.diags, graph, run.current, {})
        /\ run.phase \notin {"idle", "scan", "saveDiags", "saveSymbols"}
                => Good(disk, saved.symbols, graph, run.current, {})
        /\ run.phase \in {"library", "saveSnapshot", "saveMeta", "saveLibrary"}
                => saved.graph = graph
        /\ run.phase \in {"saveMeta", "saveLibrary"}
                => saved.snapshot = run.current
        /\ run.phase = "saveLibrary" => saved.trusted = TRUE

IncrementalInv ==
    /\ Shapes
    /\ Dated
    /\ InOrder
    /\ StoresGood
    /\ LibraryGood
    /\ SavedGood
    /\ EdgesShrink
    /\ SavedInOrder

-----------------------------------------------------------------------------
(* Workspaces, stores and snapshots.                                       *)

(* A file reads itself and headers.                                        *)
LEMMA ReadsAreFiles ==
    ASSUME NEW f \in Files
    PROVE  /\ f \in Reads(f)
           /\ \A g \in Reads(f) : g \in Files /\ (g = f \/ g \in Edges(f))
           /\ \A g \in Edges(f) : g \in Reads(f) /\ g \in Headers /\ g \in Files
BY IncrementalAssumption DEF Reads, Edges

(* What is good in a workspace stays so in a later one ...                 *)
LEMMA GoodLater ==
    ASSUME NEW d, NEW e, NEW store, NEW edges, NEW snapshot, NEW todo,
           Follows(d, e, snapshot), NoneCame(d, e), Linked(d, edges, snapshot, todo)
    PROVE  Good(d, store, edges, snapshot, todo) => Good(e, store, edges, snapshot, todo)
<1> SUFFICES ASSUME Good(d, store, edges, snapshot, todo),
                    NEW f \in Kept(e, edges, snapshot) \ todo
             PROVE  Made(e, store, f)
  BY DEF Good
<1>1. /\ f \in Files /\ f \notin todo /\ e[f] # Absent /\ snapshot[f] = e[f]
      /\ edges[f] # NotStored
      /\ \A h \in edges[f] : snapshot[h] = e[h]
  BY DEF Kept
<1>2. d[f] = e[f]
  BY <1>1 DEF Follows
<1>3. edges[f] \subseteq Edges(f) /\ \A h \in Edges(f) : d[h] # Absent => h \in edges[f]
  BY <1>1, <1>2 DEF Linked
<1>4. \A h \in edges[f] : d[h] = e[h]
  BY <1>1, <1>3, ReadsAreFiles DEF Follows
<1>5. \A g \in Reads(f) : d[g] = e[g]
  <2> SUFFICES ASSUME NEW g \in Edges(f), g \notin edges[f] PROVE d[g] = e[g]
    BY <1>1, <1>2, <1>4, ReadsAreFiles
  <2>1. d[g] = Absent /\ g \in Headers
    BY <1>1, <1>3, ReadsAreFiles
  <2> QED
    BY <2>1 DEF NoneCame
<1>6. f \in Kept(d, edges, snapshot) \ todo
  BY <1>1, <1>2, <1>4 DEF Kept
<1>7. FactsIn(d, f) = FactsIn(e, f)
  BY <1>5 DEF FactsIn
<1>8. Made(d, store, f)
  BY <1>6 DEF Good
<1> QED
  BY <1>7, <1>8 DEF Made

(* ... and what is good against a plan is so against an earlier snapshot,  *)
(* with the edges there were or with more of them.                         *)
LEMMA GoodEarlier ==
    ASSUME NEW d, NEW plan, NEW store, NEW edges, NEW older, NEW snapshot, NEW todo,
           Follows(plan, d, snapshot), Linked(d, older, snapshot, todo),
           Linked(d, edges, plan, todo),
           \A f \in Files \ todo : d[f] # Absent /\ snapshot[f] = d[f]
                                        => edges[f] \subseteq older[f]
    PROVE  Good(d, store, edges, plan, todo) => Good(d, store, older, snapshot, todo)
<1> SUFFICES ASSUME Good(d, store, edges, plan, todo),
                    NEW f \in Kept(d, older, snapshot) \ todo
             PROVE  Made(d, store, f)
  BY DEF Good
<1>1. /\ f \in Files /\ f \notin todo /\ d[f] # Absent /\ snapshot[f] = d[f]
      /\ \A h \in older[f] : snapshot[h] = d[h]
  BY DEF Kept
<1>2. plan[f] = d[f]
  BY <1>1 DEF Follows
<1>3. edges[f] # NotStored /\ edges[f] \subseteq Edges(f)
  BY <1>1, <1>2 DEF Linked
<1>4. \A h \in edges[f] : plan[h] = d[h]
  BY <1>1, <1>3, ReadsAreFiles DEF Follows
<1>5. f \in Kept(d, edges, plan) \ todo
  BY <1>1, <1>2, <1>3, <1>4 DEF Kept
<1> QED
  BY <1>5 DEF Good

LEMMA LinkedLater ==
    ASSUME NEW d, NEW e, NEW edges, NEW snapshot, NEW todo,
           Follows(d, e, snapshot), NoneCame(d, e)
    PROVE  Linked(d, edges, snapshot, todo) => Linked(e, edges, snapshot, todo)
<1> SUFFICES ASSUME Linked(d, edges, snapshot, todo),
                    NEW f \in Files \ todo, e[f] # Absent, snapshot[f] = e[f]
             PROVE  /\ edges[f] # NotStored
                    /\ edges[f] \subseteq Edges(f)
                    /\ \A h \in Edges(f) : e[h] # Absent => h \in edges[f]
  BY DEF Linked
<1>1. d[f] = e[f]
  BY DEF Follows
<1>2. \A h \in Edges(f) : e[h] # Absent => d[h] # Absent
  BY ReadsAreFiles DEF NoneCame
<1> QED
  BY <1>1, <1>2 DEF Linked

LEMMA LinkedEarlier ==
    ASSUME NEW d, NEW plan, NEW edges, NEW snapshot, NEW todo,
           Follows(plan, d, snapshot)
    PROVE  Linked(d, edges, plan, todo) => Linked(d, edges, snapshot, todo)
BY DEF Linked, Follows

(* A file that is visited, or is not there, need not be visited any more.  *)
LEMMA GoodVisited ==
    ASSUME NEW d, NEW store, NEW edges, NEW snapshot, NEW todo, NEW f \in Files,
           NEW facts, NEW new, DOMAIN store = Files, DOMAIN edges = Files,
           d[f] = Absent \/ facts \in {FactsIn(d, f), [FactsIn(d, f) EXCEPT ![f] = Unsaved]}
    PROVE  Good(d, store, edges, snapshot, todo)
                => /\ Good(d, [store EXCEPT ![f] = facts], [edges EXCEPT ![f] = new],
                           snapshot, todo \ {f})
                   /\ Good(d, [store EXCEPT ![f] = facts], edges, snapshot, todo \ {f})
<1> DEFINE next == [store EXCEPT ![f] = facts]
           linked == [edges EXCEPT ![f] = new]
<1> SUFFICES ASSUME Good(d, store, edges, snapshot, todo),
                    NEW after \in {linked, edges},
                    NEW g \in Kept(d, after, snapshot) \ (todo \ {f})
             PROVE  Made(d, next, g)
  BY DEF Good
<1>1. g \in Files /\ d[g] # Absent
  BY DEF Kept
<1>2. CASE g = f
  BY <1>1, <1>2 DEF Made
<1>3. CASE g # f
  <2>1. after[g] = edges[g] /\ next[g] = store[g]
    BY <1>1, <1>3
  <2>2. g \in Kept(d, edges, snapshot) \ todo
    BY <1>3, <2>1 DEF Kept
  <2> QED
    BY <2>1, <2>2 DEF Good, Made
<1> QED
  BY <1>2, <1>3

LEMMA LinkedVisited ==
    ASSUME NEW d, NEW edges, NEW snapshot, NEW todo, NEW f \in Files, NEW new,
           DOMAIN edges = Files,
           \/ d[f] = Absent
           \/ /\ new # NotStored /\ new \subseteq Edges(f)
              /\ \A h \in Edges(f) : d[h] # Absent => h \in new
    PROVE  Linked(d, edges, snapshot, todo)
                => Linked(d, [edges EXCEPT ![f] = new], snapshot, todo \ {f})
<1> SUFFICES ASSUME Linked(d, edges, snapshot, todo),
                    NEW g \in Files \ (todo \ {f}), d[g] # Absent, snapshot[g] = d[g]
             PROVE  LET after == [edges EXCEPT ![f] = new]
                    IN /\ after[g] # NotStored
                       /\ after[g] \subseteq Edges(g)
                       /\ \A h \in Edges(g) : d[h] # Absent => h \in after[g]
  BY DEF Linked
<1>1. CASE g = f
  BY <1>1
<1>2. CASE g # f
  BY <1>2 DEF Linked
<1> QED
  BY <1>1, <1>2

(* Those that are gone need no visit.                                      *)
LEMMA GoodGone ==
    ASSUME NEW d, NEW store, NEW edges, NEW snapshot, NEW todo, NEW f, d[f] = Absent
    PROVE  Good(d, store, edges, snapshot, todo)
                => Good(d, store, edges, snapshot, todo \ {f})
BY DEF Good, Kept

LEMMA LinkedGone ==
    ASSUME NEW d, NEW edges, NEW snapshot, NEW todo, NEW f, d[f] = Absent
    PROVE  Linked(d, edges, snapshot, todo) => Linked(d, edges, snapshot, todo \ {f})
BY DEF Linked

(* With all files to visit there is nothing to show.                       *)
LEMMA AllToVisit ==
    ASSUME NEW d, NEW store, NEW edges, NEW snapshot
    PROVE  Good(d, store, edges, snapshot, Files) /\ Linked(d, edges, snapshot, Files)
BY DEF Good, Linked, Kept

LEMMA ResolvedEdges ==
    ASSUME NEW f \in Files
    PROVE  /\ Resolved(f) # NotStored /\ Resolved(f) \subseteq Edges(f)
           /\ \A h \in Edges(f) : disk[h] # Absent => h \in Resolved(f)
           /\ \A h \in Resolved(f) : disk[h] # Absent
<1>1. Resolved(f) \subseteq Edges(f)
  BY DEF Resolved, Edges, Present
<1>2. Resolved(f) \in SUBSET Headers
  BY <1>1, ReadsAreFiles
<1>3. Resolved(f) # NotStored
  BY <1>2, IncrementalAssumption
<1> QED
  BY <1>1, <1>3 DEF Resolved, Edges, Present

LEMMA FactsAreFacts ==
    ASSUME NEW f \in Files
    PROVE  Facts(f) = FactsIn(disk, f)
BY DEF Facts, FactsIn

LEMMA FollowsFurther ==
    ASSUME NEW c, NEW d, NEW e, NEW snapshot, Follows(d, e, snapshot),
           Follows(c, d, snapshot)
    PROVE  Follows(c, e, snapshot)
BY DEF Follows

(* What the invariant says once something was missed, and no full run has  *)
(* begun since.                                                            *)
LEMMA Unsound ==
    ASSUME Shapes', Dated', saved'.snapshot \in Snapshot \cup {NotStored},
           run'.phase = "library" => run'.full, ~RunSound'
    PROVE  IncrementalInv'
<1>1. ~Sound'
  BY DEF RunSound, Sound
<1> QED
  BY <1>1 DEF IncrementalInv, InOrder, StoresGood, LibraryGood, SavedGood, EdgesShrink,
              SavedInOrder

-----------------------------------------------------------------------------
(* The workspace changes.                                                  *)

LEMMA NumbersOf ==
    /\ \A s \in Snapshot : DOMAIN s = Files /\ \A f \in Files : s[f] \in Nat
    /\ \A n \in Contents : n \in Nat
    /\ Absent = 0
    /\ NotStored \notin Snapshot
<1>1. \A n \in Contents : n \in Nat
  BY IncrementalAssumption DEF Contents
<1>2. Snapshot \subseteq [Files -> Nat]
  BY <1>1 DEF Snapshot
<1> QED
  BY <1>1, <1>2, IncrementalAssumption DEF Absent

(* What changed is younger than all snapshots, or gone.                    *)
LEMMA ChangeIsLater ==
    ASSUME Shapes, Dated, InOrder, NEW f \in Files, Edit(f) \/ Delete(f)
    PROVE  /\ Dated'
           /\ disk' \in Snapshot /\ edits' \in Contents
           /\ "since" \notin missed' =>
                /\ NoneCame(disk, disk')
                /\ \A v \in {run.current, saved.snapshot} :
                        v \in Snapshot /\ NoneCame(v, disk) => Follows(disk, disk', v)
<1>0. /\ run.current \in Snapshot /\ disk \in Snapshot
      /\ edits \in Nat /\ MaxEdits \in Nat
      /\ \A g \in Files : disk[g] \in Nat /\ run.current[g] \in Nat
      /\ UNCHANGED <<saved, run>>
  BY NumbersOf, IncrementalAssumption DEF Shapes, Edit, Delete, stores
<1>1. /\ edits' = edits + 1 /\ edits <= MaxEdits
      /\ \/ disk' = [disk EXCEPT ![f] = edits + 1]
            /\ missed' = missed \cup (IF run.full \/ f \in Headers \ Present THEN {"since"} ELSE {})
         \/ disk' = [disk EXCEPT ![f] = Absent]
  <2>1. MayChange
    BY DEF Edit, Delete
  <2>2. edits <= MaxEdits
    BY <2>1 DEF MayChange
  <2>3. CASE Edit(f)
    <3>1. edits' = edits + 1 /\ disk' = [disk EXCEPT ![f] = edits']
      BY <2>3 DEF Edit
    <3>2. missed' = missed \cup (IF run.full \/ f \in Headers \ Present THEN {"since"} ELSE {})
      BY <2>3 DEF Edit, Missed
    <3> QED
      BY <2>2, <3>1, <3>2
  <2>4. CASE Delete(f)
    BY <2>2, <2>4 DEF Delete
  <2> QED
    BY <2>3, <2>4
<1>2. edits' \in Nat /\ edits' \in Contents /\ 0 \in Contents /\ edits < edits'
  BY <1>0, <1>1 DEF Contents
<1>3. disk' \in Snapshot
  BY <1>0, <1>1, <1>2 DEF Snapshot, Absent
<1>4. \A g \in Files : g # f => disk'[g] = disk[g]
  BY <1>0, <1>1 DEF Snapshot
<1>5. \/ disk'[f] = Absent
      \/ disk'[f] = edits' /\ ("since" \notin missed' => f \notin Headers \/ disk[f] # Absent)
  BY <1>0, <1>1 DEF Snapshot, Present
<1>6. \A g \in Files : /\ disk'[g] <= edits'
                       /\ saved.snapshot # NotStored => saved.snapshot[g] < edits'
                       /\ run.current[g] < edits'
  <2>1. \A g \in Files : saved.snapshot # NotStored => saved.snapshot[g] \in Nat
    BY NumbersOf DEF InOrder
  <2> QED
    BY <1>0, <1>1, <1>2, <1>4, <1>5, <2>1 DEF Dated, Absent
<1>7. Dated'
  <2>1. \A g \in Files : saved.snapshot # NotStored => saved.snapshot[g] <= edits'
    <3>1. \A g \in Files : saved.snapshot # NotStored => saved.snapshot[g] \in Nat
      BY NumbersOf DEF InOrder
    <3> QED
      BY <1>2, <1>6, <3>1
  <2> QED
    BY <1>0, <1>2, <1>6, <2>1 DEF Dated
<1>8. ASSUME "since" \notin missed' PROVE NoneCame(disk, disk')
  BY <1>4, <1>5, <1>8, IncrementalAssumption DEF NoneCame
<1>9. ASSUME "since" \notin missed', NEW v \in {run.current, saved.snapshot},
             v \in Snapshot, NoneCame(v, disk)
      PROVE  Follows(disk, disk', v)
  <2> SUFFICES ASSUME NEW g \in Files, disk'[g] # Absent \/ g \in Headers, v[g] = disk'[g]
               PROVE  disk[g] = disk'[g]
    BY DEF Follows
  <2>1. v[g] \in Nat /\ v[g] < edits'
    BY <1>0, <1>6, <1>9, NumbersOf
  <2>2. CASE g # f
    BY <1>4, <2>2
  <2>3. CASE g = f
    <3>1. disk'[g] = Absent
      BY <1>2, <1>5, <2>1, <2>3
    <3> QED
      BY <1>9, <3>1 DEF NoneCame
  <2> QED
    BY <2>2, <2>3
<1> QED
  BY <1>2, <1>3, <1>7, <1>8, <1>9

LEMMA ChangeStep ==
    ASSUME IncrementalInv, NEW f \in Files, Edit(f) \/ Delete(f)
    PROVE  IncrementalInv'
<1>0. Shapes /\ Dated /\ InOrder
  BY DEF IncrementalInv
<1>1. /\ UNCHANGED <<diags, symbols, graph, library, saved, run, cancel, cut>>
      /\ missed' \in {missed, missed \cup {"since"}}
      /\ run.full => missed' = missed \cup {"since"}
  BY DEF Edit, Delete, Missed, stores
<1>2. /\ missed' \subseteq {"before", "since"}
      /\ "since" \notin missed' => missed' = missed /\ ~run.full
  BY <1>0, <1>1 DEF Shapes
<1>3. Dated' /\ disk' \in Snapshot /\ edits' \in Contents
  BY <1>0, ChangeIsLater
<1>4. Shapes'
  BY <1>0, <1>1, <1>2, <1>3 DEF Shapes
<1>5. CASE ~RunSound'
  BY <1>0, <1>1, <1>3, <1>4, <1>5, Unsound DEF InOrder
<1>6. CASE RunSound'
  <2>1. missed' = missed /\ ~run.full /\ "since" \notin missed'
    BY <1>2, <1>6 DEF RunSound
  <2>2. Sound' /\ Sound /\ RunSound /\ (Idle' <=> Idle)
    BY <1>1, <1>6, <2>1 DEF Sound, RunSound, Idle
  <2>3. /\ saved.snapshot \in Snapshot /\ saved.trusted = TRUE
        /\ NoneCame(saved.snapshot, disk) /\ NoneCame(Plan, disk)
        /\ Idle \/ Follows(run.current, disk, saved.snapshot)
        /\ Plan \in {saved.snapshot, run.current} /\ Plan \in Snapshot
        /\ ~Idle => Plan = run.current
    BY <1>0, <2>2 DEF InOrder, Plan, Shapes
  <2>4. Plan' = Plan /\ Todo' = Todo
    BY <1>1, <2>2 DEF Plan, Todo
  <2>5. /\ NoneCame(disk, disk')
        /\ Follows(disk, disk', saved.snapshot)
        /\ Follows(disk, disk', Plan)
    BY <1>0, <2>1, <2>3, ChangeIsLater
  <2>6. /\ \A s, e, v, t : v \in {saved.snapshot, Plan} /\ Linked(disk, e, v, t) =>
                (Good(disk, s, e, v, t) => Good(disk', s, e, v, t))
        /\ \A e, v, t : v \in {saved.snapshot, Plan} =>
                (Linked(disk, e, v, t) => Linked(disk', e, v, t))
    BY <2>5, GoodLater, LinkedLater
  <2>7. /\ Linked(disk, graph, Plan, Todo)
        /\ Linked(disk, saved.graph, saved.snapshot, {})
    BY <2>2 DEF IncrementalInv, StoresGood, SavedGood
  <2>8. InOrder'
    <3>1. NoneCame(saved.snapshot, disk') /\ NoneCame(Plan, disk')
      BY <2>3, <2>5 DEF NoneCame
    <3>2. Idle \/ Follows(run.current, disk', saved.snapshot)
      BY <2>3, <2>5, FollowsFurther
    <3> QED
      BY <1>0, <1>1, <2>1, <2>2, <2>3, <2>4, <3>1, <3>2 DEF InOrder
  <2>9. StoresGood'
    BY <1>1, <2>2, <2>4, <2>6, <2>7 DEF IncrementalInv, StoresGood
  <2>10. LibraryGood'
    <3>1. run.phase # "library"
      BY <1>0, <2>1 DEF InOrder
    <3> QED
      BY <1>1, <2>1, <2>2, <2>4, <2>6, <2>7, <3>1 DEF IncrementalInv, LibraryGood
  <2>11. SavedGood'
    <3>1. HeaderLost => HeaderLost'
      <4> SUFFICES ASSUME NEW h \in Headers, h \in Files, disk[h] = Absent,
                          saved.snapshot[h] # Absent
                   PROVE  disk'[h] = Absent
        BY <1>1, <2>3, IncrementalAssumption DEF HeaderLost, Removed, Present
      <4> QED
        BY <2>5 DEF NoneCame
    <3> QED
      BY <1>1, <2>2, <2>6, <2>7, <3>1 DEF IncrementalInv, SavedGood
  <2>12. EdgesShrink'
    BY <1>1, <2>2, <2>4, <2>5 DEF IncrementalInv, EdgesShrink, Follows
  <2>13. SavedInOrder'
    <3>1. run.phase \notin {"idle", "scan"} => Plan = run.current /\ Todo = {}
      BY DEF Plan, Todo, Idle
    <3>2. \A s : run.phase \notin {"idle", "scan"} /\ Good(disk, s, graph, run.current, {})
                        => Good(disk', s, graph, run.current, {})
      BY <2>6, <2>7, <3>1
    <3> QED
      BY <1>1, <2>2, <3>2 DEF IncrementalInv, SavedInOrder
  <2> QED
    BY <1>3, <1>4, <2>8, <2>9, <2>10, <2>11, <2>12, <2>13 DEF IncrementalInv
<1> QED
  BY <1>5, <1>6

-----------------------------------------------------------------------------
(* A run begins.                                                           *)

(* A file that is there and no target has not changed, nor has any header  *)
(* it is known to include: it was neither changed nor removed.             *)
LEMMA OthersAreKept ==
    ASSUME Shapes, saved.snapshot \in Snapshot, NoneCame(saved.snapshot, disk),
           Linked(disk, graph, saved.snapshot, {}),
           NEW f \in Present \ Targets
    PROVE  /\ f \in Kept(disk, graph, saved.snapshot)
           /\ saved.snapshot[f] = disk[f] /\ f \in Files /\ disk[f] # Absent
           /\ f \notin Removed
<1>1. f \in Files /\ disk[f] # Absent /\ f \notin Dirty /\ f \notin Removed
  BY DEF Present, Targets, Removed
<1>2. saved.snapshot[f] = disk[f]
  BY <1>1 DEF Dirty, Present
<1>3. graph[f] # NotStored /\ graph[f] \subseteq Edges(f)
  BY <1>1, <1>2 DEF Linked
<1>4. graph[f] \cap Dirty = {} /\ graph[f] \cap Removed = {}
  BY <1>1, <1>3 DEF Targets, Dependents
<1>5. ASSUME NEW h \in graph[f] PROVE saved.snapshot[h] = disk[h]
  <2>1. h \in Files /\ h \notin Dirty /\ h \notin Removed
    BY <1>1, <1>3, <1>4, ReadsAreFiles
  <2>2. CASE disk[h] # Absent
    BY <2>1, <2>2 DEF Dirty, Present
  <2>3. CASE disk[h] = Absent
    BY <2>1, <2>3 DEF Removed, Present
  <2> QED
    BY <2>2, <2>3
<1> QED
  BY <1>1, <1>2, <1>3, <1>5 DEF Kept

(* So what the stores have of the others is good against the new plan.     *)
LEMMA TargetsSuffice ==
    ASSUME Shapes, saved.snapshot \in Snapshot, NoneCame(saved.snapshot, disk),
           Linked(disk, graph, saved.snapshot, {}),
           NEW edges, edges = Without(graph, Removed)
    PROVE  /\ \A s : Good(disk, s, graph, saved.snapshot, {})
                        => Good(disk, Without(s, Removed), edges, disk, Targets)
           /\ Linked(disk, edges, disk, Targets)
<1>1. ASSUME NEW f \in Files \ Targets, disk[f] # Absent
      PROVE  /\ f \in Kept(disk, graph, saved.snapshot) \ {}
             /\ saved.snapshot[f] = disk[f]
             /\ \A s : Without(s, Removed)[f] = s[f]
  <2>1. f \in Present \ Targets
    BY <1>1 DEF Present
  <2> QED
    BY <2>1, OthersAreKept DEF Without
<1>2. ASSUME NEW s, Good(disk, s, graph, saved.snapshot, {}),
             NEW f \in Kept(disk, edges, disk) \ Targets
      PROVE  Made(disk, Without(s, Removed), f)
  <2>1. f \in Files \ Targets /\ disk[f] # Absent
    BY DEF Kept
  <2>2. Made(disk, s, f)
    BY <1>1, <1>2, <2>1 DEF Good
  <2> QED
    BY <1>1, <2>1, <2>2 DEF Made
<1>3. Linked(disk, edges, disk, Targets)
  <2> SUFFICES ASSUME NEW f \in Files \ Targets, disk[f] # Absent
               PROVE  /\ edges[f] # NotStored
                      /\ edges[f] \subseteq Edges(f)
                      /\ \A h \in Edges(f) : disk[h] # Absent => h \in edges[f]
    BY DEF Linked
  <2>1. edges[f] = graph[f] /\ saved.snapshot[f] = disk[f]
    BY <1>1
  <2> QED
    BY <2>1 DEF Linked
<1>4. \A s : Good(disk, s, graph, saved.snapshot, {})
                => Good(disk, Without(s, Removed), edges, disk, Targets)
  BY <1>2 DEF Good
<1> QED
  BY <1>3, <1>4

LEMMA StartStep ==
    ASSUME IncrementalInv, NEW forced \in BOOLEAN, StartRun(forced)
    PROVE  IncrementalInv'
<1>0. Shapes /\ Dated /\ InOrder /\ Idle
  BY DEF IncrementalInv, StartRun
<1>1. /\ UNCHANGED <<disk, edits, saved, cut>> /\ cancel' = FALSE
      /\ \E gone : StartFull(gone)
         \/ StartIncremental
      /\ missed' = IF missed = {} THEN {} ELSE {"before"}
  BY DEF StartRun
<1>2. PICK full \in BOOLEAN, todo \in SUBSET Files :
            /\ run' = [phase |-> "scan", full |-> full, current |-> disk, todo |-> todo]
            /\ DOMAIN diags' = Files /\ DOMAIN symbols' = Files
            /\ DOMAIN graph' = Files /\ DOMAIN library' = Files
            /\ full \/ Sound =>
                /\ Good(disk, diags', graph', disk, todo)
                /\ Good(disk, symbols', graph', disk, todo)
                /\ Linked(disk, graph', disk, todo)
                /\ full \/ cut \/ Good(disk, library', graph', disk, todo)
                /\ \A f \in Files \ todo : disk[f] # Absent => graph'[f] = graph[f]
  <2>1. CASE \E gone : StartFull(gone)
    <3>1. PICK gone : StartFull(gone)
      BY <2>1
    <3>2. /\ run' = [phase |-> "scan", full |-> TRUE, current |-> disk, todo |-> Files]
          /\ DOMAIN diags' = Files /\ DOMAIN symbols' = Files
          /\ DOMAIN graph' = Files /\ DOMAIN library' = Files
      BY <3>1 DEF StartFull, Empty, Without
    <3> QED
      BY <3>2, AllToVisit
  <2>2. CASE StartIncremental
    <3>1. /\ run' = [phase |-> "scan", full |-> FALSE, current |-> disk, todo |-> Targets]
          /\ diags' = Without(diags, Removed) /\ symbols' = Without(symbols, Removed)
          /\ graph' = Without(graph, Removed) /\ library' = Without(library, Removed)
      BY <2>2 DEF StartIncremental
    <3>2. /\ DOMAIN diags' = Files /\ DOMAIN symbols' = Files
          /\ DOMAIN graph' = Files /\ DOMAIN library' = Files
      BY <3>1 DEF Without
    <3>3. Targets \in SUBSET Files
      BY DEF Targets, Dirty, Dependents, Present
    <3>4. ASSUME Sound
          PROVE  /\ Good(disk, diags', graph', disk, Targets)
                 /\ Good(disk, symbols', graph', disk, Targets)
                 /\ Linked(disk, graph', disk, Targets)
                 /\ cut \/ Good(disk, library', graph', disk, Targets)
                 /\ \A f \in Files \ Targets : disk[f] # Absent => graph'[f] = graph[f]
      <4>1. RunSound
        BY <3>4 DEF RunSound, Sound
      <4>2. /\ Good(disk, diags, graph, saved.snapshot, {})
            /\ Good(disk, symbols, graph, saved.snapshot, {})
            /\ Linked(disk, graph, saved.snapshot, {})
            /\ cut \/ Good(disk, library, graph, saved.snapshot, {})
        BY <1>0, <4>1 DEF IncrementalInv, StoresGood, LibraryGood, Plan, Todo, Idle
      <4>3. saved.snapshot \in Snapshot /\ NoneCame(saved.snapshot, disk)
        BY <1>0, <3>4 DEF InOrder
      <4>4. ASSUME NEW f \in Files \ Targets, disk[f] # Absent PROVE graph'[f] = graph[f]
        BY <3>1, <4>4 DEF Without, Removed, Present
      <4> QED
        BY <1>0, <3>1, <4>2, <4>3, <4>4, TargetsSuffice
    <3> QED
      BY <3>1, <3>2, <3>3, <3>4
  <2> QED
    BY <1>1, <2>1, <2>2
<1>3. /\ run'.phase = "scan" /\ run'.full = full /\ run'.current = disk
      /\ run'.todo = todo /\ ~Idle'
  BY <1>2 DEF Idle
<1>4. Plan' = disk /\ Todo' = todo
  BY <1>3 DEF Plan, Todo
<1>5. /\ Sound' <=> Sound
      /\ RunSound' => full \/ Sound
  BY <1>1, <1>3 DEF RunSound, Sound
<1>6. Shapes'
  <2>1. run' \in [phase : Phases, full : BOOLEAN, current : Snapshot, todo : SUBSET Files]
    BY <1>0, <1>2 DEF Phases, Shapes
  <2> QED
    BY <1>0, <1>1, <1>2, <2>1 DEF Shapes
<1>7. Dated'
  BY <1>0, <1>1, <1>3 DEF Dated
<1>8. InOrder'
  BY <1>0, <1>1, <1>3, <1>4, <1>5 DEF InOrder, NoneCame, Follows
<1>9. StoresGood'
  BY <1>1, <1>2, <1>4, <1>5 DEF StoresGood
<1>10. LibraryGood'
  BY <1>1, <1>2, <1>3, <1>4, <1>5 DEF LibraryGood
<1>11. SavedGood'
  BY <1>0, <1>1, <1>3, <1>5 DEF IncrementalInv, SavedGood, Idle
<1>12. EdgesShrink'
  BY <1>0, <1>1, <1>2, <1>4, <1>5 DEF IncrementalInv, EdgesShrink, Todo, Idle
<1>13. SavedInOrder'
  BY <1>3 DEF SavedInOrder
<1> QED
  BY <1>6, <1>7, <1>8, <1>9, <1>10, <1>11, <1>12, <1>13 DEF IncrementalInv

-----------------------------------------------------------------------------
(* A scan goes on.                                                         *)

LEMMA SameWorkspace ==
    ASSUME Shapes, Dated, UNCHANGED <<disk, edits>>,
           run'.current \in {run.current, NoRun.current},
           saved'.snapshot \in {saved.snapshot, run.current}
    PROVE  Dated'
<1>1. \A f \in Files : NoRun.current[f] <= edits
  BY NumbersOf DEF NoRun, Absent, Shapes
<1> QED
  BY <1>1 DEF Dated

LEMMA LiveRunStep ==
    ASSUME IncrementalInv, NEW f \in Opened, LiveRun(f)
    PROVE  IncrementalInv'
<1> DEFINE facts == [Facts(f) EXCEPT ![f] = Unsaved]
<1>0. Shapes /\ Dated /\ InOrder /\ Idle /\ f \in Files
  BY IncrementalAssumption DEF IncrementalInv, LiveRun
<1>1. /\ UNCHANGED <<disk, edits, saved, run, cut, missed>> /\ cancel' = FALSE
      /\ diags' = [diags EXCEPT ![f] = facts]
      /\ symbols' = [symbols EXCEPT ![f] = facts]
      /\ graph' = [graph EXCEPT ![f] = Resolved(f)]
      /\ library' = [library EXCEPT ![f] = facts]
  BY <1>0 DEF LiveRun, Record, Relist
<1>2. facts \in {FactsIn(disk, f), [FactsIn(disk, f) EXCEPT ![f] = Unsaved]}
  BY <1>0, FactsAreFacts
<1>3. /\ Plan = saved.snapshot /\ Todo = {} /\ Plan' = Plan /\ Todo' = Todo /\ Idle'
      /\ run'.phase = "idle" /\ run.phase = "idle"
      /\ (Sound' <=> Sound) /\ (RunSound' <=> Sound) /\ (RunSound <=> Sound)
  BY <1>0, <1>1 DEF Plan, Todo, Idle, Sound, RunSound
<1> HIDE DEF facts
<1>4. /\ \A s : DOMAIN s = Files /\ Good(disk, s, graph, Plan, {})
                    => Good(disk, [s EXCEPT ![f] = facts], graph', Plan, {})
      /\ Linked(disk, graph, Plan, {}) => Linked(disk, graph', Plan, {})
  <2>1. {} \ {f} = {}
    OBVIOUS
  <2>2. \A s : DOMAIN s = Files /\ Good(disk, s, graph, Plan, {})
                    => Good(disk, [s EXCEPT ![f] = facts], [graph EXCEPT ![f] = Resolved(f)],
                            Plan, {} \ {f})
    BY <1>0, <1>2, GoodVisited DEF Shapes
  <2>3. Linked(disk, graph, Plan, {})
            => Linked(disk, [graph EXCEPT ![f] = Resolved(f)], Plan, {} \ {f})
    BY <1>0, LinkedVisited, ResolvedEdges DEF Shapes
  <2> QED
    BY <1>1, <2>1, <2>2, <2>3
<1>5. Shapes'
  BY <1>0, <1>1 DEF Shapes
<1>6. Dated' /\ InOrder'
  BY <1>0, <1>1, <1>3, SameWorkspace DEF InOrder
<1>7. SavedInOrder'
  BY <1>3 DEF SavedInOrder
<1>8. StoresGood'
  BY <1>0, <1>1, <1>3, <1>4 DEF IncrementalInv, StoresGood, Shapes
<1>9. LibraryGood'
  BY <1>0, <1>1, <1>3, <1>4 DEF IncrementalInv, LibraryGood, Shapes
<1>10. SavedGood'
  BY <1>1, <1>3 DEF IncrementalInv, SavedGood
<1>11. EdgesShrink'
  <2> SUFFICES ASSUME Sound, NEW g \in Files, disk[g] # Absent, saved.snapshot[g] = disk[g]
               PROVE  graph'[g] \subseteq saved.graph[g]
    BY <1>1, <1>3 DEF EdgesShrink
  <2>1. CASE g = f
    <3>1. Linked(disk, saved.graph, saved.snapshot, {})
      BY DEF IncrementalInv, SavedGood
    <3> QED
      BY <1>0, <1>1, <2>1, <3>1, ResolvedEdges DEF Linked, Shapes
  <2>2. CASE g # f
    BY <1>0, <1>1, <1>3, <2>2 DEF IncrementalInv, EdgesShrink, Shapes
  <2> QED
    BY <2>1, <2>2
<1> QED
  BY <1>5, <1>6, <1>7, <1>8, <1>9, <1>10, <1>11 DEF IncrementalInv


LEMMA VisitStep ==
    ASSUME IncrementalInv, NEW f \in Files, Visit(f)
    PROVE  IncrementalInv'
<1> DEFINE facts == IF f \in Present THEN Facts(f) ELSE NotStored
           edges == IF f \in Present THEN Resolved(f) ELSE NotStored
<1>0. Shapes /\ Dated /\ ~Idle /\ run.phase = "scan" /\ ~cancel /\ f \in run.todo
  BY DEF IncrementalInv, Visit, Idle
<1>1. /\ UNCHANGED <<disk, edits, saved, cancel, cut, missed>>
      /\ run' = [run EXCEPT !.todo = @ \ {f}]
      /\ IF run.full /\ f \notin Present THEN UNCHANGED <<diags, symbols, graph>>
             ELSE Record(f, facts, edges)
      /\ IF run.full THEN UNCHANGED library ELSE Relist(f, facts)
  BY DEF Visit
<1>2. disk[f] = Absent \/ facts \in {FactsIn(disk, f), [FactsIn(disk, f) EXCEPT ![f] = Unsaved]}
  BY <1>0, FactsAreFacts DEF Present
<1>3. /\ f \notin Present => disk[f] = Absent
      /\ f \in Present => edges = Resolved(f)
  BY DEF Present
<1>4. \/ disk[f] = Absent
      \/ /\ edges # NotStored /\ edges \subseteq Edges(f)
         /\ \A h \in Edges(f) : disk[h] # Absent => h \in edges
         /\ \A h \in edges : disk[h] # Absent
  BY <1>3, ResolvedEdges
<1> HIDE DEF facts, edges
<1>5. /\ run'.phase = "scan" /\ run'.full = run.full /\ run'.current = run.current
      /\ run'.todo = run.todo \ {f} /\ ~Idle'
      /\ Plan = run.current /\ Plan' = run.current
      /\ Todo = run.todo /\ Todo' = run.todo \ {f}
      /\ run' \in [phase : Phases, full : BOOLEAN, current : Snapshot,
                   todo : SUBSET Files]
      /\ (Sound' <=> Sound) /\ (RunSound' <=> RunSound)
  BY <1>0, <1>1 DEF Shapes, Plan, Todo, Idle, Sound, RunSound
<1>6. /\ \A s : DOMAIN s = Files /\ Good(disk, s, graph, Plan, Todo)
                    => Good(disk, [s EXCEPT ![f] = facts], [graph EXCEPT ![f] = edges],
                            Plan, Todo')
      /\ Linked(disk, graph, Plan, Todo)
                    => Linked(disk, [graph EXCEPT ![f] = edges], Plan, Todo')
  <2>1. \A s : DOMAIN s = Files /\ Good(disk, s, graph, Plan, Todo)
                    => Good(disk, [s EXCEPT ![f] = facts], [graph EXCEPT ![f] = edges],
                            Plan, Todo \ {f})
    BY <1>0, <1>2, GoodVisited DEF Shapes
  <2>2. Linked(disk, graph, Plan, Todo)
                    => Linked(disk, [graph EXCEPT ![f] = edges], Plan, Todo \ {f})
    BY <1>0, <1>4, LinkedVisited DEF Shapes
  <2> QED
    BY <1>5, <2>1, <2>2
<1>7. /\ f \notin Present => \A s : Good(disk, s, graph, Plan, Todo)
                                        => Good(disk, s, graph, Plan, Todo')
      /\ f \notin Present => (Linked(disk, graph, Plan, Todo)
                                => Linked(disk, graph, Plan, Todo'))
  BY <1>3, <1>5, GoodGone, LinkedGone
<1>8. /\ DOMAIN diags' = Files /\ DOMAIN symbols' = Files
      /\ DOMAIN graph' = Files /\ DOMAIN library' = Files
  BY <1>0, <1>1 DEF Shapes, Record, Relist
<1>9. Shapes'
  BY <1>0, <1>1, <1>5, <1>8 DEF Shapes
<1>10. Dated'
  BY <1>0, <1>1, <1>5, SameWorkspace
<1>11. InOrder'
  BY <1>0, <1>1, <1>5 DEF IncrementalInv, InOrder
<1>12. StoresGood'
  <2> SUFFICES ASSUME RunSound
               PROVE  /\ Good(disk, diags', graph', Plan, Todo')
                      /\ Good(disk, symbols', graph', Plan, Todo')
                      /\ Linked(disk, graph', Plan, Todo')
    BY <1>1, <1>5 DEF StoresGood
  <2>0. /\ Good(disk, diags, graph, Plan, Todo) /\ Good(disk, symbols, graph, Plan, Todo)
        /\ Linked(disk, graph, Plan, Todo)
    BY DEF IncrementalInv, StoresGood
  <2>1. CASE run.full /\ f \notin Present
    BY <1>1, <1>7, <2>0, <2>1
  <2>2. CASE ~(run.full /\ f \notin Present)
    <3>1. /\ diags' = [diags EXCEPT ![f] = facts]
          /\ symbols' = [symbols EXCEPT ![f] = facts]
          /\ graph' = [graph EXCEPT ![f] = edges]
      BY <1>1, <2>2 DEF Record
    <3> QED
      BY <1>0, <1>6, <2>0, <3>1 DEF Shapes
  <2> QED
    BY <2>1, <2>2
<1>13. LibraryGood'
  <2>1. CASE run.full
    BY <1>5, <2>1 DEF LibraryGood
  <2>2. CASE ~run.full
    <3>1. library' = [library EXCEPT ![f] = facts] /\ graph' = [graph EXCEPT ![f] = edges]
      BY <1>1, <2>2 DEF Relist, Record
    <3>2. RunSound => cut \/ Good(disk, library, graph, Plan, Todo)
      BY <2>2 DEF IncrementalInv, LibraryGood
    <3> QED
      BY <1>0, <1>1, <1>5, <1>6, <2>2, <3>1, <3>2 DEF LibraryGood, Shapes
  <2> QED
    BY <2>1, <2>2
<1>14. SavedGood'
  BY <1>0, <1>1, <1>5 DEF IncrementalInv, SavedGood
<1>15. EdgesShrink'
  <2> SUFFICES ASSUME Sound, NEW g \in Files \ Todo', disk[g] # Absent,
                      saved.snapshot[g] = disk[g]
               PROVE  graph'[g] \subseteq saved.graph[g]
    BY <1>1, <1>5 DEF EdgesShrink
  <2>1. CASE g = f
    <3>1. Linked(disk, saved.graph, saved.snapshot, {})
      BY DEF IncrementalInv, SavedGood
    <3>2. f \in Present
      BY <2>1 DEF Present
    <3>3. graph' = [graph EXCEPT ![f] = edges]
      BY <1>1, <3>2 DEF Record
    <3> QED
      BY <1>0, <1>4, <2>1, <3>1, <3>3 DEF Linked, Shapes
  <2>2. CASE g # f
    <3>1. g \in Files \ Todo
      BY <1>5, <2>2
    <3>2. graph'[g] = graph[g]
      BY <1>0, <1>1, <2>2 DEF Record, Shapes
    <3> QED
      BY <3>1, <3>2 DEF IncrementalInv, EdgesShrink
  <2> QED
    BY <2>1, <2>2
<1>16. SavedInOrder'
  BY <1>5 DEF SavedInOrder
<1> QED
  BY <1>9, <1>10, <1>11, <1>12, <1>13, <1>14, <1>15, <1>16 DEF IncrementalInv

(* A scan that was cut short leaves what no later run can see.             *)
LEMMA EndScanStep ==
    ASSUME IncrementalInv, EndScan
    PROVE  IncrementalInv'
<1>0. /\ Shapes /\ Dated /\ InOrder /\ run.phase = "scan"
      /\ UNCHANGED <<disk, edits, diags, symbols, graph, library, saved, cancel, cut>>
      /\ run' = [run EXCEPT !.phase = "saveDiags"]
      /\ missed' = missed \cup (IF run.todo # {} THEN {"since"} ELSE {})
  BY DEF IncrementalInv, EndScan, Missed, stores
<1>1. /\ run'.phase = "saveDiags" /\ run'.full = run.full
      /\ run'.current = run.current /\ ~Idle /\ ~Idle'
      /\ Plan = run.current /\ Plan' = run.current /\ Todo = run.todo /\ Todo' = {}
      /\ run' \in [phase : Phases, full : BOOLEAN, current : Snapshot,
                   todo : SUBSET Files]
  BY <1>0 DEF Shapes, Phases, Plan, Todo, Idle
<1>2. Shapes'
  BY <1>0, <1>1 DEF Shapes
<1>3. Dated'
  BY <1>0, <1>1, SameWorkspace
<1>4. CASE ~RunSound'
  BY <1>0, <1>1, <1>2, <1>3, <1>4, Unsound DEF InOrder
<1>5. CASE RunSound'
  <2>1. /\ run.todo = {} /\ Todo = {} /\ missed' = missed
        /\ RunSound /\ (Sound' <=> Sound)
    BY <1>0, <1>1, <1>5 DEF RunSound, Sound
  <2>2. InOrder'
    BY <1>0, <1>1, <2>1 DEF InOrder
  <2>3. StoresGood' /\ LibraryGood'
    BY <1>0, <1>1, <2>1 DEF IncrementalInv, StoresGood, LibraryGood
  <2>4. SavedGood'
    BY <1>0, <1>1, <2>1 DEF IncrementalInv, SavedGood
  <2>5. EdgesShrink'
    BY <1>0, <1>1, <2>1 DEF IncrementalInv, EdgesShrink
  <2>6. SavedInOrder'
    BY <1>1 DEF SavedInOrder
  <2> QED
    BY <1>2, <1>3, <2>2, <2>3, <2>4, <2>5, <2>6 DEF IncrementalInv
<1> QED
  BY <1>4, <1>5

-----------------------------------------------------------------------------
(* The artifacts are written.                                              *)

(* What is good against the plan may replace what is saved: it is good     *)
(* against the snapshot too, with the edges saved or those to be saved.    *)
LEMMA MayBeSaved ==
    ASSUME IncrementalInv, run.phase \notin {"idle", "scan"}, Sound
    PROVE  /\ \A s : Good(disk, s, graph, run.current, {})
                        => /\ Good(disk, s, saved.graph, saved.snapshot, {})
                           /\ Good(disk, s, graph, saved.snapshot, {})
           /\ Linked(disk, graph, saved.snapshot, {})
<1>1. /\ Follows(run.current, disk, saved.snapshot)
      /\ Linked(disk, saved.graph, saved.snapshot, {})
  BY DEF IncrementalInv, InOrder, SavedGood, Idle
<1>2. Linked(disk, graph, run.current, {})
  BY DEF IncrementalInv, StoresGood, RunSound, Sound, Plan, Todo, Idle
<1>3. Linked(disk, graph, saved.snapshot, {})
  BY <1>1, <1>2, LinkedEarlier
<1>4. \A f \in Files \ {} : disk[f] # Absent /\ saved.snapshot[f] = disk[f]
                                => graph[f] \subseteq saved.graph[f]
  BY DEF IncrementalInv, EdgesShrink, Todo
<1>5. \A s : Good(disk, s, graph, run.current, {})
                => Good(disk, s, saved.graph, saved.snapshot, {})
  BY <1>1, <1>2, <1>4, GoodEarlier
<1>6. \A s : Good(disk, s, graph, run.current, {})
                => Good(disk, s, graph, saved.snapshot, {})
  BY <1>1, <1>2, <1>3, GoodEarlier
<1> QED
  BY <1>3, <1>5, <1>6

(* The stores are good against the plan while the artifacts are written.   *)
LEMMA StoresWhileSaving ==
    ASSUME IncrementalInv, run.phase \notin {"idle", "scan"}
    PROVE  /\ Plan = run.current /\ Todo = {} /\ ~Idle
           /\ RunSound => /\ Good(disk, diags, graph, run.current, {})
                          /\ Good(disk, symbols, graph, run.current, {})
                          /\ Linked(disk, graph, run.current, {})
           /\ Sound => RunSound
BY DEF IncrementalInv, StoresGood, Plan, Todo, Idle, RunSound, Sound

(* What a run that goes on to write leaves as it was.                      *)
LEMMA RunGoesOn ==
    ASSUME IncrementalInv, run.phase \notin {"idle", "scan"},
           NEW to \in Phases \ {"idle", "scan"}, run'.phase = to,
           to = "library" => run.full,
           run'.full = run.full, run'.current = run.current, run'.todo \in SUBSET Files,
           DOMAIN run' = DOMAIN run,
           UNCHANGED <<disk, edits, diags, symbols, graph, missed>>
    PROVE  /\ StoresGood'
           /\ Plan = run.current /\ Plan' = run.current /\ Todo = {} /\ Todo' = {}
           /\ ~Idle /\ ~Idle'
           /\ (Sound' <=> Sound) /\ (RunSound' <=> RunSound)
           /\ saved'.snapshot = saved.snapshot => Dated'
           /\ saved'.snapshot = saved.snapshot /\ (Sound => saved'.trusted = TRUE)
                => InOrder'
<1>1. /\ Plan = run.current /\ Plan' = run.current /\ Todo = {} /\ Todo' = {}
      /\ ~Idle /\ ~Idle'
      /\ (Sound' <=> Sound) /\ (RunSound' <=> RunSound)
  BY DEF Plan, Todo, Idle, Sound, RunSound, Phases
<1>2. StoresGood'
  BY <1>1 DEF IncrementalInv, StoresGood
<1>3. saved'.snapshot = saved.snapshot => Dated'
  BY SameWorkspace DEF IncrementalInv
<1>4. saved'.snapshot = saved.snapshot /\ (Sound => saved'.trusted = TRUE) => InOrder'
  BY <1>1 DEF IncrementalInv, InOrder
<1> QED
  BY <1>1, <1>2, <1>3, <1>4

LEMMA RunFields ==
    ASSUME Shapes, NEW to \in Phases, run' = [run EXCEPT !.phase = to]
    PROVE  /\ run' \in [phase : Phases, full : BOOLEAN, current : Snapshot,
                        todo : SUBSET Files]
           /\ run'.phase = to /\ run'.full = run.full /\ run'.current = run.current
           /\ run'.todo = run.todo /\ run'.todo \in SUBSET Files /\ DOMAIN run' = DOMAIN run
BY DEF Shapes

(* The artifacts as a record.                                              *)
LEMMA ArtifactFields ==
    ASSUME NEW r, NEW x,
           r = [diags |-> r.diags, symbols |-> r.symbols, graph |-> r.graph,
                library |-> r.library, snapshot |-> r.snapshot, trusted |-> r.trusted]
    PROVE  /\ [r EXCEPT !.diags = x] =
               [diags |-> x, symbols |-> r.symbols, graph |-> r.graph,
                library |-> r.library, snapshot |-> r.snapshot, trusted |-> r.trusted]
           /\ [r EXCEPT !.symbols = x] =
               [diags |-> r.diags, symbols |-> x, graph |-> r.graph,
                library |-> r.library, snapshot |-> r.snapshot, trusted |-> r.trusted]
           /\ [r EXCEPT !.graph = x] =
               [diags |-> r.diags, symbols |-> r.symbols, graph |-> x,
                library |-> r.library, snapshot |-> r.snapshot, trusted |-> r.trusted]
           /\ [r EXCEPT !.library = x] =
               [diags |-> r.diags, symbols |-> r.symbols, graph |-> r.graph,
                library |-> x, snapshot |-> r.snapshot, trusted |-> r.trusted]
           /\ [r EXCEPT !.snapshot = x] =
               [diags |-> r.diags, symbols |-> r.symbols, graph |-> r.graph,
                library |-> r.library, snapshot |-> x, trusted |-> r.trusted]
           /\ [r EXCEPT !.trusted = x] =
               [diags |-> r.diags, symbols |-> r.symbols, graph |-> r.graph,
                library |-> r.library, snapshot |-> r.snapshot, trusted |-> x]
<1> DEFINE d == r.diags
           s == r.symbols
           g == r.graph
           l == r.library
           v == r.snapshot
           t == r.trusted
<1>1. r = [diags |-> d, symbols |-> s, graph |-> g,
          library |-> l, snapshot |-> v, trusted |-> t]
  OBVIOUS
<1> HIDE DEF d, s, g, l, v, t
<1>2. /\ [r EXCEPT !.diags = x] =
          [diags |-> x, symbols |-> s, graph |-> g,
           library |-> l, snapshot |-> v, trusted |-> t]
      /\ [r EXCEPT !.symbols = x] =
          [diags |-> d, symbols |-> x, graph |-> g,
           library |-> l, snapshot |-> v, trusted |-> t]
      /\ [r EXCEPT !.graph = x] =
          [diags |-> d, symbols |-> s, graph |-> x,
           library |-> l, snapshot |-> v, trusted |-> t]
      /\ [r EXCEPT !.library = x] =
          [diags |-> d, symbols |-> s, graph |-> g,
           library |-> x, snapshot |-> v, trusted |-> t]
      /\ [r EXCEPT !.snapshot = x] =
          [diags |-> d, symbols |-> s, graph |-> g,
           library |-> l, snapshot |-> x, trusted |-> t]
      /\ [r EXCEPT !.trusted = x] =
          [diags |-> d, symbols |-> s, graph |-> g,
           library |-> l, snapshot |-> v, trusted |-> x]
  BY <1>1
<1> QED
  BY <1>2 DEF d, s, g, l, v, t

LEMMA SavedIsRecord ==
    ASSUME Shapes, NEW x
    PROVE  /\ [saved EXCEPT !.diags = x] =
               [diags |-> x, symbols |-> saved.symbols, graph |-> saved.graph,
                library |-> saved.library, snapshot |-> saved.snapshot, trusted |-> saved.trusted]
           /\ [saved EXCEPT !.symbols = x] =
               [diags |-> saved.diags, symbols |-> x, graph |-> saved.graph,
                library |-> saved.library, snapshot |-> saved.snapshot, trusted |-> saved.trusted]
           /\ [saved EXCEPT !.graph = x] =
               [diags |-> saved.diags, symbols |-> saved.symbols, graph |-> x,
                library |-> saved.library, snapshot |-> saved.snapshot, trusted |-> saved.trusted]
           /\ [saved EXCEPT !.library = x] =
               [diags |-> saved.diags, symbols |-> saved.symbols, graph |-> saved.graph,
                library |-> x, snapshot |-> saved.snapshot, trusted |-> saved.trusted]
           /\ [saved EXCEPT !.snapshot = x] =
               [diags |-> saved.diags, symbols |-> saved.symbols, graph |-> saved.graph,
                library |-> saved.library, snapshot |-> x, trusted |-> saved.trusted]
           /\ [saved EXCEPT !.trusted = x] =
               [diags |-> saved.diags, symbols |-> saved.symbols, graph |-> saved.graph,
                library |-> saved.library, snapshot |-> saved.snapshot, trusted |-> x]
<1>1. saved = [diags |-> saved.diags, symbols |-> saved.symbols, graph |-> saved.graph,
               library |-> saved.library, snapshot |-> saved.snapshot, trusted |-> saved.trusted]
  BY DEF Shapes
<1> QED
  BY <1>1, ArtifactFields

LEMMA SaveDiagsStep ==
    ASSUME IncrementalInv, SaveDiags
    PROVE  IncrementalInv'
<1>0. /\ Shapes /\ run.phase = "saveDiags"
      /\ UNCHANGED <<disk, edits, diags, symbols, graph, library, cancel, cut, missed>>
      /\ run' = [run EXCEPT !.phase = "saveSymbols"]
      /\ saved' = [saved EXCEPT !.diags = diags]
  BY DEF IncrementalInv, SaveDiags, SaveStep, stores
<1>1. saved' = [diags |-> diags, symbols |-> saved.symbols,
                graph |-> saved.graph, library |-> saved.library,
                snapshot |-> saved.snapshot, trusted |-> saved.trusted]
  BY <1>0, SavedIsRecord
<1>2. /\ saved'.diags = diags /\ saved'.symbols = saved.symbols
      /\ saved'.graph = saved.graph /\ saved'.library = saved.library
      /\ saved'.snapshot = saved.snapshot /\ saved'.trusted = saved.trusted
  BY <1>1
<1>3. /\ run' \in [phase : Phases, full : BOOLEAN, current : Snapshot, todo : SUBSET Files]
      /\ run'.phase = "saveSymbols" /\ run'.full = run.full /\ run'.current = run.current
      /\ run'.todo \in SUBSET Files /\ DOMAIN run' = DOMAIN run
  BY <1>0, RunFields DEF Phases
<1>4. /\ StoresGood' /\ Dated' /\ InOrder'
      /\ Plan' = Plan /\ Todo = {} /\ Todo' = {} /\ ~Idle /\ ~Idle'
      /\ (Sound' <=> Sound) /\ (RunSound' <=> RunSound)
  BY <1>0, <1>2, <1>3, RunGoesOn DEF IncrementalInv, InOrder, Phases
<1>5. Shapes'
  BY <1>0, <1>1, <1>2, <1>3 DEF Shapes
<1>6. /\ RunSound => Good(disk, diags, graph, run.current, {})
      /\ Sound => Good(disk, diags, saved.graph, saved.snapshot, {})
  BY <1>0, StoresWhileSaving, MayBeSaved
<1>7. LibraryGood'
  BY <1>0, <1>3, <1>4 DEF IncrementalInv, LibraryGood
<1>8. SavedGood'
  BY <1>0, <1>2, <1>3, <1>4, <1>6 DEF IncrementalInv, SavedGood
<1>9. EdgesShrink'
  BY <1>0, <1>2, <1>4 DEF IncrementalInv, EdgesShrink
<1>10. SavedInOrder'
  BY <1>0, <1>2, <1>3, <1>4, <1>6 DEF IncrementalInv, SavedInOrder
<1> QED
  BY <1>4, <1>5, <1>7, <1>8, <1>9, <1>10 DEF IncrementalInv

LEMMA SaveSymbolsStep ==
    ASSUME IncrementalInv, SaveSymbols
    PROVE  IncrementalInv'
<1>0. /\ Shapes /\ run.phase = "saveSymbols"
      /\ UNCHANGED <<disk, edits, diags, symbols, graph, library, cancel, cut, missed>>
      /\ run' = [run EXCEPT !.phase = "saveGraph"]
      /\ saved' = [saved EXCEPT !.symbols = symbols]
  BY DEF IncrementalInv, SaveSymbols, SaveStep, stores
<1>1. saved' = [diags |-> saved.diags, symbols |-> symbols,
                graph |-> saved.graph, library |-> saved.library,
                snapshot |-> saved.snapshot, trusted |-> saved.trusted]
  BY <1>0, SavedIsRecord
<1>2. /\ saved'.diags = saved.diags /\ saved'.symbols = symbols
      /\ saved'.graph = saved.graph /\ saved'.library = saved.library
      /\ saved'.snapshot = saved.snapshot /\ saved'.trusted = saved.trusted
  BY <1>1
<1>3. /\ run' \in [phase : Phases, full : BOOLEAN, current : Snapshot, todo : SUBSET Files]
      /\ run'.phase = "saveGraph" /\ run'.full = run.full /\ run'.current = run.current
      /\ run'.todo \in SUBSET Files /\ DOMAIN run' = DOMAIN run
  BY <1>0, RunFields DEF Phases
<1>4. /\ StoresGood' /\ Dated' /\ InOrder'
      /\ Plan' = Plan /\ Todo = {} /\ Todo' = {} /\ ~Idle /\ ~Idle'
      /\ (Sound' <=> Sound) /\ (RunSound' <=> RunSound)
  BY <1>0, <1>2, <1>3, RunGoesOn DEF IncrementalInv, InOrder, Phases
<1>5. Shapes'
  BY <1>0, <1>1, <1>2, <1>3 DEF Shapes
<1>6. /\ RunSound => Good(disk, symbols, graph, run.current, {})
      /\ Sound => Good(disk, symbols, saved.graph, saved.snapshot, {})
  BY <1>0, StoresWhileSaving, MayBeSaved
<1>7. LibraryGood'
  BY <1>0, <1>3, <1>4 DEF IncrementalInv, LibraryGood
<1>8. SavedGood'
  BY <1>0, <1>2, <1>3, <1>4, <1>6 DEF IncrementalInv, SavedGood
<1>9. EdgesShrink'
  BY <1>0, <1>2, <1>4 DEF IncrementalInv, EdgesShrink
<1>10. SavedInOrder'
  BY <1>0, <1>2, <1>3, <1>4, <1>6 DEF IncrementalInv, SavedInOrder
<1> QED
  BY <1>4, <1>5, <1>7, <1>8, <1>9, <1>10 DEF IncrementalInv

(* With fewer edges a file counts as kept that did not before only if a    *)
(* header it included is gone.                                             *)
LEMMA SaveGraphStep ==
    ASSUME IncrementalInv, SaveGraph
    PROVE  IncrementalInv'
<1>0. /\ Shapes /\ run.phase = "saveGraph"
      /\ UNCHANGED <<disk, edits, diags, symbols, graph, cancel, cut, missed>>
      /\ saved' = [saved EXCEPT !.graph = graph]
      /\ \/ /\ run.full
            /\ run' = [run EXCEPT !.phase = "library", !.todo = Files]
            /\ library' = Empty
         \/ /\ ~run.full
            /\ run' = [run EXCEPT !.phase = "saveSnapshot"]
            /\ UNCHANGED library
  BY DEF IncrementalInv, SaveGraph
<1>1. saved' = [diags |-> saved.diags, symbols |-> saved.symbols,
                graph |-> graph, library |-> saved.library,
                snapshot |-> saved.snapshot, trusted |-> saved.trusted]
  BY <1>0, SavedIsRecord
<1>2. /\ saved'.diags = saved.diags /\ saved'.symbols = saved.symbols
      /\ saved'.graph = graph /\ saved'.library = saved.library
      /\ saved'.snapshot = saved.snapshot /\ saved'.trusted = saved.trusted
  BY <1>1
<1>3. /\ run'.phase = IF run.full THEN "library" ELSE "saveSnapshot"
      /\ run'.full = run.full /\ run'.current = run.current
      /\ run.full => run'.todo = Files
      /\ run' \in [phase : Phases, full : BOOLEAN, current : Snapshot,
                   todo : SUBSET Files]
      /\ run'.todo \in SUBSET Files /\ DOMAIN run' = DOMAIN run
      /\ DOMAIN library' = Files
  BY <1>0 DEF Shapes, Phases, Empty
<1>4. /\ StoresGood' /\ Dated' /\ InOrder'
      /\ Plan' = Plan /\ Todo = {} /\ Todo' = {} /\ ~Idle /\ ~Idle'
      /\ (Sound' <=> Sound) /\ (RunSound' <=> RunSound)
  BY <1>0, <1>2, <1>3, RunGoesOn DEF IncrementalInv, InOrder, Phases
<1>5. Shapes'
  BY <1>0, <1>1, <1>2, <1>3 DEF Shapes
<1>6. LibraryGood'
  <2>1. CASE run.full
    BY <1>3, <1>4, <2>1, AllToVisit DEF LibraryGood
  <2>2. CASE ~run.full
    BY <1>0, <1>3, <1>4, <2>2 DEF IncrementalInv, LibraryGood
  <2> QED
    BY <2>1, <2>2
<1>7. SavedGood'
  <2> SUFFICES ASSUME Sound
               PROVE  /\ Good(disk, saved.diags, graph, saved.snapshot, {})
                      /\ Good(disk, saved.symbols, graph, saved.snapshot, {})
                      /\ Linked(disk, graph, saved.snapshot, {})
                      /\ cut \/ HeaderLost \/ Good(disk, saved.library, graph, saved.snapshot, {})
    <3>1. HeaderLost' <=> HeaderLost
      BY <1>0, <1>2 DEF HeaderLost, Removed, Present
    <3> QED
      BY <1>0, <1>2, <1>3, <1>4, <3>1 DEF SavedGood
  <2>1. RunSound
    BY <1>0, StoresWhileSaving
  <2>2. Good(disk, saved.diags, graph, run.current, {})
        /\ Good(disk, saved.symbols, graph, run.current, {})
    BY <1>0, <2>1 DEF IncrementalInv, SavedInOrder
  <2>3. Linked(disk, graph, saved.snapshot, {})
    BY <1>0, MayBeSaved
  <2>4. ASSUME ~cut, ~HeaderLost, NEW f \in Kept(disk, graph, saved.snapshot)
        PROVE  Made(disk, saved.library, f)
    <3>1. Good(disk, saved.library, saved.graph, saved.snapshot, {})
      BY <1>0, <2>4 DEF IncrementalInv, SavedGood
    <3>2. /\ f \in Files /\ disk[f] # Absent /\ saved.snapshot[f] = disk[f]
          /\ \A h \in graph[f] : saved.snapshot[h] = disk[h]
      BY DEF Kept
    <3>3. Linked(disk, saved.graph, saved.snapshot, {})
      BY DEF IncrementalInv, SavedGood
    <3>4. saved.graph[f] # NotStored /\ saved.graph[f] \subseteq Edges(f)
      BY <3>2, <3>3 DEF Linked
    <3>5. \A h \in Edges(f) : disk[h] # Absent => h \in graph[f]
      BY <2>3, <3>2 DEF Linked
    <3>6. ASSUME NEW h \in saved.graph[f] PROVE saved.snapshot[h] = disk[h]
      <4>1. h \in Edges(f) /\ h \in Headers /\ h \in Files
        BY <3>2, <3>4, ReadsAreFiles
      <4>2. CASE disk[h] # Absent
        BY <3>2, <3>5, <4>1, <4>2
      <4>3. CASE disk[h] = Absent
        <5>1. saved.snapshot # NotStored
          BY NumbersOf DEF IncrementalInv, InOrder
        <5> QED
          BY <2>4, <4>1, <4>3, <5>1 DEF HeaderLost, Removed, Present
      <4> QED
        BY <4>2, <4>3
    <3>7. f \in Kept(disk, saved.graph, saved.snapshot) \ {}
      BY <3>2, <3>4, <3>6 DEF Kept
    <3> QED
      BY <3>1, <3>7 DEF Good
  <2>5. cut \/ HeaderLost \/ Good(disk, saved.library, graph, saved.snapshot, {})
    BY <2>4 DEF Good
  <2> QED
    BY <1>0, <2>2, <2>3, <2>5, MayBeSaved
<1>8. EdgesShrink'
  BY <1>0, <1>2 DEF EdgesShrink
<1>9. SavedInOrder'
  BY <1>0, <1>2, <1>3, <1>4 DEF IncrementalInv, SavedInOrder
<1> QED
  BY <1>4, <1>5, <1>6, <1>7, <1>8, <1>9 DEF IncrementalInv

LEMMA ListFileStep ==
    ASSUME IncrementalInv, NEW f \in Files, ListFile(f)
    PROVE  IncrementalInv'
<1>0. /\ Shapes /\ run.phase = "library" /\ ~cancel /\ f \in run.todo
      /\ UNCHANGED <<disk, edits, diags, symbols, graph, saved, cancel, cut, missed>>
      /\ run' = [run EXCEPT !.todo = @ \ {f}]
      /\ library' = IF f \in Present THEN [library EXCEPT ![f] = Facts(f)] ELSE library
      /\ run.full
  BY DEF IncrementalInv, InOrder, ListFile
<1>1. /\ run'.phase = "library" /\ run'.full = run.full
      /\ run'.current = run.current /\ run'.todo = run.todo \ {f}
      /\ run' \in [phase : Phases, full : BOOLEAN, current : Snapshot,
                   todo : SUBSET Files]
      /\ run'.todo \in SUBSET Files /\ DOMAIN run' = DOMAIN run
      /\ DOMAIN library' = Files
  BY <1>0 DEF Shapes
<1>2. /\ StoresGood' /\ Dated' /\ InOrder'
      /\ Plan' = Plan /\ Todo = {} /\ Todo' = {} /\ ~Idle /\ ~Idle'
      /\ (Sound' <=> Sound) /\ (RunSound' <=> RunSound)
  BY <1>0, <1>1, RunGoesOn DEF IncrementalInv, InOrder, Phases
<1>3. Shapes'
  BY <1>0, <1>1 DEF Shapes
<1>4. LibraryGood'
  <2> SUFFICES ASSUME RunSound PROVE Good(disk, library', graph, Plan, run.todo \ {f})
    BY <1>0, <1>1, <1>2 DEF LibraryGood
  <2>1. Good(disk, library, graph, Plan, run.todo)
    BY <1>0 DEF IncrementalInv, LibraryGood
  <2>2. CASE f \in Present
    <3>1. Good(disk, [library EXCEPT ![f] = FactsIn(disk, f)], graph, Plan, run.todo \ {f})
      BY <1>0, <2>1, GoodVisited DEF Shapes
    <3> QED
      BY <1>0, <2>2, <3>1, FactsAreFacts
  <2>3. CASE f \notin Present
    BY <1>0, <2>1, <2>3, GoodGone DEF Present
  <2> QED
    BY <2>2, <2>3
<1>5. SavedGood'
  <2>1. HeaderLost' <=> HeaderLost
    BY <1>0 DEF HeaderLost, Removed, Present
  <2> QED
    BY <1>0, <1>1, <1>2, <2>1 DEF IncrementalInv, SavedGood
<1>6. EdgesShrink'
  BY <1>0, <1>2 DEF IncrementalInv, EdgesShrink
<1>7. SavedInOrder'
  BY <1>0, <1>1, <1>2 DEF IncrementalInv, SavedInOrder
<1> QED
  BY <1>2, <1>3, <1>4, <1>5, <1>6, <1>7 DEF IncrementalInv

LEMMA EndLibraryStep ==
    ASSUME IncrementalInv, EndLibrary
    PROVE  IncrementalInv'
<1>0. /\ Shapes /\ run.phase = "library" /\ (cancel \/ run.todo = {})
      /\ UNCHANGED <<disk, edits, diags, symbols, graph, library, saved, cancel, cut, missed>>
      /\ run' = [run EXCEPT !.phase = "saveSnapshot"]
      /\ run.full
  BY DEF IncrementalInv, InOrder, EndLibrary, stores
<1>1. /\ run' \in [phase : Phases, full : BOOLEAN, current : Snapshot, todo : SUBSET Files]
      /\ run'.phase = "saveSnapshot" /\ run'.full = run.full /\ run'.current = run.current
      /\ run'.todo \in SUBSET Files /\ DOMAIN run' = DOMAIN run
  BY <1>0, RunFields DEF Phases
<1>2. /\ StoresGood' /\ Dated' /\ InOrder'
      /\ Plan' = Plan /\ Todo = {} /\ Todo' = {} /\ ~Idle /\ ~Idle'
      /\ (Sound' <=> Sound) /\ (RunSound' <=> RunSound)
  BY <1>0, <1>1, RunGoesOn DEF IncrementalInv, InOrder, Phases
<1>3. Shapes'
  BY <1>0, <1>1 DEF Shapes
<1>4. LibraryGood'
  BY <1>0, <1>1, <1>2 DEF IncrementalInv, LibraryGood
<1>5. SavedGood'
  <2>1. HeaderLost' <=> HeaderLost
    BY <1>0 DEF HeaderLost, Removed, Present
  <2> QED
    BY <1>0, <1>1, <1>2, <2>1 DEF IncrementalInv, SavedGood
<1>6. EdgesShrink'
  BY <1>0, <1>2 DEF IncrementalInv, EdgesShrink
<1>7. SavedInOrder'
  BY <1>0, <1>1, <1>2 DEF IncrementalInv, SavedInOrder
<1> QED
  BY <1>2, <1>3, <1>4, <1>5, <1>6, <1>7 DEF IncrementalInv

(* A run without a miss saves the snapshot that it planned with.           *)
LEMMA SaveSnapshotStep ==
    ASSUME IncrementalInv, SaveSnapshot
    PROVE  IncrementalInv'
<1> DEFINE snapshot == IF run.full THEN disk ELSE run.current
<1>0. /\ Shapes /\ Dated /\ InOrder /\ run.phase = "saveSnapshot"
      /\ UNCHANGED <<disk, edits, diags, symbols, graph, library, cancel, cut, missed>>
      /\ run' = [run EXCEPT !.phase = "saveMeta"]
      /\ saved' = [saved EXCEPT !.snapshot = snapshot]
  BY DEF IncrementalInv, SaveSnapshot, SaveStep, stores
<1>1. saved' = [diags |-> saved.diags, symbols |-> saved.symbols,
                graph |-> saved.graph, library |-> saved.library,
                snapshot |-> snapshot, trusted |-> saved.trusted]
  BY <1>0, SavedIsRecord
<1>2. /\ saved'.diags = saved.diags /\ saved'.symbols = saved.symbols
      /\ saved'.graph = saved.graph /\ saved'.library = saved.library
      /\ saved'.snapshot = snapshot /\ saved'.trusted = saved.trusted
  BY <1>1
<1>3. /\ run' \in [phase : Phases, full : BOOLEAN, current : Snapshot, todo : SUBSET Files]
      /\ run'.phase = "saveMeta" /\ run'.full = run.full /\ run'.current = run.current
      /\ run'.todo \in SUBSET Files /\ DOMAIN run' = DOMAIN run
  BY <1>0, RunFields DEF Phases
<1>4. /\ StoresGood'
      /\ Plan = run.current /\ Plan' = run.current /\ Todo = {} /\ Todo' = {} /\ ~Idle /\ ~Idle'
      /\ (Sound' <=> Sound) /\ (RunSound' <=> RunSound) /\ (Sound => RunSound)
  BY <1>0, <1>3, RunGoesOn, StoresWhileSaving DEF Phases
<1>5. snapshot \in Snapshot /\ (RunSound => snapshot = run.current)
  BY <1>0, <1>4 DEF Shapes, InOrder
<1> HIDE DEF snapshot
<1>6. Shapes'
  BY <1>0, <1>1, <1>2, <1>3 DEF Shapes
<1>7. Dated'
  <2>1. \A f \in Files : snapshot[f] <= edits
    BY <1>0 DEF Dated, snapshot
  <2> QED
    BY <1>0, <1>2, <1>3, <2>1 DEF Dated
<1>8. InOrder'
  <2>1. Sound => NoneCame(snapshot, disk) /\ Follows(run.current, disk, snapshot)
    BY <1>0, <1>4, <1>5 DEF InOrder, Follows
  <2> QED
    BY <1>0, <1>2, <1>3, <1>4, <1>5, <2>1 DEF InOrder
<1>9. LibraryGood'
  BY <1>0, <1>3, <1>4 DEF IncrementalInv, LibraryGood
<1>10. /\ RunSound => saved.graph = graph
       /\ RunSound => /\ Good(disk, saved.diags, graph, run.current, {})
                      /\ Good(disk, saved.symbols, graph, run.current, {})
                      /\ Linked(disk, graph, run.current, {})
  BY <1>0, StoresWhileSaving DEF IncrementalInv, SavedInOrder
<1>11. SavedGood'
  BY <1>0, <1>2, <1>3, <1>4, <1>5, <1>10 DEF SavedGood
<1>12. EdgesShrink'
  BY <1>0, <1>2, <1>4, <1>10 DEF EdgesShrink
<1>13. SavedInOrder'
  BY <1>0, <1>2, <1>3, <1>4, <1>5, <1>10 DEF SavedInOrder
<1> QED
  BY <1>4, <1>6, <1>7, <1>8, <1>9, <1>11, <1>12, <1>13 DEF IncrementalInv

(* A run is over: what it planned with is the snapshot saved, and what it  *)
(* was told to make up for is made up for.                                 *)
LEMMA RunEnds ==
    ASSUME IncrementalInv, run' = NoRun,
           UNCHANGED <<disk, edits, diags, symbols, graph, library, cancel>>,
           run.phase \in {"saveMeta", "saveLibrary"}, missed' = {} => RunSound,
           saved'.snapshot = saved.snapshot, saved'.graph = saved.graph,
           saved'.diags = saved.diags, saved'.symbols = saved.symbols,
           missed' = {} => saved'.trusted = TRUE
    PROVE  /\ Dated' /\ InOrder' /\ StoresGood' /\ EdgesShrink' /\ SavedInOrder'
           /\ run' \in [phase : Phases, full : BOOLEAN, current : Snapshot,
                        todo : SUBSET Files]
           /\ run'.phase = "idle" /\ Plan' = saved.snapshot /\ Todo' = {} /\ Idle'
           /\ (RunSound' => Sound') /\ (Sound' => RunSound)
           /\ Sound' => /\ Good(disk, saved.diags, saved.graph, saved.snapshot, {})
                        /\ Good(disk, saved.symbols, saved.graph, saved.snapshot, {})
                        /\ Linked(disk, saved.graph, saved.snapshot, {})
                        /\ saved.graph = graph /\ saved.snapshot = run.current
                        /\ Plan = saved.snapshot /\ Todo = {} /\ ~Idle
<1>1. /\ run'.phase = "idle" /\ Idle' /\ Todo' = {} /\ Plan' = saved.snapshot
      /\ run'.current = NoRun.current
  BY DEF NoRun, Idle, Todo, Plan
<1>2. (RunSound' => Sound') /\ (Sound' => RunSound)
  BY <1>1 DEF RunSound, Sound
<1>3. Sound' => /\ saved.graph = graph /\ saved.snapshot = run.current
                /\ Good(disk, saved.diags, graph, run.current, {})
                /\ Good(disk, saved.symbols, graph, run.current, {})
                /\ Good(disk, diags, graph, run.current, {})
                /\ Good(disk, symbols, graph, run.current, {})
                /\ Linked(disk, graph, run.current, {})
                /\ Plan = run.current /\ Todo = {} /\ ~Idle
  BY <1>2, StoresWhileSaving DEF IncrementalInv, SavedInOrder
<1>4. run' \in [phase : Phases, full : BOOLEAN, current : Snapshot, todo : SUBSET Files]
  <2>1. Absent \in Contents
    BY IncrementalAssumption DEF Absent, Contents
  <2> QED
    BY <2>1 DEF NoRun, Phases, Snapshot
<1>5. Dated'
  BY <1>1, SameWorkspace DEF IncrementalInv
<1>6. InOrder'
  <2>1. run.current \in Snapshot
    BY DEF IncrementalInv, Shapes
  <2>2. Sound' => NoneCame(saved.snapshot, disk)
    BY <1>2, <1>3 DEF IncrementalInv, InOrder
  <2>3. saved.snapshot \in Snapshot \cup {NotStored}
    BY DEF IncrementalInv, InOrder
  <2> QED
    BY <1>1, <1>2, <1>3, <2>1, <2>2, <2>3 DEF InOrder, Sound
<1>7. StoresGood'
  BY <1>1, <1>2, <1>3 DEF StoresGood
<1>8. EdgesShrink'
  BY <1>3 DEF EdgesShrink
<1>9. SavedInOrder'
  BY <1>1 DEF SavedInOrder
<1> QED
  BY <1>1, <1>2, <1>3, <1>4, <1>5, <1>6, <1>7, <1>8, <1>9

LEMMA SaveMetaStep ==
    ASSUME IncrementalInv, SaveMeta
    PROVE  IncrementalInv'
<1>0. /\ Shapes /\ run.phase = "saveMeta"
      /\ UNCHANGED <<disk, edits, diags, symbols, graph, library, cancel, missed>>
  BY DEF IncrementalInv, SaveMeta, stores
<1>1. CASE cancel
  <2>1. run' = NoRun /\ cut' = TRUE /\ UNCHANGED saved
    BY <1>1 DEF SaveMeta
  <2>2. missed' = {} => RunSound /\ saved'.trusted = TRUE
    BY <1>0, <2>1 DEF IncrementalInv, InOrder, Sound, RunSound
  <2>3. /\ Dated' /\ InOrder' /\ StoresGood' /\ EdgesShrink' /\ SavedInOrder'
        /\ run' \in [phase : Phases, full : BOOLEAN, current : Snapshot,
                     todo : SUBSET Files]
        /\ run'.phase = "idle"
        /\ Sound' => /\ Good(disk, saved.diags, saved.graph, saved.snapshot, {})
                     /\ Good(disk, saved.symbols, saved.graph, saved.snapshot, {})
                     /\ Linked(disk, saved.graph, saved.snapshot, {})
    BY <1>0, <2>1, <2>2, RunEnds
  <2>4. Shapes'
    BY <1>0, <2>1, <2>3 DEF Shapes
  <2>5. LibraryGood'
    BY <2>1, <2>3 DEF LibraryGood
  <2>6. SavedGood'
    BY <1>0, <2>1, <2>3 DEF SavedGood
  <2> QED
    BY <2>3, <2>4, <2>5, <2>6 DEF IncrementalInv
<1>2. CASE ~cancel
  <2>1. /\ run' = [run EXCEPT !.phase = "saveLibrary"]
        /\ saved' = [saved EXCEPT !.trusted = TRUE]
        /\ UNCHANGED cut
    BY <1>2 DEF SaveMeta
  <2>2. saved' = [diags |-> saved.diags, symbols |-> saved.symbols,
                  graph |-> saved.graph, library |-> saved.library,
                  snapshot |-> saved.snapshot, trusted |-> TRUE]
    BY <1>0, <2>1, SavedIsRecord
  <2>3. /\ saved'.diags = saved.diags /\ saved'.symbols = saved.symbols
        /\ saved'.graph = saved.graph /\ saved'.library = saved.library
        /\ saved'.snapshot = saved.snapshot /\ saved'.trusted = TRUE
    BY <2>2
  <2>4. /\ run' \in [phase : Phases, full : BOOLEAN, current : Snapshot, todo : SUBSET Files]
        /\ run'.phase = "saveLibrary" /\ run'.full = run.full /\ run'.current = run.current
        /\ run'.todo \in SUBSET Files /\ DOMAIN run' = DOMAIN run
    BY <1>0, <2>1, RunFields DEF Phases
  <2>5. /\ StoresGood' /\ Dated' /\ InOrder'
        /\ Plan' = Plan /\ Todo = {} /\ Todo' = {} /\ ~Idle /\ ~Idle'
        /\ (Sound' <=> Sound) /\ (RunSound' <=> RunSound)
    BY <1>0, <2>3, <2>4, RunGoesOn DEF Phases
  <2>6. Shapes'
    BY <1>0, <2>1, <2>2, <2>3, <2>4 DEF Shapes
  <2>7. LibraryGood'
    BY <1>0, <1>2, <2>1, <2>4, <2>5 DEF IncrementalInv, LibraryGood
  <2>8. SavedGood'
    BY <1>0, <2>3, <2>4, <2>5 DEF IncrementalInv, SavedGood
  <2>9. EdgesShrink'
    BY <1>0, <2>3, <2>5 DEF IncrementalInv, EdgesShrink
  <2>10. SavedInOrder'
    BY <1>0, <2>3, <2>4, <2>5 DEF IncrementalInv, SavedInOrder
  <2> QED
    BY <2>5, <2>6, <2>7, <2>8, <2>9, <2>10 DEF IncrementalInv
<1> QED
  BY <1>1, <1>2

LEMMA SaveLibraryStep ==
    ASSUME IncrementalInv, SaveLibrary
    PROVE  IncrementalInv'
<1>0. /\ Shapes /\ run.phase = "saveLibrary" /\ run' = NoRun
      /\ UNCHANGED <<disk, edits, diags, symbols, graph, library, cancel>>
      /\ saved' = [saved EXCEPT !.library = library]
      /\ cut' = (cut /\ ~run.full)
      /\ missed' = IF run.full /\ "since" \notin missed THEN {} ELSE missed
  BY DEF IncrementalInv, SaveLibrary, stores
<1>1. saved' = [diags |-> saved.diags, symbols |-> saved.symbols,
                graph |-> saved.graph, library |-> library,
                snapshot |-> saved.snapshot, trusted |-> saved.trusted]
  BY <1>0, SavedIsRecord
<1>2. /\ saved'.diags = saved.diags /\ saved'.symbols = saved.symbols
      /\ saved'.graph = saved.graph /\ saved'.library = library
      /\ saved'.snapshot = saved.snapshot /\ saved'.trusted = saved.trusted
  BY <1>1
<1>3. missed' = {} => RunSound /\ saved'.trusted = TRUE
  <2>1. missed' = {} => RunSound
    BY <1>0 DEF RunSound, Sound, Idle
  <2> QED
    BY <1>0, <1>2, <2>1 DEF IncrementalInv, SavedInOrder
<1>4. /\ Dated' /\ InOrder' /\ StoresGood' /\ EdgesShrink' /\ SavedInOrder'
      /\ run' \in [phase : Phases, full : BOOLEAN, current : Snapshot,
                   todo : SUBSET Files]
      /\ run'.phase = "idle" /\ Plan' = saved.snapshot /\ Todo' = {} /\ Idle'
      /\ (RunSound' => Sound') /\ (Sound' => RunSound)
      /\ Sound' => /\ Good(disk, saved.diags, saved.graph, saved.snapshot, {})
                   /\ Good(disk, saved.symbols, saved.graph, saved.snapshot, {})
                   /\ Linked(disk, saved.graph, saved.snapshot, {})
                   /\ saved.graph = graph /\ saved.snapshot = run.current
                   /\ Plan = saved.snapshot /\ Todo = {} /\ ~Idle
  BY <1>0, <1>2, <1>3, RunEnds
<1>5. Sound' => cut' \/ Good(disk, library, graph, saved.snapshot, {})
  <2>1. CASE run.full
    BY <1>0, <1>4, <2>1 DEF IncrementalInv, LibraryGood
  <2>2. CASE ~run.full
    BY <1>0, <1>4, <2>2 DEF IncrementalInv, LibraryGood
  <2> QED
    BY <2>1, <2>2
<1>6. missed' \subseteq {"before", "since"} /\ cut' \in BOOLEAN
  BY <1>0 DEF Shapes
<1>7. Shapes'
  BY <1>0, <1>1, <1>2, <1>4, <1>6 DEF Shapes
<1>8. LibraryGood'
  BY <1>0, <1>4, <1>5 DEF LibraryGood
<1>9. SavedGood'
  BY <1>0, <1>2, <1>4, <1>5 DEF SavedGood
<1> QED
  BY <1>4, <1>7, <1>8, <1>9 DEF IncrementalInv

-----------------------------------------------------------------------------
(* A run is disturbed.                                                     *)

LEMMA CancelStep ==
    ASSUME IncrementalInv, Cancel
    PROVE  IncrementalInv'
<1>0. /\ Shapes
      /\ UNCHANGED <<disk, edits, diags, symbols, graph, library, saved, run, cut, missed>>
      /\ cancel' = TRUE
  BY DEF IncrementalInv, Cancel, stores
<1>1. /\ Plan' = Plan /\ Todo' = Todo /\ (Idle' <=> Idle)
      /\ (Sound' <=> Sound) /\ (RunSound' <=> RunSound)
      /\ (HeaderLost' <=> HeaderLost)
  BY <1>0 DEF Plan, Todo, Idle, Sound, RunSound, HeaderLost, Removed, Present
<1>2. Shapes' /\ Dated' /\ InOrder'
  BY <1>0, <1>1 DEF IncrementalInv, Shapes, Dated, InOrder
<1>3. StoresGood' /\ EdgesShrink' /\ SavedInOrder'
  BY <1>0, <1>1 DEF IncrementalInv, StoresGood, EdgesShrink, SavedInOrder
<1>4. LibraryGood'
  BY <1>0, <1>1 DEF IncrementalInv, LibraryGood
<1>5. SavedGood'
  BY <1>0, <1>1 DEF IncrementalInv, SavedGood
<1> QED
  BY <1>2, <1>3, <1>4, <1>5 DEF IncrementalInv

(* After a crash the stores hold what was saved; a clean exit that loses   *)
(* the diagnostics is not made up for.                                     *)
LEMMA RestartStep ==
    ASSUME IncrementalInv, Restart
    PROVE  IncrementalInv'
<1>0. /\ Shapes /\ Dated /\ InOrder
      /\ diags' \in {saved.diags, Empty} /\ saved' = [saved EXCEPT !.diags = diags']
      /\ UNCHANGED <<disk, edits>> /\ cancel' = FALSE /\ run' = NoRun
      /\ symbols' = saved.symbols
      /\ graph' = IfTrusted(saved.graph) /\ library' = IfTrusted(saved.library)
      /\ cut' = (\/ cut
                 \/ run.phase \in {"saveMeta", "saveLibrary"}
                 \/ run.phase \in {"library", "saveSnapshot"} /\ HeaderLost)
      /\ missed' = missed \cup (IF diags' # saved.diags THEN {"since"} ELSE {})
  BY DEF IncrementalInv, Restart, LeftBehind, Missed
<1>1. saved' = [diags |-> diags', symbols |-> saved.symbols,
                graph |-> saved.graph, library |-> saved.library,
                snapshot |-> saved.snapshot, trusted |-> saved.trusted]
  <2> DEFINE loaded == diags'
  <2>1. saved' = [saved EXCEPT !.diags = loaded]
    BY <1>0
  <2> HIDE DEF loaded
  <2>2. saved' = [diags |-> loaded, symbols |-> saved.symbols,
                  graph |-> saved.graph, library |-> saved.library,
                  snapshot |-> saved.snapshot, trusted |-> saved.trusted]
    BY <1>0, <2>1, SavedIsRecord
  <2> QED
    BY <2>2 DEF loaded
<1>2. /\ saved'.diags = diags' /\ saved'.symbols = saved.symbols
      /\ saved'.graph = saved.graph /\ saved'.library = saved.library
      /\ saved'.snapshot = saved.snapshot /\ saved'.trusted = saved.trusted
  BY <1>1
<1>3. /\ run'.phase = "idle" /\ Idle' /\ Todo' = {} /\ Plan' = saved.snapshot
      /\ run'.current = NoRun.current
  BY <1>0, <1>2 DEF NoRun, Idle, Todo, Plan
<1>4. run' \in [phase : Phases, full : BOOLEAN, current : Snapshot, todo : SUBSET Files]
  <2>1. Absent \in Contents
    BY IncrementalAssumption DEF Absent, Contents
  <2> QED
    BY <1>0, <2>1 DEF NoRun, Phases, Snapshot
<1>5. /\ DOMAIN diags' = Files /\ DOMAIN symbols' = Files
      /\ DOMAIN graph' = Files /\ DOMAIN library' = Files
  BY <1>0 DEF Shapes, Empty, IfTrusted
<1>6. missed' \subseteq {"before", "since"} /\ cut' \in BOOLEAN
  BY <1>0 DEF Shapes
<1>7. Shapes'
  BY <1>0, <1>1, <1>2, <1>4, <1>5, <1>6 DEF Shapes
<1>8. Dated'
  BY <1>0, <1>2, <1>3, SameWorkspace
<1>9. /\ RunSound' => Sound'
      /\ Sound' => Sound /\ diags' = saved.diags
  BY <1>0, <1>3 DEF RunSound, Sound
<1>10. Sound' => /\ graph' = saved.graph /\ library' = saved.library
                 /\ saved.trusted = TRUE
  BY <1>0, <1>9 DEF InOrder, IfTrusted
<1>11. InOrder'
  BY <1>0, <1>2, <1>3, <1>9, <1>10 DEF InOrder
<1>12. Sound' => /\ Good(disk, saved.diags, saved.graph, saved.snapshot, {})
                 /\ Good(disk, saved.symbols, saved.graph, saved.snapshot, {})
                 /\ Linked(disk, saved.graph, saved.snapshot, {})
                 /\ cut' \/ Good(disk, saved.library, saved.graph, saved.snapshot, {})
  BY <1>0, <1>9 DEF IncrementalInv, SavedGood
<1>13. StoresGood'
  BY <1>0, <1>3, <1>9, <1>10, <1>12 DEF StoresGood
<1>14. LibraryGood'
  BY <1>0, <1>3, <1>9, <1>10, <1>12 DEF LibraryGood
<1>15. SavedGood'
  BY <1>0, <1>2, <1>9, <1>12 DEF SavedGood
<1>16. EdgesShrink'
  BY <1>2, <1>10 DEF EdgesShrink
<1>17. SavedInOrder'
  BY <1>3 DEF SavedInOrder
<1> QED
  BY <1>7, <1>8, <1>11, <1>13, <1>14, <1>15, <1>16, <1>17 DEF IncrementalInv

-----------------------------------------------------------------------------
(* What is proved.                                                         *)

(* A workspace that was never analysed waits for its first full run.       *)
LEMMA StartGood ==
    ASSUME Init
    PROVE  IncrementalInv
<1> DEFINE first == IF FirstRun THEN Empty ELSE [f \in Files |-> Facts(f)]
           linked == IF FirstRun THEN Empty ELSE [f \in Files |-> Resolved(f)]
           stored == IF FirstRun THEN NotStored ELSE disk
<1>0. /\ disk = [f \in Files |-> 1] /\ edits = 1
      /\ diags = first /\ symbols = first /\ library = first /\ graph = linked
      /\ saved = [diags |-> first, symbols |-> first, graph |-> linked,
                  library |-> first, snapshot |-> stored, trusted |-> ~FirstRun]
      /\ run = NoRun /\ cancel = FALSE /\ cut = FALSE
      /\ missed = IF FirstRun THEN {"before"} ELSE {}
  BY DEF Init
<1>1. 1 \in Contents /\ Absent \in Contents /\ Absent = 0
  BY IncrementalAssumption DEF Contents, Absent
<1>2. /\ DOMAIN first = Files /\ DOMAIN linked = Files
      /\ disk \in Snapshot /\ stored \in {NotStored, disk}
  BY <1>0, <1>1 DEF Empty, Snapshot
<1>3. ~FirstRun => /\ stored = disk
                   /\ \A f \in Files : /\ first[f] = FactsIn(disk, f)
                                       /\ linked[f] = Resolved(f)
  BY FactsAreFacts
<1> HIDE DEF first, linked, stored
<1>4. /\ saved.diags = first /\ saved.symbols = first /\ saved.graph = linked
      /\ saved.library = first /\ saved.snapshot = stored /\ saved.trusted = ~FirstRun
  BY <1>0
<1>5. /\ run.phase = "idle" /\ run.current = [f \in Files |-> Absent]
      /\ Plan = stored /\ Todo = {} /\ Idle
      /\ run \in [phase : Phases, full : BOOLEAN, current : Snapshot,
                  todo : SUBSET Files]
  BY <1>0, <1>1, <1>4 DEF NoRun, Phases, Snapshot, Plan, Todo, Idle
<1>6. (Sound => ~FirstRun) /\ (RunSound => Sound)
  BY <1>0, <1>5 DEF Sound, RunSound
<1>7. Shapes
  BY <1>0, <1>1, <1>2, <1>4, <1>5 DEF Shapes
<1>8. Dated
  BY <1>0, <1>1, <1>2, <1>4, <1>5 DEF Dated
<1>9. Sound => /\ Good(disk, first, linked, stored, {})
               /\ Linked(disk, linked, stored, {})
  BY <1>3, <1>6, ResolvedEdges DEF Good, Linked, Kept, Made
<1>10. InOrder
  <2>1. Sound => saved.trusted = TRUE
    BY <1>4, <1>6, IncrementalAssumption
  <2> QED
    BY <1>2, <1>3, <1>4, <1>5, <1>6, <2>1 DEF InOrder, NoneCame
<1>11. StoresGood /\ LibraryGood
  BY <1>0, <1>5, <1>6, <1>9 DEF StoresGood, LibraryGood
<1>12. SavedGood
  BY <1>4, <1>9 DEF SavedGood
<1>13. EdgesShrink /\ SavedInOrder
  BY <1>0, <1>4, <1>5 DEF EdgesShrink, SavedInOrder
<1> QED
  BY <1>7, <1>8, <1>10, <1>11, <1>12, <1>13 DEF IncrementalInv

(* The invariant that carries the results below: whatever of edits,        *)
(* cancels, crashes and exits meets run_incremental_scan or the full path. *)
THEOREM IncrementalInvariant == Spec => []IncrementalInv
<1>1. Init => IncrementalInv
  BY StartGood
<1>2. IncrementalInv /\ [Next]_vars => IncrementalInv'
  <2> SUFFICES ASSUME IncrementalInv, [Next]_vars PROVE IncrementalInv'
    OBVIOUS
  <2>1. CASE UNCHANGED vars
    BY <2>1 DEF vars, stores, IncrementalInv, Shapes, Dated, InOrder, StoresGood,
                LibraryGood, SavedGood, EdgesShrink, SavedInOrder, Sound, RunSound,
                HeaderLost, Removed, Present, Plan, Todo, Idle
  <2>2. ASSUME NEW f \in Files, Edit(f) \/ Delete(f) PROVE IncrementalInv'
    BY <2>2, ChangeStep
  <2>3. ASSUME NEW forced \in BOOLEAN, StartRun(forced) PROVE IncrementalInv'
    BY <2>3, StartStep
  <2>4. ASSUME NEW f \in Opened, LiveRun(f) PROVE IncrementalInv'
    BY <2>4, LiveRunStep
  <2>5. CASE Worker
    BY <2>5, VisitStep, EndScanStep, SaveDiagsStep, SaveSymbolsStep, SaveGraphStep,
       ListFileStep, EndLibraryStep, SaveSnapshotStep, SaveMetaStep, SaveLibraryStep
       DEF Worker
  <2>6. CASE Cancel
    BY <2>6, CancelStep
  <2>7. CASE Restart
    BY <2>7, RestartStep
  <2> QED
    BY <2>1, <2>2, <2>3, <2>4, <2>5, <2>6, <2>7 DEF Next
<1> QED
  BY <1>1, <1>2, PTL DEF Spec

(* What the next run passes over has nothing to do, its edges leading only *)
(* to headers it includes, and a store good against the snapshot is up to  *)
(* date there.                                                             *)
LEMMA GoodIsUpToDate ==
    ASSUME NEW store, NEW edges, Good(disk, store, edges, saved.snapshot, {}),
           Linked(disk, edges, saved.snapshot, {}), NEW f \in PassedOver
    PROVE  UpToDate(store, f)
<1>1. /\ f \in Files /\ disk[f] # Absent
      /\ \A g \in Reads(f) : saved.snapshot[g] = disk[g]
  BY DEF PassedOver, Clean, Present
<1>2. saved.snapshot[f] = disk[f]
  BY <1>1, ReadsAreFiles
<1>3. edges[f] # NotStored /\ edges[f] \subseteq Edges(f)
  BY <1>1, <1>2 DEF Linked
<1>4. f \in Kept(disk, edges, saved.snapshot) \ {}
  BY <1>1, <1>2, <1>3, ReadsAreFiles DEF Kept
<1> QED
  BY <1>1, <1>4, FactsAreFacts DEF Good, Made, UpToDate

(* Between runs, what the next run passes over is up to date in memory:    *)
(* run_incremental_scan misses none that changed or includes what changed. *)
(* It is not so after a scan cut short, an edit during a full run, a       *)
(* header that came or a clean exit, until a full run that meets none of   *)
(* these.                                                                  *)
THEOREM StoresFollow == Spec => []StoresFollowSnapshot
<1>1. IncrementalInv => StoresFollowSnapshot
  <2> SUFFICES ASSUME IncrementalInv, missed = {}, Idle, NEW f \in PassedOver
               PROVE  /\ UpToDate(diags, f) /\ UpToDate(symbols, f)
                      /\ cut \/ UpToDate(library, f)
    BY DEF StoresFollowSnapshot, StoresAlwaysFollow
  <2>1. RunSound
    BY DEF RunSound, Sound
  <2>2. /\ Good(disk, diags, graph, saved.snapshot, {})
        /\ Good(disk, symbols, graph, saved.snapshot, {})
        /\ Linked(disk, graph, saved.snapshot, {})
        /\ cut \/ Good(disk, library, graph, saved.snapshot, {})
    BY <2>1 DEF IncrementalInv, StoresGood, LibraryGood, Plan, Todo, Idle
  <2> QED
    BY <2>2, GoodIsUpToDate
<1> QED
  BY <1>1, IncrementalInvariant, PTL

(* The snapshot is written after all that it vouches for: wherever a run   *)
(* is cut off, what is saved agrees with it, under the same exceptions.    *)
THEOREM SavedFollow == Spec => []SavedFollowSnapshot
<1>1. IncrementalInv => SavedFollowSnapshot
  <2> SUFFICES ASSUME IncrementalInv, missed = {}, NEW f \in PassedOver
               PROVE  /\ UpToDate(saved.diags, f) /\ UpToDate(saved.symbols, f)
                      /\ Idle => cut \/ UpToDate(saved.library, f)
    BY DEF SavedFollowSnapshot
  <2>1. /\ Good(disk, saved.diags, saved.graph, saved.snapshot, {})
        /\ Good(disk, saved.symbols, saved.graph, saved.snapshot, {})
        /\ Linked(disk, saved.graph, saved.snapshot, {})
        /\ Idle => cut \/ Good(disk, saved.library, saved.graph, saved.snapshot, {})
    BY DEF IncrementalInv, SavedGood, Sound, Idle
  <2> QED
    BY <2>1, GoodIsUpToDate
<1> QED
  BY <1>1, IncrementalInvariant, PTL
=============================================================================
