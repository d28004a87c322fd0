----------------------------- MODULE EditorViews -----------------------------
(***************************************************************************)
(* The editor's tree of views (editor_view.c).  A leaf shows the documents *)
(* of its tabs, a split has two children.  The root is one fixed node:     *)
(* code that replaces the root copies the other node's contents into it.   *)
(*                                                                         *)
(* Views and documents are memory: places that are taken, freed and taken  *)
(* again.  A document is counted by references; opened in two views, a     *)
(* file becomes two documents.  A leaf that is split turns into the split  *)
(* node, where the code drops the leaf, never to free it, and allocates    *)
(* another node in its place.                                              *)
(***************************************************************************)
EXTENDS FiniteSets, SequencesExt, Collections

CONSTANTS
    Paths,       \* files on disk
    MaxFiles,    \* documents in memory at a time
    MaxLeaves,   \* EDITOR_MAX_LEAF_VIEWS
    MaxRefs      \* bound on the references to a document

ASSUME PlacesAssumption ==
    /\ MaxFiles \in Nat \ {0}
    /\ MaxLeaves \in Nat \ {0}
    /\ MaxRefs \in Nat \ {0}

VARIABLES
    view,        \* the views in memory
    file,        \* the open documents
    focus,       \* activeEditorView
    viewCount    \* editorViewCount

viewVars == <<view, file, focus, viewCount>>

Root == 1
Views == 1..(2 * MaxLeaves - 1)
Files == 1..MaxFiles

\* No view, no document, no tab, no path.
None == 0

View == [type : {"none", "leaf", "split"}, a : Views \cup {None}, b : Views \cup {None},
         tabs : SeqOf(Files, MaxFiles), active : 0..MaxFiles]

NoView == [type |-> "none", a |-> None, b |-> None, tabs |-> <<>>, active |-> None]
EmptyLeaf == [NoView EXCEPT !.type = "leaf"]

\* handed: the last edit was handed over to the analysis.
File == [path : Paths \cup {None}, refs : 0..MaxRefs, handed : BOOLEAN]

NoFile == [path |-> None, refs |-> 0, handed |-> TRUE]
Loaded(p) == [NoFile EXCEPT !.path = p, !.refs = 1]

ViewsTypeOK ==
    /\ view \in [Views -> View]
    /\ file \in [Files -> File]
    /\ focus \in Views
    /\ viewCount \in 1..MaxLeaves

ViewsInit ==
    /\ view = [v \in Views |-> IF v = Root THEN EmptyLeaf ELSE NoView]
    /\ file = [f \in Files |-> NoFile]
    /\ focus = Root
    /\ viewCount = 1

-----------------------------------------------------------------------------
Leaves == {v \in Views : view[v].type = "leaf"}
Splits == {v \in Views : view[v].type = "split"}
FreeViews == {v \in Views : view[v].type = "none"}
Lowest(S) == CHOOSE n \in S : \A m \in S : n <= m

FreeFiles == {f \in Files : file[f].refs = 0}

Parent(v) == CHOOSE p \in Splits : v \in {view[p].a, view[p].b}
Sibling(v) == IF view[Parent(v)].a = v THEN view[Parent(v)].b ELSE view[Parent(v)].a

\* The nodes of the subtree v of the tree t.
Below(t, v) ==
    Reached([n \in Views |-> IF t[n].type = "split" THEN {t[n].a, t[n].b} ELSE {}], v)

\* From the root down to the left there is one node that is no split.
LeftmostLeaf(t) ==
    CHOOSE n \in Reached([m \in Views |-> IF t[m].type = "split" THEN {t[m].a} ELSE {}], Root) :
        t[n].type # "split"

\* The document the active tab of v shows.
Shown(v) == IF view[v].active = None THEN None ELSE view[v].tabs[view[v].active]

HasTab(t, v, f) == f \in ToSet(t[v].tabs)

\* The documents after every tab of the views vs that shows one of fs is gone.
Released(vs, fs) ==
    [f \in Files |->
        LET gone == Cardinality({v \in vs : f \in fs /\ HasTab(view, v, f)}) IN
        IF gone = 0 THEN file[f]
        ELSE IF file[f].refs > gone THEN [file[f] EXCEPT !.refs = @ - gone]
        ELSE NoFile]

AtMost(n, bound) == IF n > bound THEN bound ELSE n

\* Mutant of Without: the number of the active tab stays.
WithoutClamping(l, fs) == [l EXCEPT !.tabs = Dropping(l.tabs, fs)]

\* The leaf l without the tabs that show one of fs.  The number of the active
\* tab is only brought down to the number of tabs left.
Without(l, fs) ==
    LET rest == Dropping(l.tabs, fs) IN
    [l EXCEPT !.tabs = rest, !.active = AtMost(@, Len(rest))]

CloseTabs(vs, fs) ==
    /\ view' = [v \in Views |-> IF v \in vs \cap Leaves THEN Without(view[v], fs) ELSE view[v]]
    /\ file' = Released(vs \cap Leaves, fs)
    /\ UNCHANGED <<focus, viewCount>>

\* Closes every tab of the files ps: one was deleted, or they are outside the
\* workspace chosen.
CloseFiles(ps) == CloseTabs(Views, {f \in Files : file[f].path \in ps})

SetActive(v) == focus' = v

SelectTab(v, i) ==
    /\ view' = [view EXCEPT ![v].active = i]
    /\ SetActive(v)
    /\ UNCHANGED <<file, viewCount>>

\* The file is looked for in the tabs of this view only.
Holds(v, p) == \E i \in DOMAIN view[v].tabs : file[view[v].tabs[i]].path = p
TabOf(v, p) == CHOOSE i \in DOMAIN view[v].tabs : file[view[v].tabs[i]].path = p

OpenNew(v, p, f) ==
    /\ view' = [view EXCEPT ![v].tabs = Append(@, f), ![v].active = Len(view[v].tabs) + 1]
    /\ file' = [file EXCEPT ![f] = Loaded(p)]
    /\ SetActive(v)
    /\ UNCHANGED viewCount

\* Loading the file may fail.
Open(v, p) ==
    IF Holds(v, p) THEN SelectTab(v, TabOf(v, p))
    ELSE UNCHANGED viewVars \/ \E f \in FreeFiles : OpenNew(v, p, f)

\* The documents after the leaf v was copied.  The copy takes its place, the
\* references of the original are never given back.
Clone(v) == [f \in Files |-> IF HasTab(view, v, f) THEN [file[f] EXCEPT !.refs = @ + 1] ELSE file[f]]

CanSplit(v) ==
    /\ v \in Leaves
    /\ viewCount < MaxLeaves
    /\ \A f \in ToSet(view[v].tabs) : file[f].refs < MaxRefs

Split(v) ==
    IF ~CanSplit(v) THEN UNCHANGED viewVars
    ELSE LET a == Lowest(FreeViews)
             b == Lowest(FreeViews \ {a})
         IN /\ view' = [view EXCEPT ![v] = [NoView EXCEPT !.type = "split", !.a = a, !.b = b],
                                    ![a] = view[v],
                                    ![b] = EmptyLeaf]
            /\ file' = Clone(v)
            /\ focus' = IF focus = v THEN a ELSE focus
            /\ viewCount' = viewCount + 1

\* The tree after the subtree v has taken the place of its parent: a split
\* that is the root gets the contents of v, of any other the parent forgets it.
\* The nodes of dead are freed.
Raised(v, dead) ==
    LET p == Parent(v)
        moved == IF p = Root
                 THEN [view EXCEPT ![Root] = view[v], ![v] = NoView]
                 ELSE LET g == Parent(p) IN
                      [view EXCEPT ![g].a = IF @ = p THEN v ELSE @,
                                   ![g].b = IF @ = p THEN v ELSE @,
                                   ![p] = NoView]
    IN [n \in Views |-> IF n \in dead THEN NoView ELSE moved[n]]

\* Closes the leaf v, which has no tabs.  Its sibling takes the parent's place.
CloseEmpty(v) ==
    IF v = Root THEN UNCHANGED viewVars
    ELSE /\ view' = Raised(Sibling(v), {v})
         /\ viewCount' = IF viewCount > 1 THEN viewCount - 1 ELSE viewCount
         /\ focus' = LeftmostLeaf(view')
         /\ UNCHANGED file

LeavesBelow(v) == Cardinality(Below(view, v) \cap Leaves)

\* Closes the sibling of the leaf v, with all that it shows.
Collapse(v) ==
    IF v \notin Leaves \/ v = Root THEN UNCHANGED viewVars
    ELSE LET dead == Below(view, Sibling(v))
             removed == LeavesBelow(Sibling(v))
         IN /\ view' = Raised(v, dead)
            /\ file' = Released(dead, Files)
            /\ viewCount' = IF viewCount > removed THEN viewCount - removed ELSE 1
            /\ focus' = IF Parent(v) = Root THEN Root ELSE v

SwitchTab(v, forward) ==
    LET n == Len(view[v].tabs)
        i == view[v].active
    IN IF n = 0 THEN UNCHANGED viewVars
       ELSE SelectTab(v, IF forward THEN (i % n) + 1 ELSE IF i <= 1 THEN n ELSE i - 1)

\* The layout is saved when the program ends and restored when it starts again:
\* every tab becomes a document of its own.  Files of gone cannot be loaded, and
\* the saved number of the active tab is taken if there is such a tab.
Restored(l, fs) ==
    LET rest == Dropping(l.tabs, Files \ fs) IN
    [l EXCEPT !.tabs = rest, !.active = IF @ \in 1..Len(rest) THEN @ ELSE Len(rest)]

Restore(gone) ==
    LET kept == {f \in Files : file[f].path \notin gone /\ \E v \in Leaves : HasTab(view, v, f)} IN
    /\ view' = [v \in Views |-> Restored(view[v], kept)]
    /\ file' = [f \in Files |-> IF f \in kept THEN Loaded(file[f].path) ELSE NoFile]
    /\ UNCHANGED <<focus, viewCount>>

-----------------------------------------------------------------------------
(* The tree by itself: the operations in any order. *)

ViewsNext ==
    \/ \E v \in Leaves :
        \/ \E i \in DOMAIN view[v].tabs : SelectTab(v, i) \/ CloseTabs({v}, {view[v].tabs[i]})
        \/ \E p \in Paths : Open(v, p)
        \/ view[v].tabs = <<>> /\ CloseEmpty(v)
        \/ \E forward \in BOOLEAN : SwitchTab(v, forward)
        \/ Split(v)
        \/ Collapse(v)
        \/ SetActive(v) /\ UNCHANGED <<view, file, viewCount>>
    \/ \E ps \in SUBSET Paths : CloseFiles(ps) \/ Restore(ps)

ViewsSpec == ViewsInit /\ [][ViewsNext]_viewVars

-----------------------------------------------------------------------------
(* Properties *)

\* Through any sequence of splits, closes and collapses the views form one
\* binary tree: every node but the root hangs under exactly one split, all hang
\* under the root, the focus is a leaf of it, and the count that limits
\* splitting is that of its leaves (editor_view.c:312, 649, 711).
ViewsFormTree ==
    /\ \A v \in Views \ FreeViews :
        Cardinality({s \in Splits : v \in {view[s].a, view[s].b}}) = IF v = Root THEN 0 ELSE 1
    /\ \A s \in Splits : view[s].a # view[s].b
    /\ Below(view, Root) = Views \ FreeViews
    /\ focus \in Leaves
    /\ viewCount = Cardinality(Leaves)

\* A tab shows a document that is still in memory, no document is shown by two
\* tabs, and one that is shown survives all but the last of its references.
TabsShowLiveDocuments ==
    /\ \A v \in Views : \A i \in DOMAIN view[v].tabs : file[view[v].tabs[i]].refs > 0
    /\ \A f \in Files :
        Cardinality({t \in Views \X (1..MaxFiles) :
                        t[2] \in DOMAIN view[t[1]].tabs /\ view[t[1]].tabs[t[2]] = f}) \in {0, 1}
    /\ \A v \in Leaves : (view[v].active = None) = (view[v].tabs = <<>>)

\* Both together, after any sequence of operations on views and tabs.
ViewsStand == ViewsFormTree /\ TabsShowLiveDocuments

=============================================================================
