--------------------------- MODULE LibrariesPanel ---------------------------
(***************************************************************************)
(* The libraries panel (src/ide/Panes/ToolPanels/Libraries): headers by    *)
(* bucket with their usages, the dependencies of each source, or the graph *)
(* of both, as rows or nodes built from the library index and the include  *)
(* graph when one of them is published or the view changes.  Between two   *)
(* such builds the panel works on what it built.                           *)
(*                                                                         *)
(* How wide the graph is zoomed and where it is moved to is left out.      *)
(***************************************************************************)
EXTENDS RowSelection, FiniteSets, SequencesExt

CONSTANTS
    Indexes,    \* contents of the library index, functions from Buckets
    Graphs      \* contents of the include graph, sequences of [source, deps]

Buckets == {"project", "system"}        \* two of LIB_BUCKET_COUNT
BucketOrder == <<"project", "system">>
LibViews == <<"headers", "dependencies", "graph">>

VARIABLES
    libIndex,       \* library index: by bucket a sequence of [header, usages]
    includes,       \* include graph
    libView,           \* viewMode
    systemHeaders,  \* includeSystemHeaders
    openBuckets,    \* bucketExpanded
    openHeaders,    \* headerExpanded, by bucket and number of the header
    flatRows,
    rowCapacity,       \* flatCapacity, selectedCapacity
    marks,          \* selected
    selectedRow,
    anchorRow,      \* dragAnchorRow
    selecting,
    graphNodes,     \* the paths, by id
    graphEdges,
    selectedNode    \* selectedGraphNodeId, 0 for none

librariesVars == <<libIndex, includes, libView, systemHeaders, openBuckets, openHeaders, flatRows,
                   rowCapacity, marks, selectedRow, anchorRow, selecting, graphNodes, graphEdges,
                   selectedNode>>

LibrariesTypeOK ==
    /\ libView \in 1..Len(LibViews)
    /\ openBuckets \subseteq Buckets
    /\ Len(flatRows) <= rowCapacity
    /\ marks \subseteq 0..(rowCapacity - 1)
    /\ {selectedRow, anchorRow} \subseteq {NoHit} \cup 0..(rowCapacity - 1)
    /\ selectedNode \in 0..Len(graphNodes)

-----------------------------------------------------------------------------
(* Rows: what they are, under what, and the number of the header for those *)
(* that can be folded.                                                     *)

LibRow(kind, of, name, number) == [kind |-> kind, of |-> of, name |-> name, number |-> number]

HeaderRows(b, h, open) ==
    LET header == libIndex[b][h]
    IN <<LibRow("header", b, header.header, h)>> \o
       (IF open[b][h]
        THEN [u \in 1..header.usages |-> LibRow("usage", b, header.header, u)]
        ELSE <<>>)

BucketRows(b, buckets, open) ==
    IF libIndex[b] = <<>> THEN <<>>
    ELSE <<LibRow("bucket", b, b, 0)>> \o
         (IF b \in buckets
          THEN FlattenSeq([h \in DOMAIN libIndex[b] |-> HeaderRows(b, h, open)])
          ELSE <<>>)

HeaderView(system, buckets, open) ==
    FlattenSeq([i \in DOMAIN BucketOrder |->
                    IF BucketOrder[i] = "system" /\ ~system THEN <<>>
                    ELSE BucketRows(BucketOrder[i], buckets, open)])

DependencyView ==
    FlattenSeq([i \in DOMAIN includes |->
        <<LibRow("source", i, includes[i].source, 0)>> \o
        [d \in DOMAIN includes[i].deps |-> LibRow("target", i, includes[i].deps[d], d)]])

(* rebuild_library_graph_from_include_graph: nodes in the order they are   *)
(* met, each path once, sources without dependencies not at all.           *)
PathsMet == FlattenSeq([i \in DOMAIN includes |->
                       IF includes[i].deps = <<>> THEN <<>>
                       ELSE <<includes[i].source>> \o includes[i].deps])
GraphPaths == FoldLeft(LAMBDA met, path : IF Contains(met, path) THEN met ELSE Append(met, path),
                  <<>>, PathsMet)
NodeId(path) == CHOOSE n \in DOMAIN GraphPaths : GraphPaths[n] = path
GraphLinks ==
    UNION {{<<NodeId(includes[i].source), NodeId(includes[i].deps[d])>> :
                d \in {x \in DOMAIN includes[i].deps : includes[i].deps[x] # includes[i].source}} :
           i \in DOMAIN includes}

(* What is folded goes by the number of a header; a number used for the    *)
(* first time is folded.                                                   *)
Extended(open) ==
    [b \in Buckets |->
        [h \in 1..(IF Len(libIndex[b]) > Len(open[b]) THEN Len(libIndex[b]) ELSE Len(open[b])) |->
             IF h \in DOMAIN open[b] THEN open[b][h] ELSE FALSE]]

(* The array of marks is cleared whenever the rows are built.              *)
MarksAfter(count) == {}

(* rebuildLibraryFlatRows, of a view.     The place for rows only grows.      *)
Rebuilt(v, system, buckets, open) ==
    LET list == CASE LibViews[v] = "headers" -> HeaderView(system, buckets, open)
                  [] LibViews[v] = "dependencies" -> DependencyView
                  [] OTHER -> <<>>
    IN /\ flatRows' = list
       /\ rowCapacity' = IF Len(list) > rowCapacity THEN Len(list) ELSE rowCapacity
       /\ marks' = MarksAfter(Len(list))
       /\ IF LibViews[v] = "graph"
          THEN graphNodes' = GraphPaths /\ graphEdges' = GraphLinks
          ELSE graphNodes' = <<>> /\ graphEdges' = {}
       /\ selectedNode' = 0

(* In the graph the row that was selected last is kept.                    *)
RowKept(row, v) == IF LibViews[v] # "graph" /\ row >= Len(flatRows') THEN NoHit ELSE row

LibrariesInit ==
    /\ libIndex \in Indexes
    /\ includes \in Graphs
    /\ libView = 1
    /\ systemHeaders = TRUE
    /\ openBuckets = Buckets
    /\ openHeaders = [b \in Buckets |-> [h \in DOMAIN libIndex[b] |-> FALSE]]
    /\ flatRows = HeaderView(TRUE, Buckets, openHeaders)
    /\ rowCapacity = Len(flatRows)
    /\ marks = {}
    /\ selectedRow = NoHit /\ anchorRow = NoHit
    /\ selecting = FALSE
    /\ graphNodes = <<>> /\ graphEdges = {} /\ selectedNode = 0

-----------------------------------------------------------------------------
(* The stores.                                                             *)

IndexBuilt ==
    /\ libIndex' \in Indexes /\ includes' \in Graphs
    /\ UNCHANGED <<libView, systemHeaders, openBuckets, openHeaders, flatRows, rowCapacity, marks,
                   selectedRow, anchorRow, selecting, graphNodes, graphEdges, selectedNode>>

(* The event of a new index, and drawing when a stamp has changed.         *)
RowsRenewed ==
    /\ Rebuilt(libView, systemHeaders, openBuckets, Extended(openHeaders))
    /\ openHeaders' = Extended(openHeaders)
    /\ selectedRow' = RowKept(selectedRow, libView)
    /\ UNCHANGED <<libIndex, includes, libView, systemHeaders, openBuckets, anchorRow, selecting>>

-----------------------------------------------------------------------------
(* The controls.                                                           *)

ToggleSystem ==
    /\ LibViews[libView] = "headers"
    /\ systemHeaders' = ~systemHeaders
    /\ Rebuilt(libView, ~systemHeaders, openBuckets, Extended(openHeaders))
    /\ openHeaders' = Extended(openHeaders)
    /\ selectedRow' = RowKept(selectedRow, libView)
    /\ UNCHANGED <<libIndex, includes, libView, openBuckets, anchorRow, selecting>>

NextView ==
    /\ libView' = (libView % Len(LibViews)) + 1
    /\ Rebuilt(libView', systemHeaders, openBuckets, Extended(openHeaders))
    /\ openHeaders' = Extended(openHeaders)
    /\ selectedRow' = RowKept(selectedRow, libView')
    /\ UNCHANGED <<libIndex, includes, systemHeaders, openBuckets, anchorRow, selecting>>

-----------------------------------------------------------------------------
(* Rows: handleLibraryEntryClick, updateLibraryDragSelection.              *)

RowHit == 0..(Len(flatRows) - 1)

(* Plain, additive and range clicks on a row.                              *)
SelectRow(r, how) ==
    LET from == IF anchorRow >= 0 THEN anchorRow ELSE IF selectedRow >= 0 THEN selectedRow ELSE r
        count == Len(flatRows)
    IN /\ r \in RowHit
       /\ selecting' = TRUE
       /\ anchorRow' = IF how = "range" THEN from ELSE r
       /\ CASE how = "single" -> marks' = Single(marks, rowCapacity, count, r)
            [] how = "additive" -> marks' = Toggled(marks, rowCapacity, count, r, TRUE)
            [] how = "range" -> marks' = Ranged(marks, rowCapacity, count, from, r)

ClickLibraryRow(r, how) ==
    /\ SelectRow(r, how)
    /\ selectedRow' = r
    /\ UNCHANGED <<libIndex, includes, libView, systemHeaders, openBuckets, openHeaders, flatRows,
                   rowCapacity, graphNodes, graphEdges, selectedNode>>

(* A click on the prefix of a bucket or header: the marks made by the      *)
(* click go when the rows are built again.  The row is looked up in the    *)
(* rows as they were built, what it folds in the index as it is.           *)
ClickPrefix(r) ==
    LET row == flatRows[r + 1]
        b == row.of
        buckets == IF row.kind # "bucket" THEN openBuckets
                   ELSE IF b \in openBuckets THEN openBuckets \ {b} ELSE openBuckets \cup {b}
        open == Extended(IF row.kind # "header" THEN openHeaders
                         ELSE [openHeaders EXCEPT ![b][row.number] = ~@])
    IN /\ r \in RowHit
       /\ row.kind \in {"bucket", "header"}
       /\ openBuckets' = buckets
       /\ openHeaders' = open
       /\ Rebuilt(libView, systemHeaders, buckets, open)
       /\ selectedRow' = RowKept(r, libView)
       /\ anchorRow' \in {r, IF anchorRow >= 0 THEN anchorRow
                             ELSE IF selectedRow >= 0 THEN selectedRow ELSE r}
       /\ selecting' = TRUE
       /\ UNCHANGED <<libIndex, includes, libView, systemHeaders>>

DragOverRow(r) ==
    /\ LibViews[libView] # "graph"
    /\ selecting /\ r \in RowHit
    /\ anchorRow' = IF anchorRow < 0 THEN r ELSE anchorRow
    /\ marks' = Ranged(marks, rowCapacity, Len(flatRows), anchorRow', r)
    /\ UNCHANGED <<libIndex, includes, libView, systemHeaders, openBuckets, openHeaders, flatRows,
                   rowCapacity, selectedRow, selecting, graphNodes, graphEdges, selectedNode>>

EndDrag ==
    /\ selecting' = FALSE
    /\ UNCHANGED <<libIndex, includes, libView, systemHeaders, openBuckets, openHeaders, flatRows,
                   rowCapacity, marks, selectedRow, anchorRow, graphNodes, graphEdges, selectedNode>>

(* select_all_library_rows: with no rows, as in the graph, the whole array *)
(* is marked.                                                              *)
MarkAllRows ==
    /\ marks' = Markable(rowCapacity, Len(flatRows))
    /\ selectedRow' = Limit(rowCapacity, Len(flatRows)) - 1
    /\ UNCHANGED <<libIndex, includes, libView, systemHeaders, openBuckets, openHeaders, flatRows,
                   rowCapacity, anchorRow, selecting, graphNodes, graphEdges, selectedNode>>

(* handleLibraryGraphMouseDown: the second click on a node opens its file. *)
ClickNode(n) ==
    /\ LibViews[libView] = "graph"
    /\ n \in DOMAIN graphNodes
    /\ selectedNode' = n
    /\ UNCHANGED <<libIndex, includes, libView, systemHeaders, openBuckets, openHeaders, flatRows,
                   rowCapacity, marks, selectedRow, anchorRow, selecting, graphNodes, graphEdges>>

LibrariesNext ==
    \/ IndexBuilt \/ RowsRenewed \/ ToggleSystem \/ NextView \/ EndDrag \/ MarkAllRows
    \/ \E r \in RowHit :
           \/ \E how \in {"single", "additive", "range"} : ClickLibraryRow(r, how)
           \/ ClickPrefix(r) \/ DragOverRow(r)
    \/ \E n \in DOMAIN graphNodes : ClickNode(n)

LibrariesSpec == LibrariesInit /\ [][LibrariesNext]_librariesVars

-----------------------------------------------------------------------------
(* Properties.                                                             *)

RowShown(r) == IF r \in RowHit THEN <<flatRows[r + 1]>> ELSE <<>>

(* A marked row stays the row it was, whatever is folded, published or     *)
(* chosen meanwhile (tool_libraries.c:236).                                *)
LibraryMarksStand ==
    [][\A r \in marks \cap marks' : RowShown(r)' = RowShown(r)]_librariesVars

(* Does not hold: the row selected last keeps its number when the rows are *)
(* built again, and a later click with Shift begins there.                 *)
SelectedRowStands ==
    [][selectedRow = selectedRow' /\ selectedRow \in RowHit
       => RowShown(selectedRow)' = RowShown(selectedRow)]_librariesVars

=============================================================================
