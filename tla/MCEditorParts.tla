--------------------------- MODULE MCEditorParts ---------------------------
(* The editor's views, and the text of one document.  They share no        *)
(* variable here, so each behaviour moves one of the two only.             *)
EXTENDS EditorViews, EditorText

VARIABLE part   \* the one that moves

\* Two lines to begin with, and a shorter text from outside.
MCStart == << <<"a", "b">>, <<"c">> >>
MCOthers == {<< <<"d">> >>}

MCInit == ViewsInit /\ Init /\ part \in {"views", "text"}

UseViews == part = "views" /\ ViewsNext /\ UNCHANGED <<vars, part>>

UseText == part = "text" /\ Next /\ UNCHANGED <<viewVars, part>>

MCSpec == MCInit /\ [][UseViews \/ UseText]_<<viewVars, vars, part>>
=============================================================================
