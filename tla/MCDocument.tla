----------------------------- MODULE MCDocument -----------------------------
(* Document takes patches as whole texts, UnifiedDiff says what one does.  *)
(* They share no variable, so each behaviour moves one of the two only.    *)
EXTENDS Document, UnifiedDiff

VARIABLE part   \* the one that moves

MCInit == DocumentInit /\ DiffInit /\ part \in {"documents", "diff"}

WriteDiff == part = "diff" /\ WriteRow /\ UNCHANGED <<documentVars, part>>

UseDocuments == part = "documents" /\ DocumentNext /\ UNCHANGED <<script, part>>

MCSpec ==
    /\ MCInit
    /\ [][WriteDiff \/ UseDocuments]_<<documentVars, script, part>>
    /\ WF_documentVars(TickSaveQueue) /\ WF_documentVars(PollFileWatcher)

=============================================================================
