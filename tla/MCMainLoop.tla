----------------------------- MODULE MCMainLoop -----------------------------
(* The event ring, the artifacts under ide_files/ and the builds share no  *)
(* variable here, so each behaviour moves one of them only.                *)
EXTENDS LoopEvents, AnalysisArtifacts, BuildSystem

VARIABLE part   \* the one that moves

MCInit ==
    /\ Init /\ ArtifactsInit /\ BuildInit
    /\ part \in {"events", "artifacts", "builds"}

UseEvents == part = "events" /\ Next /\ UNCHANGED <<artifactVars, allBuildVars, part>>

UseArtifacts ==
    part = "artifacts" /\ ArtifactsNext /\ UNCHANGED <<vars, allBuildVars, part>>

UseBuilds == part = "builds" /\ BuildNext /\ UNCHANGED <<vars, artifactVars, part>>

MCSpec ==
    MCInit /\ [][UseEvents \/ UseArtifacts \/ UseBuilds]_<<vars, artifactVars, allBuildVars, part>>

=============================================================================
