--------------------------- MODULE AnalysisStatus ---------------------------
(***************************************************************************)
(* What the scheduler and the worker of an analysis share: the refresh     *)
(* flag of src/core/Analysis/analysis_status.c, which the worker lowers to *)
(* say it has ended and the scheduler reads to retire it, and the live     *)
(* buffer request one hands to the other.  The flag is kept under          *)
(* g_status_mutex, so each access is one step of its caller.               *)
(***************************************************************************)
EXTENDS Naturals

CONSTANTS
    Files,          \* documents of the workspace
    NoFile          \* the empty path

ASSUME NoFileAssumption == NoFile \notin Files

VARIABLE refreshRunning     \* g_refresh_running

(* A live-buffer request: whose buffer, at which document revision.  The   *)
(* contents are a function of the two.  EmptyLive is the cleared state.    *)
LiveRequest == [file : Files \cup {NoFile}, rev : Nat]
EmptyLive == [file |-> NoFile, rev |-> 0]

=============================================================================
