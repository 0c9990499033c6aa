---------------------------- MODULE RestoreParts ----------------------------
(***************************************************************************)
(* Restore, which this module extends, and beside it one of its steps, the *)
(* merge of two trees, entry by entry.  They share nothing: one run goes   *)
(* through both (MCRestore), and one module proves their properties for    *)
(* any values of these constants (RestoreProofs).                          *)
(***************************************************************************)
EXTENDS Restore

CONSTANTS MergePaths, MaxRenames

VARIABLES src, dst, conflict, listed, status, existing

Merging == INSTANCE MergeTrees WITH Paths <- MergePaths, policy <- conflict

ASSUME MergingAssumption == Merging!ConstantsAssumption

\* MergeTrees: each conflict policy means what it says, for every path
\* (restore.go:198-257).
MergesAsAsked == Merging!MergesAsAsked
=============================================================================
