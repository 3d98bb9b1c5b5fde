---------------------------- MODULE MC_SyncLoop ----------------------------
(***************************************************************************)
(* Small instances of SyncLoop for TLC: a script and a non-script file.     *)
(***************************************************************************)
EXTENDS SyncLoop, TLC

\* Both files exist in the initial clone.
MCInitAll == Files

\* The script file is created on the place after the clone.
MCInitNoScript == Files \ Reviewable

\* Titles are opaque: no action tests a title other than for equality, and
\* no property names one, so the states that differ by a renaming of the
\* titles are checked once (safety runs only).
TitleSymmetry == Permutations(Titles)
=============================================================================
