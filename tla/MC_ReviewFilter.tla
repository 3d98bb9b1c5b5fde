--------------------------- MODULE MC_ReviewFilter ---------------------------
(***************************************************************************)
(* TLC instance of ReviewFilter: a script path (a.lua), a path that is not *)
(* reviewed (b.json) and every diff of up to six lines over them.           *)
(***************************************************************************)
EXTENDS ReviewFilter
=============================================================================
