------------------------------ MODULE MC_Server ------------------------------
(***************************************************************************)
(* TLC instances of Server: two users (u1 an admin), two servers, two      *)
(* places, two key blobs and two command slots, so that two add-game or    *)
(* reset-game commands can overlap.                                        *)
(***************************************************************************)
EXTENDS Server

CONSTANTS u1, u2, s1, s2, p1, p2, p3, k1

\* A database written before this process started: u2 has one game in s1.
MCInitRows == << [server |-> s1, place |-> p1, owner |-> u2, key |-> k1] >>

\* A fresh database
MCNoRows == << >>

MCAllowed == {s1}
=============================================================================
