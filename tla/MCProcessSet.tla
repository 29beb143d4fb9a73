----------------------------- MODULE MCProcessSet -----------------------------
(* ProcessSet for TLC. *)
EXTENDS ProcessSet
=============================================================================
