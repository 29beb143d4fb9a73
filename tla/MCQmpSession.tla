----------------------------- MODULE MCQmpSession -----------------------------
(* QmpSession for TLC. *)
EXTENDS QmpSession
=============================================================================
