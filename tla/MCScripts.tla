----------------------------- MODULE MCScripts -----------------------------
(***************************************************************************)
(* Scripts with two databases, nested three deep.                          *)
(***************************************************************************)
EXTENDS Scripts
=============================================================================
