------------------------- MODULE MCRequestPipeline -------------------------
(***************************************************************************)
(* RequestPipeline on a small instance: the server with two clients.       *)
(***************************************************************************)
EXTENDS RequestPipeline
=============================================================================
