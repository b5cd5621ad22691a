--------------------------- MODULE MCEventStream ---------------------------
(***************************************************************************)
(* Two deliveries of one run, a cancellation and a client.                 *)
(***************************************************************************)
EXTENDS EventStream
=============================================================================
