----------------------------- MODULE MCHandlers -----------------------------
(* Handlers with two user handlers. *)
EXTENDS Handlers

CONSTANTS h1, h2

MCModules == <<h1, h2>>
=============================================================================
