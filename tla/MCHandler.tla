------------------------------- MODULE MCHandler ------------------------------
(* Instantiates Handler for TLC. Every route and request shape of Requests *)
(* is an initial state; the constants select which collaborator failures   *)
(* the environment may produce.                                            *)
EXTENDS Handler
=============================================================================
