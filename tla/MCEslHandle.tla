---------------------------- MODULE MCEslHandle ----------------------------
(* A small instance of EslHandle for TLC. *)
EXTENDS EslHandle

=============================================================================
