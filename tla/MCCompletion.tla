----------------------------- MODULE MCCompletion -----------------------------
(* Small instances of Completion.                                          *)
EXTENDS Completion
=============================================================================
