---------------------------- MODULE MC_CodexSignIn ----------------------------
(* A quick command of the owner, and the runtime. *)
EXTENDS CodexSignIn

CONSTANTS quick, runtime
=============================================================================
