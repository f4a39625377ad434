-------------------------- MODULE MC_RuntimeUpdate --------------------------
(* Small instances of RuntimeUpdate for TLC: two releases, of which only the second ships the
   launcher. *)
EXTENDS RuntimeUpdate

Releases  == 1..2
Launchers == {2}
=============================================================================
