--------------------------- MODULE MC_UpdateNotices ---------------------------
(* Two releases, two plugin commits and two attempts: enough for a target that moves while the
   notice of the earlier one is open, and for the last attempt to fail. *)
EXTENDS UpdateNotices

CONSTANTS p, q

TwoReleases == {1, 2}
TwoPlugins  == {p, q}
Oldest      == [ref |-> 1, plug |-> p]
=============================================================================
