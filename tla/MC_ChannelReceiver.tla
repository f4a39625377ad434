------------------------ MODULE MC_ChannelReceiver ------------------------
(* Small instances of ChannelReceiver.                                      *)
EXTENDS ChannelReceiver, TLC

BothFrameworks == {"codex", "claude_code"}
OnlyCodex == {"codex"}

Symmetric == Permutations(Events) \cup Permutations(Tasks) \cup Permutations(Approvals)
=============================================================================
