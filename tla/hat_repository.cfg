SPECIFICATION Spec
CONSTANTS
  p = p
  q = q
  Procs = {p, q}
  Uses <- MCUses
  MaxTrees = 2
  MaxCommits = 2
  MaxFaults = 1
  MaxCuts = 1
INVARIANTS UnrecordedIsPending OthersTreesKept
PROPERTIES DeletionFinishes PendingSettles
