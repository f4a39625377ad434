SPECIFICATION Spec
CONSTANTS
  telegram = telegram
  slack = slack
  Providers <- MCProviders
  Place <- MCPlace
  Telegram = telegram
  Bad <- MCBad
  Connected = {}
  Last <- MCLast
  MaxFaults = 1
  MaxCuts = 1
INVARIANTS NoStaleSuccess RejectedIsStopped
PROPERTIES SavedSettles
CHECK_DEADLOCK FALSE
