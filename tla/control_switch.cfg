SPECIFICATION CalmSpec
CONSTANTS
  Commands <- Selecting
PROPERTIES
  SwitchSettles
