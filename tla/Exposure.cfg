SPECIFICATION Spec
CONSTANTS
  MaxEdits = 2
  MaxOthers = 1
  MaxFaults = 1
PROPERTY ForeignAgentKept
CHECK_DEADLOCK FALSE
