SPECIFICATION TaskSpec
CONSTANTS
  Stream = {s1}
  Capacity = 2
  MaxRestarts = 1
PROPERTY TerminalStaysTerminal
CHECK_DEADLOCK FALSE
