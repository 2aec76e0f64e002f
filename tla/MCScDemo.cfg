CONSTANTS
  console = console
  telnet = telnet
  Shell = {console, telnet}
  Commands <- MCCommands
  Faces = {1, 5}
  MaxTasks = 2
  MaxCommands = 4
SPECIFICATION Spec
INVARIANT AtMostOneTask
INVARIANT NamedTaskLives
INVARIANT ShownIsCurrent
INVARIANT DrawsFitThePanel
PROPERTY StopIsHeeded
PROPERTY FaceIsTakenUp
CHECK_DEADLOCK FALSE
