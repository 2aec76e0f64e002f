CONSTANTS
  nsh = nsh
  Shell = {nsh}
  MaxTasks = 2
  SendMayRelease = TRUE
SPECIFICATION Spec
INVARIANT OneTaskWithItsSocket
INVARIANT NothingLeftBehind
PROPERTY CommandsReturn
