CONSTANTS
  nsh = nsh
  Shell = {nsh}
  MaxTasks = 2
  SendMayRelease = FALSE
SPECIFICATION Spec
INVARIANT NothingReferencesTheDevice
