CONSTANTS
  Pid = {1, 2}
  NSlots = 2
  MaxTick = 2
  Recycle = FALSE
  Signals = {"SIGKILL", "SIGTSTP", "SIGCONT"}
  Watched = {0}
SPECIFICATION LiveSpec
INVARIANTS
  NoSignalToReaped
  ChangesNoticed
  TableInv
PROPERTIES
  WaitReturnsWhenNotRunning
  DeadIsNoticed
