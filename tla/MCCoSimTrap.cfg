SPECIFICATION Spec
CONSTANTS
  DEBUG_SIZE = 4
  Programs <- MCPrograms
  TextBase = 8
  NumRegs = 3
  NumVals = 4
  NumWords = 4
  SysReg = 2
  ExitCode = 1
  CallBuf = 1
  InitMem <- MCInitMem
  COMMIT_WIDTH = 2
  MaxStq = 2
  StopAfterMismatch = 2
  NetSims = {FALSE}
  MaxBeyond = 1
INVARIANT RegisterFileCopied
