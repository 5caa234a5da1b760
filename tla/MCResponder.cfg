SPECIFICATION Spec
CONSTANTS
  f1 = f1
  f2 = f2
  c1 = c1
  Nets = {n1}
  Drives = {d1}
  Files = {f1, f2}
  Contents = {c1}
  Original <- SameContent
  Intervals = {1, 2}
  Bad = 3
  Keep = Keep
  Cli <- SmallCli
  Binaries = {b1, b2}
  Installed = b1
  None = None
  MaxCommands = 4
  MaxFaults = 2
  MaxPlugs = 2
SYMMETRY FileSymmetry
CHECK_DEADLOCK FALSE
INVARIANTS FlagsHonest  PolicySurvives FilesWhole
