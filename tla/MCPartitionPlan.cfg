CONSTANTS
  MiB = 4
  Word = 1073741824
  DiskSizes <- MCDiskSizes
  Sizes <- MCSizes
SPECIFICATION Spec
INVARIANTS SharedLayoutFits RefusalIsRounding
