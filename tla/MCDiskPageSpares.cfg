CONSTANTS
  MiB = 1
  Word = 1073741824
  DiskLists <- MCDiskLists
  SizeOf <- MCSizeOf
  Installed = {"sda", "sdb", "sdc"}
  Sizes <- TypedSizes
SPECIFICATION Spec
INVARIANT WipeSparesChosenDisks
