CONSTANTS
  MiB = 1
  Word = 1073741824
  DiskLists <- MCDiskLists
  SizeOf <- MCSizeOf
  Installed = {"sda", "sdb"}
  Sizes <- TypedSizes
SPECIFICATION Spec
INVARIANTS
  LeavesWithValidDisks
  MBRFitsDisk
  FormatsWhatIsShown
  NoSilentRefusal
