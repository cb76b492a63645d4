CONSTANTS
  Builds = {"old_elf", "old_elf64", "toy"}
  Files <- MCFiles
  Loaders = {1}
  Space = 64
  Page = 4
  NULL = NULL
  Commands <- MCCommands
  Code = {3, 4, 5}
  Ident <- MCIdent
  IdentCount = 2
  StackTop = 64
  Cap = 2
SPECIFICATION SimulatorSpec
INVARIANTS NoLeak TextFits ImageLoaded ProgramReady ProfileExact
PROPERTIES RunStops
