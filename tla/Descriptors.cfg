SPECIFICATION Spec
CONSTANTS
  Limit = 18
  Files <- MCFiles
  Commands <- MCCommands
  Redirections <- MCRedirections
  Scripts <- MCScripts
  Initial <- MCInitial
  Transient = {"completion"}
  MaxLaunches = 2
  MaxDirect = 1
INVARIANTS ReactorKeepsItsOwn ChannelsAreKept
PROPERTY KeepsDescriptors
CHECK_DEADLOCK FALSE
