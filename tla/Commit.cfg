SPECIFICATION FairSpec
CONSTANTS
  Names <- MCNames
  Values <- MCValues
  StoreCap = 3
  JournalCap = 4
  Scripts <- MCScripts
  Initial <- MCInitial
  AliasJournalCap = 2
  ReadsPerTurn = 4
  Faults <- AllFaults
  DirectCommands <- MCDirect
  MaxAttempts = 1
  MaxDirect = 1
PROPERTIES RefinesTransaction StatusFollowsCommit CommandEnds
CHECK_DEADLOCK FALSE
