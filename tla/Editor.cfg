SPECIFICATION Spec
CONSTANTS
  Order <- MCOrder
  HistoryCap = 3
  LineCap = 7
  PendingCap = 9
  HistoryShown = 2
  Incomplete <- MCIncomplete
  Keys <- MCKeys
  Pastes <- MCPastes
  AfterEscape <- MCAfterEscape
  FocusWithin = FALSE
  Histories <- MCHistories
  Lines <- MCLines
  KeysMax = 3
  EventsMax = 5
  Directories = {"here", "there"}
  Generations = {0, 1}
  Knowledge <- MCKnowledge
  Questions <- MCQuestions
INVARIANTS
  CompletionIsTheWords
  LineIsWhatWasTyped
PROPERTIES
  AnswersAreCurrent
CHECK_DEADLOCK FALSE
