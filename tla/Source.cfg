SPECIFICATION Spec
CONSTANTS
  NodeCap = 200
  WordCap = 200
  RedirectCap = 20
  TreeMax = 3
  Lines <- MCLines
  LinesMax = 3
  ContextCap = 4
  WordMax = 4
  HeredocCap = 3
  ScriptLines <- MCScriptLines
  ScriptMax = 5
  ExpansionLimit = 12
  TextCap = 24
  AliasTables <- MCAliasTables
  AliasWords = {"a", "b", "c", "d", ";"}
  AliasMax = 4
INVARIANTS
  TreeIsParsed
  WordEndsWithItsQuotes
  LinesAreReadOnce
  AliasesAreExact
PROPERTIES
  SyntaxErrorIsFinal
CHECK_DEADLOCK FALSE
