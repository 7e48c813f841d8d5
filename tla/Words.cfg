SPECIFICATION Spec
CONSTANTS
  Characters = {"a", "*", "wide", "marked"}
  Wide = {"wide", "marked"}
  Marked = {"marked"}
  WorkCap = 5
  Tokens <- MCTokens
  PatternMax = 4
  TextMax = 3
  Bits = 4
  Numerals <- MCNumerals
  Variables = {"x", "y"}
  NestingCap = 32
  FrameCap = 512
  Leaves <- MCLeaves
  UnaryOps = {"-", "!"}
  BinaryOps = {"*", "-", "<<", "&&", "|"}
  TreeMax = 3
  Names = {"x", "y"}
  White = {" "}
  NotWhite = {":"}
  Separator <- MCSeparator
  DepthCap = 2
  Values <- MCValues
  Arguments <- MCArguments
  WordPieces <- MCWordPieces
  WordMax = 3
  CandidateCap = 3
  Before <- MCBefore
  Trees <- MCTrees
  Components <- MCComponents
  PathMax = 3
INVARIANTS
  RemovalIsExact
  ArithmeticIsExact
  SplittingIsExact
  MatchesAreSorted
CHECK_DEADLOCK FALSE
