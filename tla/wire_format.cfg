SPECIFICATION FairSpec
CONSTANTS
  Short = 2
  Mod = 16
  Half = 8
  MaxMsg = 5
  Requests <- SmallRequests
  Answers <- SmallAnswers
  Capacity = 4
INVARIANTS InStep RequestsWhole AnswersFit
PROPERTY CallsReturn
CHECK_DEADLOCK FALSE
