SPECIFICATION Spec
CONSTANTS
  Short = 2
  Mod = 16
  Half = 8
  MaxMsg = 5
  Requests <- SmallRequests
  Answers <- SmallAnswers
  Capacity = 4
INVARIANT MessageOrNull
CHECK_DEADLOCK FALSE
