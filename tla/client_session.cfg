SPECIFICATION ClientSpec
CONSTANTS
  MaxId = 3
  Numbers <- FiveNumbers
  MaxCount = 4
INVARIANT TypeOK
INVARIANT EndsAtRest
INVARIANT NoStrayAnswer
INVARIANT EndsFound
INVARIANT ServerFound
PROPERTY OnlyStopsEndClient
PROPERTY UndisturbedCallsReturn
CHECK_DEADLOCK FALSE
