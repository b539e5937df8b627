CONSTANTS
  BUFSIZE = 4
  Byte <- LineByte
  Nothing = nothing
  NumEvents = 2
  MaxLine = 3
  MaxChar = 4
SPECIFICATION LineSpec
INVARIANT NoMixedLine
PROPERTIES ImplementsFifo InputConsumed
