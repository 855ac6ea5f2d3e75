\* A FIFO of two bytes, messages that need up to three fillings.
SPECIFICATION I2cSpec
CHECK_DEADLOCK FALSE
CONSTANTS
  Depth = 2
  MaxCount = 5
INVARIANTS AllSent
PROPERTIES CallsEnd
