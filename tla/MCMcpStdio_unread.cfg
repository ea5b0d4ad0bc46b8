SPECIFICATION FairSpec
CONSTANTS
  Callers = {"c1", "c2"}
  Nobody = "nobody"
  Pipe = 1
  MaxUnasked = 1
PROPERTY RequestsEnd
CHECK_DEADLOCK FALSE
