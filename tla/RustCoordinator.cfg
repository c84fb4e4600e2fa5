CONSTANTS
  ServerId = {s1, s2}
  Nobody = nobody
SPECIFICATION FairSpec
PROPERTY ChecksRepeat
CHECK_DEADLOCK FALSE
