SPECIFICATION Spec
CONSTANTS
  s1 = s1
  s2 = s2
  s3 = s3
  Session = {s1, s2, s3}
  None = None
  MaxLogins = 4
  MaxRefusals = 3
INVARIANTS TypeOK NewestToken LoginsAreCaused
PROPERTY TokenWaitEnds
CHECK_DEADLOCK FALSE
