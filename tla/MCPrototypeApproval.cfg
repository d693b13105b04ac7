SPECIFICATION Spec
CONSTANTS
  plain = plain
  odd = odd
  LastQuestion = 2
  Texts = {plain, odd}
  NoText = NoText
  TooLong = {}
  Unprintable = {}
  MaxPlans = 3
  MaxLoads = 1
INVARIANT CompleteAsApproved
CHECK_DEADLOCK FALSE
