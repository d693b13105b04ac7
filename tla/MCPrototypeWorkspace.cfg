SPECIFICATION Spec
CONSTANTS
  plain = plain
  odd = odd
  LastQuestion = 2
  Texts = {plain, odd}
  NoText = NoText
  TooLong = {}
  Unprintable = {odd}
  MaxPlans = 2
  MaxLoads = 2
INVARIANT StoredAsReviewed
CHECK_DEADLOCK FALSE
